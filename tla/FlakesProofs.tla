---------------------------- MODULE FlakesProofs ----------------------------
(***************************************************************************)
(* The flake statistics, what is quarantined by them, and what is released *)
(* from the quarantine by the test reports, for any pull requests, builds, *)
(* lanes, tests and periods.  A report is made by a query page by page     *)
(* while the list of closed pull requests changes: nothing not found yet   *)
(* moves up before the page to come.                                       *)
(***************************************************************************)
EXTENDS MCFlakes, FiniteSetTheorems, WellFoundedInduction, TLAPS

-----------------------------------------------------------------------------
(***************************************************************************)
(* Flake reports and the quarantine.                                       *)
(***************************************************************************)

FlakeBuilds ==
    [lane : Lanes, pulls : SUBSET (Pulls \X Nat), finished : Int, labelled : SUBSET Tests,
     junit : BOOLEAN, results : [Tests -> {"passed", "failed", "skipped"}]]

FlakesTypeInv ==
    /\ time \in Nat /\ time >= 2 * WeekDays - 1
    /\ prs \in [Pulls -> [head : Nat, merged : Int, updated : Nat]]
    /\ closed \in Seq(Pulls)
    /\ builds \in Seq(FlakeBuilds)
    /\ labelled \subseteq Tests

\* The list of closed pull requests has each of them once, the last updated first.
ClosedInv ==
    /\ \A p \in Pulls : prs[p].merged # Open =>
          /\ prs[p].merged \in 0..prs[p].updated /\ prs[p].updated <= time
          /\ \E k \in DOMAIN closed : closed[k] = p
    /\ \A k \in DOMAIN closed : prs[closed[k]].merged # Open
    /\ \A k, l \in DOMAIN closed :
          k < l => closed[k] # closed[l] /\ prs[closed[k]].updated >= prs[closed[l]].updated

\* A build is of a periodic job, a pull request or a batch of two.
OfAKind(b) ==
    \/ b.lane \in PeriodicLanes /\ b.pulls = {}
    \/ /\ b.lane \in PullLanes
       /\ \/ \E x \in Pulls \X Nat : b.pulls = {x}
          \/ \E x, y \in Pulls \X Nat : x # y /\ b.pulls = {x, y}

\* Those of a lane that do not belong to one pull request follow each other.
BuildsInv ==
    /\ \A i \in DOMAIN builds :
          /\ OfAKind(builds[i])
          /\ builds[i].finished \in {Unfinished} \cup 0..time
          /\ BuildFails(i) => builds[i].finished # Unfinished /\ builds[i].junit
    /\ \A i, j \in DOMAIN builds :
          i < j /\ builds[i].lane = builds[j].lane /\ Size(i) = Size(j) /\ Size(i) # 1 =>
             /\ builds[i].finished # Unfinished
             /\ builds[j].finished # Unfinished => builds[i].finished <= builds[j].finished

\* What the query has not found yet is on the page to come, or on a later one.
Queried ==
    [kind : {"rolling", "daily", "weekly"}, at : Nat, page : Nat, changes : Seq(Pulls)]
FindsMerged ==
    \A p \in Pulls :
        prs[p].merged \in first..last /\ prs[p].updated < making.at =>
           \/ \E k \in DOMAIN making.changes : making.changes[k] = p
           \/ making.page > 0 /\ \E k \in DOMAIN closed : k >= making.page /\ closed[k] = p
QueryInv ==
    asks => /\ making \in Queried /\ making.at = time /\ first \in Nat /\ last \in Int
            /\ \A k \in DOMAIN making.changes : prs[making.changes[k]].merged # Open
            /\ FindsMerged

\* What a report has is there, and stays of merged code.
OfMerged(report) ==
    /\ report.results \subseteq Nat \X DOMAIN builds /\ IsFiniteSet(report.results)
    /\ \A r \in report.results : Size(r[2]) = 1 =>
          \A x \in builds[r[2]].pulls : prs[x[1]].merged # Open /\ prs[x[1]].head = x[2]
ReportsInv ==
    /\ \A n \in DOMAIN reports : OfMerged(reports[n])
    /\ making # Idle /\ making.kind = "index" =>
          making.written \in DOMAIN reports /\ HasWhatItShould(reports[making.written])

FlakesIInv == FlakesTypeInv /\ ClosedInv /\ BuildsInv /\ QueryInv /\ ReportsInv

-----------------------------------------------------------------------------
LEMMA Sizes ==
    ASSUME NEW b, OfAKind(b), FlakesAssumption
    PROVE  /\ Cardinality(b.pulls) \in 0..2
           /\ Cardinality(b.pulls) = 0 <=> b.lane \in PeriodicLanes
           /\ Cardinality(b.pulls) = 1 <=> \E x \in Pulls \X Nat : b.pulls = {x}
           /\ Cardinality(b.pulls) = 2 => b.lane \in PullLanes
<1>1. PullLanes \cap PeriodicLanes = {}
  BY DEF FlakesAssumption
<1>2. CASE b.lane \in PeriodicLanes /\ b.pulls = {}
  <2>1. Cardinality(b.pulls) = 0
    BY <1>2, FS_EmptySet
  <2>2. ~ \E x \in Pulls \X Nat : b.pulls = {x}
    BY <1>2
  <2> QED  BY <1>2, <2>1, <2>2
<1>3. CASE b.lane \in PullLanes /\ \E x \in Pulls \X Nat : b.pulls = {x}
  <2>1. Cardinality(b.pulls) = 1
    BY <1>3, FS_Singleton
  <2>2. b.lane \notin PeriodicLanes
    BY <1>1, <1>3
  <2> QED  BY <1>3, <2>1, <2>2
<1>4. CASE b.lane \in PullLanes /\ \E x, y \in Pulls \X Nat : x # y /\ b.pulls = {x, y}
  <2>1. PICK x \in Pulls \X Nat, y \in Pulls \X Nat : x # y /\ b.pulls = {x, y}
    BY <1>4
  <2>2. IsFiniteSet({x}) /\ Cardinality({x}) = 1 /\ y \notin {x} /\ {x} \cup {y} = b.pulls
    BY <2>1, FS_Singleton
  <2>6. Cardinality({x} \cup {y}) = Cardinality({x}) + 1
    BY <2>2, FS_AddElement, Zenon
  <2>3. Cardinality(b.pulls) = 2
    BY <2>2, <2>6
  <2>4. ~ \E z \in Pulls \X Nat : b.pulls = {z}
    BY <2>1
  <2>5. b.lane \notin PeriodicLanes
    BY <1>1, <1>4
  <2> QED  BY <1>4, <2>3, <2>4, <2>5
<1> QED  BY <1>2, <1>3, <1>4 DEF OfAKind

LEMMA PeriodIsNatural ==
    ASSUME NEW kind \in {"rolling", "daily", "weekly"}, NEW at \in Nat, FlakesAssumption,
           at >= 2 * WeekDays - 1, kind = "rolling" <=> at # startOfDay(at)
    PROVE  firstTime(kind, at) \in Nat /\ lastTime(kind, at) \in Int
<1>1. WeekDays \in Nat \ {0}
  BY DEF FlakesAssumption
<1>2. \A t \in Nat : startOfDay(t) \in Nat
  BY DEF startOfDay, Day
<1>3. CASE kind = "rolling"
  BY <1>2, <1>3 DEF firstTime, lastTime
<1>4. CASE kind # "rolling"
  <2>1. at = 2 * (at \div 2)
    BY <1>4 DEF startOfDay, Day
  <2>2. at >= 2 * WeekDays /\ at >= 2
    BY <1>1, <2>1
  <2>3. at - 2 \in Nat /\ at - 2 * WeekDays \in Nat
    BY <1>1, <2>2
  <2> QED  BY <1>2, <1>4, <2>3 DEF firstTime, lastTime
<1> QED  BY <1>3, <1>4

\* The list of closed pull requests after a change of one: it comes first, and no
\* other moves up.
LEMMA MovesDown ==
    ASSUME NEW p \in Pulls, closed \in Seq(Pulls), Updated(p),
           \A k, l \in DOMAIN closed : k < l => closed[k] # closed[l]
    PROVE  /\ closed' \in Seq(Pulls) /\ 1 \in DOMAIN closed' /\ closed'[1] = p
           /\ \A l \in DOMAIN closed' : l # 1 =>
                 \E k \in DOMAIN closed : closed[k] = closed'[l] /\ closed[k] # p
           /\ \A l, m \in DOMAIN closed' : 1 < l /\ l < m =>
                 \E k, j \in DOMAIN closed : k < j /\ closed[k] = closed'[l] /\ closed[j] = closed'[m]
           /\ \A k \in DOMAIN closed : closed[k] # p =>
                 \E l \in DOMAIN closed' : l >= k /\ closed'[l] = closed[k]
<1>1. PICK k \in 1 .. Len(closed) + 1 :
          /\ IF k <= Len(closed) THEN closed[k] = p ELSE \A l \in DOMAIN closed : closed[l] # p
          /\ closed' = [l \in DOMAIN closed \cup {k} |->
                          IF l = 1 THEN p ELSE IF l <= k THEN closed[l - 1] ELSE closed[l]]
  BY DEF Updated
<1> DEFINE n == IF k <= Len(closed) THEN Len(closed) ELSE Len(closed) + 1
           Old(l) == IF l <= k THEN l - 1 ELSE l
<1>2. n \in Nat /\ DOMAIN closed = 1..Len(closed) /\ Len(closed) \in Nat /\ k \in 1..n
  OBVIOUS
<1>3. DOMAIN closed \cup {k} = 1..n
  BY <1>2
<1>4. /\ DOMAIN closed' = 1..n
      /\ closed'[1] = p
      /\ \A l \in 1..n : l # 1 => Old(l) \in DOMAIN closed /\ closed'[l] = closed[Old(l)] /\ Old(l) # k
  BY <1>1, <1>2, <1>3
<1>5. closed' = [l \in 1..n |-> closed'[l]] /\ \A l \in 1..n : closed'[l] \in Pulls
  BY <1>1, <1>3, <1>4
<1>6. closed' \in Seq(Pulls)
  BY <1>2, <1>5
<1>7. \A j \in DOMAIN closed : j # k => closed[j] # p
  BY <1>1, <1>2
<1>8. ASSUME NEW l \in DOMAIN closed', l # 1
      PROVE  \E j \in DOMAIN closed : closed[j] = closed'[l] /\ closed[j] # p
  BY <1>4, <1>7, <1>8
<1>9. ASSUME NEW l \in DOMAIN closed', NEW m \in DOMAIN closed', 1 < l, l < m
      PROVE  \E i, j \in DOMAIN closed : i < j /\ closed[i] = closed'[l] /\ closed[j] = closed'[m]
  <2>1. Old(l) < Old(m)
    BY <1>2, <1>4, <1>9
  <2> QED  BY <2>1, <1>4, <1>9
<1>10. ASSUME NEW j \in DOMAIN closed, closed[j] # p
       PROVE  \E l \in DOMAIN closed' : l >= j /\ closed'[l] = closed[j]
  <2>1. CASE j < k
    <3>1. j + 1 \in 1..n /\ j + 1 # 1 /\ Old(j + 1) = j
      BY <1>2, <2>1
    <3> QED  BY <3>1, <1>2, <1>4
  <2>2. CASE j > k
    <3>1. j \in 1..n /\ j # 1 /\ Old(j) = j
      BY <1>2, <2>2
    <3> QED  BY <3>1, <1>2, <1>4
  <2>3. j # k
    BY <1>1, <1>2, <1>10
  <2> QED  BY <2>1, <2>2, <2>3, <1>2
<1> HIDE DEF n
<1>11. 1 \in DOMAIN closed'
  BY <1>2, <1>4
<1> QED  BY <1>4, <1>6, <1>8, <1>9, <1>10, <1>11


\* Builds and merged pull requests that stay as they are leave the reports what they say.
LEMMA ReportsStay ==
    ASSUME \A n \in DOMAIN reports : OfMerged(reports[n]),
           builds \in Seq(FlakeBuilds), UNCHANGED reports,
           \A i \in DOMAIN builds : i \in DOMAIN builds' /\ builds'[i].pulls = builds[i].pulls,
           \A p \in Pulls : prs[p].merged # Open => prs'[p].merged # Open /\ prs'[p].head = prs[p].head
    PROVE  \A n \in DOMAIN reports' : OfMerged(reports[n])'
<1> SUFFICES ASSUME NEW n \in DOMAIN reports
             PROVE  OfMerged(reports[n])'
  OBVIOUS
<1>1. reports'[n].results = reports[n].results /\ OfMerged(reports[n])
  OBVIOUS
<1>2. reports'[n].results \subseteq Nat \X DOMAIN builds' /\ IsFiniteSet(reports'[n].results)
  BY <1>1 DEF OfMerged
<1>3. ASSUME NEW r \in reports'[n].results, Size(r[2])' = 1, NEW x \in builds'[r[2]].pulls
      PROVE  prs'[x[1]].merged # Open /\ prs'[x[1]].head = x[2]
  <2>1. r[2] \in DOMAIN builds
    BY <1>1 DEF OfMerged
  <2>2. builds'[r[2]].pulls = builds[r[2]].pulls
    BY <2>1
  <2>3. Size(r[2]) = 1
    BY <1>3, <2>2 DEF Size
  <2>4. builds[r[2]] \in FlakeBuilds
    BY <2>1
  <2>5. x[1] \in Pulls
    BY <1>3, <2>2, <2>4 DEF FlakeBuilds
  <2>6. prs[x[1]].merged # Open /\ prs[x[1]].head = x[2]
    BY <1>1, <1>3, <2>2, <2>3 DEF OfMerged
  <2> QED  BY <2>5, <2>6
<1> QED  BY <1>2, <1>3 DEF OfMerged

-----------------------------------------------------------------------------
\* The steps of development and CI.

LEMMA FlakesInitIInv == ASSUME FlakesAssumption, FlakesInit PROVE FlakesIInv
<1>1. WeekDays \in Nat \ {0}
  BY DEF FlakesAssumption
<1>2. time \in Nat /\ time >= 2 * WeekDays - 1
  BY <1>1 DEF FlakesInit
<1>3. FlakesTypeInv
  BY <1>2 DEF FlakesInit, FlakesTypeInv, Open
<1>4. ClosedInv /\ BuildsInv
  BY <1>2 DEF FlakesInit, ClosedInv, BuildsInv, Open
<1>5. QueryInv /\ ReportsInv
  BY DEF FlakesInit, QueryInv, asks, ReportsInv
<1> QED  BY <1>3, <1>4, <1>5 DEF FlakesIInv

LEMMA WaitIInv == ASSUME FlakesIInv, FlakesAssumption, Wait PROVE FlakesIInv'
<1>1. /\ making = Idle /\ time' = time + 1
      /\ prs' = prs /\ closed' = closed /\ builds' = builds /\ labelled' = labelled
      /\ reports' = reports /\ making' = making
  BY DEF Wait, Quiet, bucket
<1>2. time \in Nat /\ time' \in Nat /\ time' >= 2 * WeekDays - 1
  <2>1. WeekDays \in Nat /\ time \in Nat /\ time >= 2 * WeekDays - 1
    BY DEF FlakesIInv, FlakesTypeInv, FlakesAssumption
  <2> QED  BY <1>1, <2>1
<1>3. FlakesTypeInv'
  BY <1>1, <1>2 DEF FlakesIInv, FlakesTypeInv
<1>4. ClosedInv'
  <2>1. ASSUME NEW p \in Pulls, prs[p].merged # Open
        PROVE  prs[p].merged \in 0..prs[p].updated /\ prs[p].updated <= time'
    <3>1. prs[p].merged \in 0..prs[p].updated /\ prs[p].updated <= time
      BY <2>1 DEF FlakesIInv, ClosedInv
    <3>2. prs[p].updated \in Nat
      BY DEF FlakesIInv, FlakesTypeInv
    <3> QED  BY <1>1, <1>2, <3>1, <3>2
  <2> QED  BY <1>1, <2>1 DEF FlakesIInv, ClosedInv
<1>5. BuildsInv'
  <2>1. ASSUME NEW i \in DOMAIN builds
        PROVE  builds[i].finished \in {Unfinished} \cup 0..time'
    BY <1>1, <1>2 DEF FlakesIInv, BuildsInv
  <2>2. \A i : BuildFails(i)' = BuildFails(i) /\ Size(i)' = Size(i)
    BY <1>1 DEF BuildFails, Size
  <2> QED  BY <1>1, <2>1, <2>2 DEF FlakesIInv, BuildsInv, OfAKind
<1>6. QueryInv'
  BY <1>1 DEF QueryInv, asks
<1>7. ReportsInv'
  <2>1. \A n \in DOMAIN reports' : OfMerged(reports[n])'
    BY <1>1, ReportsStay DEF FlakesIInv, FlakesTypeInv, ReportsInv
  <2> QED  BY <1>1, <2>1 DEF ReportsInv
<1> QED  BY <1>3, <1>4, <1>5, <1>6, <1>7 DEF FlakesIInv

LEMMA PushIInv == ASSUME FlakesIInv, NEW p \in Pulls, Push(p) PROVE FlakesIInv'
<1>1. /\ making = Idle /\ prs[p].merged = Open
      /\ prs' = [prs EXCEPT ![p].head = @ + 1]
      /\ time' = time /\ closed' = closed /\ builds' = builds /\ labelled' = labelled
      /\ reports' = reports /\ making' = making
  BY DEF Push, Quiet, bucket
<1>2. /\ prs' \in [Pulls -> [head : Nat, merged : Int, updated : Nat]]
      /\ \A q \in Pulls : prs'[q].merged = prs[q].merged /\ prs'[q].updated = prs[q].updated
      /\ \A q \in Pulls : prs[q].merged # Open => prs'[q].head = prs[q].head
  BY <1>1 DEF FlakesIInv, FlakesTypeInv
<1>3. FlakesTypeInv'
  BY <1>1, <1>2 DEF FlakesIInv, FlakesTypeInv
<1>4. ClosedInv'
  <2>1. \A k \in DOMAIN closed : closed[k] \in Pulls
    BY DEF FlakesIInv, FlakesTypeInv
  <2> QED  BY <1>1, <1>2, <2>1 DEF FlakesIInv, ClosedInv
<1>5. BuildsInv'
  <2>1. \A i : BuildFails(i)' = BuildFails(i) /\ Size(i)' = Size(i)
    BY <1>1 DEF BuildFails, Size
  <2> QED  BY <1>1, <2>1 DEF FlakesIInv, BuildsInv, OfAKind
<1>6. QueryInv'
  BY <1>1 DEF QueryInv, asks
<1>7. ReportsInv'
  <2>1. \A n \in DOMAIN reports' : OfMerged(reports[n])'
    BY <1>1, <1>2, ReportsStay DEF FlakesIInv, FlakesTypeInv, ReportsInv
  <2> QED  BY <1>1, <2>1 DEF ReportsInv
<1> QED  BY <1>3, <1>4, <1>5, <1>6, <1>7 DEF FlakesIInv

\* A pull request that is merged, or updated when it is, moves to the head of the list.
LEMMA UpdateIInv ==
    ASSUME FlakesIInv, NEW p \in Pulls, Listable, Updated(p), prs[p].updated' = time,
           UNCHANGED <<time, bucket, labelled>>,
           \/ prs[p].merged = Open /\ prs' = [prs EXCEPT ![p].merged = time, ![p].updated = time]
           \/ prs[p].merged # Open /\ prs' = [prs EXCEPT ![p].updated = time]
    PROVE  FlakesIInv'
<1>1. /\ time' = time /\ labelled' = labelled /\ builds' = builds /\ making' = making /\ reports' = reports
      /\ time \in Nat /\ closed \in Seq(Pulls)
  BY DEF bucket, FlakesIInv, FlakesTypeInv
<1>2. /\ prs' \in [Pulls -> [head : Nat, merged : Int, updated : Nat]]
      /\ prs'[p].merged \in 0..time /\ prs'[p].updated = time
      /\ \A q \in Pulls : q # p => prs'[q] = prs[q]
      /\ \A q \in Pulls : prs'[q].head = prs[q].head
      /\ \A q \in Pulls : prs[q].merged # Open => prs'[q].merged = prs[q].merged
  <2>1. prs \in [Pulls -> [head : Nat, merged : Int, updated : Nat]]
    BY DEF FlakesIInv, FlakesTypeInv
  <2>2. CASE prs[p].merged = Open /\ prs' = [prs EXCEPT ![p].merged = time, ![p].updated = time]
    <3> DEFINE dated == [prs[p] EXCEPT !.merged = time]
               new == [dated EXCEPT !.updated = time]
    <3>7. prs[p] \in [head : Nat, merged : Int, updated : Nat] /\ time \in Int
      BY <1>1, <2>1
    <3>1. /\ dated \in [head : Nat, merged : Int, updated : Nat]
          /\ dated.merged = time /\ dated.head = prs[p].head
      BY <3>7
    <3>2. prs' = [prs EXCEPT ![p] = new]
      BY <2>1, <2>2
    <3> HIDE DEF dated
    <3>3. /\ new \in [head : Nat, merged : Int, updated : Nat]
          /\ new.merged = time /\ new.updated = time /\ new.head = prs[p].head
      BY <1>1, <3>1
    <3> HIDE DEF new
    <3>4. prs' \in [Pulls -> [head : Nat, merged : Int, updated : Nat]] /\ prs'[p] = new
      BY <2>1, <3>2, <3>3
    <3>5. \A q \in Pulls : q # p => prs'[q] = prs[q]
      BY <2>1, <3>2
    <3>6. prs'[p].merged \in 0..time /\ prs'[p].updated = time /\ prs'[p].head = prs[p].head
      BY <1>1, <3>3, <3>4
    <3> QED  BY <2>2, <3>4, <3>5, <3>6
  <2>3. CASE prs[p].merged # Open /\ prs' = [prs EXCEPT ![p].updated = time]
    <3>1. prs[p].merged \in 0..prs[p].updated /\ prs[p].updated <= time /\ prs[p].updated \in Nat
      BY <2>1, <2>3 DEF FlakesIInv, ClosedInv
    <3>2. prs[p].merged \in 0..time
      BY <1>1, <3>1
    <3> QED  BY <1>1, <2>1, <2>3, <3>2
  <2> QED  BY <2>2, <2>3
<1>3. /\ closed' \in Seq(Pulls) /\ 1 \in DOMAIN closed' /\ closed'[1] = p
      /\ \A l \in DOMAIN closed' : l # 1 =>
            \E k \in DOMAIN closed : closed[k] = closed'[l] /\ closed[k] # p
      /\ \A l, m \in DOMAIN closed' : 1 < l /\ l < m =>
            \E k, j \in DOMAIN closed : k < j /\ closed[k] = closed'[l] /\ closed[j] = closed'[m]
      /\ \A k \in DOMAIN closed : closed[k] # p =>
            \E l \in DOMAIN closed' : l >= k /\ closed'[l] = closed[k]
  <2>1. \A k, l \in DOMAIN closed : k < l => closed[k] # closed[l]
    BY DEF FlakesIInv, ClosedInv
  <2> QED  BY <1>1, <2>1, MovesDown
<1>4. FlakesTypeInv'
  BY <1>1, <1>2, <1>3 DEF FlakesIInv, FlakesTypeInv
<1>5. ClosedInv'
  <2>1. ASSUME NEW q \in Pulls, prs'[q].merged # Open
        PROVE  /\ prs'[q].merged \in 0..prs'[q].updated /\ prs'[q].updated <= time
               /\ \E l \in DOMAIN closed' : closed'[l] = q
    <3>1. CASE q = p
      BY <1>1, <1>2, <1>3, <3>1
    <3>2. CASE q # p
      BY <1>2, <1>3, <2>1, <3>2 DEF FlakesIInv, ClosedInv
    <3> QED  BY <3>1, <3>2
  <2>2. ASSUME NEW l \in DOMAIN closed'
        PROVE  prs'[closed'[l]].merged # Open
    <3>1. CASE l = 1
      BY <1>1, <1>2, <1>3, <3>1 DEF Open
    <3>2. CASE l # 1
      <4>1. PICK k \in DOMAIN closed : closed[k] = closed'[l] /\ closed[k] # p
        BY <1>3, <3>2
      <4>2. prs[closed[k]].merged # Open /\ closed[k] \in Pulls
        BY <1>1 DEF FlakesIInv, ClosedInv
      <4> QED  BY <1>2, <4>1, <4>2
    <3> QED  BY <3>1, <3>2
  <2>3. ASSUME NEW l \in DOMAIN closed', NEW m \in DOMAIN closed', l < m
        PROVE  closed'[l] # closed'[m] /\ prs'[closed'[l]].updated >= prs'[closed'[m]].updated
    <3>1. l \in Nat \ {0} /\ m \in Nat \ {0} /\ m # 1
      BY <1>3, <2>3
    <3>2. CASE l = 1
      <4>1. PICK k \in DOMAIN closed : closed[k] = closed'[m] /\ closed[k] # p
        BY <1>3, <3>1
      <4>2. closed[k] \in Pulls /\ prs[closed[k]].updated <= time
        BY <1>1 DEF FlakesIInv, ClosedInv
      <4>3. prs'[closed'[m]].updated <= time /\ prs'[closed'[m]].updated \in Nat
        BY <1>2, <4>1, <4>2
      <4> QED  BY <1>1, <1>2, <1>3, <3>2, <4>1, <4>3
    <3>3. CASE l # 1
      <4>1. PICK k \in DOMAIN closed, j \in DOMAIN closed :
                k < j /\ closed[k] = closed'[l] /\ closed[j] = closed'[m]
        BY <1>3, <2>3, <3>1, <3>3
      <4>2. closed'[l] # p /\ closed'[m] # p
        BY <1>3, <3>1, <3>3
      <4>3. closed[k] \in Pulls /\ closed[j] \in Pulls
        BY <1>1
      <4> QED  BY <1>2, <4>1, <4>2, <4>3 DEF FlakesIInv, ClosedInv
    <3> QED  BY <3>2, <3>3
  <2> QED  BY <1>1, <2>1, <2>2, <2>3 DEF ClosedInv
<1>6. BuildsInv'
  <2>1. \A i : BuildFails(i)' = BuildFails(i) /\ Size(i)' = Size(i)
    BY <1>1 DEF BuildFails, Size
  <2> QED  BY <1>1, <2>1 DEF FlakesIInv, BuildsInv, OfAKind
<1>7. QueryInv'
  <2> SUFFICES ASSUME asks
               PROVE  /\ \A k \in DOMAIN making.changes : prs'[making.changes[k]].merged # Open
                      /\ FindsMerged'
    BY <1>1 DEF FlakesIInv, QueryInv, asks, first, last
  <2>1. making \in Queried /\ making.at = time
    BY DEF FlakesIInv, QueryInv
  <2>2. ASSUME NEW k \in DOMAIN making.changes
        PROVE  prs'[making.changes[k]].merged # Open
    <3>1. making.changes[k] \in Pulls /\ prs[making.changes[k]].merged # Open
      BY <2>1 DEF FlakesIInv, QueryInv, Queried
    <3> QED  BY <1>2, <3>1
  <2>3. first' = first /\ last' = last
    BY <1>1 DEF first, last
  <2>4. ASSUME NEW q \in Pulls, prs'[q].merged \in first..last, prs'[q].updated < making.at
        PROVE  \/ \E k \in DOMAIN making.changes : making.changes[k] = q
               \/ making.page > 0 /\ \E l \in DOMAIN closed' : l >= making.page /\ closed'[l] = q
    <3>1. q # p
      BY <1>1, <1>2, <2>1, <2>4
    <3>2. CASE \E k \in DOMAIN making.changes : making.changes[k] = q
      BY <3>2
    <3>3. CASE making.page > 0 /\ \E k \in DOMAIN closed : k >= making.page /\ closed[k] = q
      <4>1. PICK k \in DOMAIN closed : k >= making.page /\ closed[k] = q
        BY <3>3
      <4>2. PICK l \in DOMAIN closed' : l >= k /\ closed'[l] = closed[k]
        BY <1>3, <3>1, <4>1
      <4>3. k \in Nat /\ l \in Nat /\ making.page \in Nat
        BY <1>1, <1>3, <2>1 DEF Queried
      <4> QED  BY <3>3, <4>1, <4>2, <4>3
    <3> QED  BY <1>2, <2>4, <3>1, <3>2, <3>3 DEF FlakesIInv, QueryInv, FindsMerged
  <2>5. FindsMerged'
    BY <1>1, <2>3, <2>4 DEF FindsMerged
  <2> QED  BY <2>2, <2>5
<1>8. ReportsInv'
  <2>1. \A n \in DOMAIN reports' : OfMerged(reports[n])'
    BY <1>1, <1>2, ReportsStay DEF FlakesIInv, FlakesTypeInv, ReportsInv
  <2>2. ~(making' # Idle /\ making'.kind = "index")
    BY <1>1 DEF Listable, Quiet
  <2> QED  BY <2>1, <2>2 DEF ReportsInv
<1> QED  BY <1>4, <1>5, <1>6, <1>7, <1>8 DEF FlakesIInv

LEMMA MergePullIInv == ASSUME FlakesIInv, NEW p \in Pulls, Merge(p) PROVE FlakesIInv'
BY UpdateIInv DEF Merge, FlakesIInv, FlakesTypeInv

LEMMA CommentLateIInv == ASSUME FlakesIInv, NEW p \in Pulls, CommentLate(p) PROVE FlakesIInv'
BY UpdateIInv DEF CommentLate, FlakesIInv, FlakesTypeInv

\* A new build, which follows those of its lane if it is not of one pull request.
LEMMA StartIInv ==
    ASSUME FlakesIInv, FlakesAssumption, NEW lane, NEW pulls, Start(lane, pulls),
           NEW b, OfAKind(b), b.lane = lane, b.pulls = pulls, pulls \subseteq Pulls \X Nat,
           Cardinality(pulls) = 1 \/ Alone(lane, Cardinality(pulls))
    PROVE  FlakesIInv'
<1> DEFINE new == [lane |-> lane, pulls |-> pulls, finished |-> Unfinished, labelled |-> labelled,
                   junit |-> FALSE, results |-> [t \in Tests |-> "skipped"]]
<1> PICK n : n = Len(builds) + 1
  OBVIOUS
<1>1. /\ making = Idle /\ builds' = Append(builds, new)
      /\ time' = time /\ prs' = prs /\ closed' = closed /\ labelled' = labelled
      /\ reports' = reports /\ making' = making
      /\ builds \in Seq(FlakeBuilds)
  BY DEF Start, Quiet, FlakesIInv, FlakesTypeInv
<1>2. new \in FlakeBuilds
  <2>1. lane \in Lanes
    BY DEF OfAKind, Lanes
  <2>2. labelled \subseteq Tests
    BY DEF FlakesIInv, FlakesTypeInv
  <2>3. [t \in Tests |-> "skipped"] \in [Tests -> {"passed", "failed", "skipped"}]
    OBVIOUS
  <2> HIDE DEF new
  <2>4. new = [lane |-> lane, pulls |-> pulls, finished |-> Unfinished, labelled |-> labelled,
               junit |-> FALSE, results |-> [t \in Tests |-> "skipped"]]
    BY DEF new
  <2> QED  BY <2>1, <2>2, <2>3, <2>4 DEF FlakeBuilds, Unfinished
<1>3. /\ new.lane = lane /\ new.pulls = pulls /\ new.finished = Unfinished
      /\ \A t \in Tests : new.results[t] = "skipped"
  OBVIOUS
<1> HIDE DEF new
<1>4. /\ builds' \in Seq(FlakeBuilds) /\ DOMAIN builds = 1..Len(builds) /\ Len(builds) \in Nat
      /\ DOMAIN builds' = 1..n /\ builds'[n] = new
      /\ \A i \in DOMAIN builds : builds'[i] = builds[i]
  BY <1>1, <1>2
<1>5. FlakesTypeInv'
  BY <1>1, <1>4 DEF FlakesIInv, FlakesTypeInv
<1>6. ClosedInv'
  BY <1>1 DEF FlakesIInv, ClosedInv
<1>7. BuildsInv'
  <2>1. \A i \in DOMAIN builds : BuildFails(i)' = BuildFails(i) /\ Size(i)' = Size(i)
    BY <1>4 DEF BuildFails, Size
  <2>2. Size(n)' = Cardinality(pulls) /\ ~BuildFails(n)'
    BY <1>3, <1>4 DEF BuildFails, Size
  <2>3. ASSUME NEW i \in 1..n
        PROVE  /\ OfAKind(builds'[i])
               /\ builds'[i].finished \in {Unfinished} \cup 0..time
               /\ BuildFails(i)' => builds'[i].finished # Unfinished /\ builds'[i].junit
    <3>1. CASE i = n
      <4>1. OfAKind(new)
        BY <1>3 DEF OfAKind
      <4> QED  BY <1>3, <1>4, <2>2, <3>1, <4>1
    <3>2. CASE i \in DOMAIN builds
      BY <1>4, <2>1, <3>2 DEF FlakesIInv, BuildsInv
    <3> QED  BY <1>4, <3>1, <3>2
  <2>4. ASSUME NEW i \in 1..n, NEW j \in 1..n,
               i < j, builds'[i].lane = builds'[j].lane, Size(i)' = Size(j)', Size(i)' # 1
        PROVE  /\ builds'[i].finished # Unfinished
               /\ builds'[j].finished # Unfinished => builds'[i].finished <= builds'[j].finished
    <3>1. i \in DOMAIN builds
      BY <1>4, <2>4
    <3>2. CASE j = n
      <4>1. builds[i].lane = lane /\ Size(i) = Cardinality(pulls) /\ Cardinality(pulls) # 1
        BY <1>3, <1>4, <2>1, <2>2, <2>4, <3>1, <3>2
      <4>2. builds[i].finished # Unfinished
        BY <3>1, <4>1 DEF Alone
      <4> QED  BY <1>3, <1>4, <3>1, <3>2, <4>2
    <3>3. CASE j \in DOMAIN builds
      <4>1. builds[i].lane = builds[j].lane /\ Size(i) = Size(j) /\ Size(i) # 1
        BY <1>4, <2>1, <2>4, <3>1, <3>3
      <4> QED  BY <1>4, <2>4, <3>1, <3>3, <4>1 DEF FlakesIInv, BuildsInv
    <3> QED  BY <1>4, <3>2, <3>3
  <2> QED  BY <1>1, <1>4, <2>3, <2>4 DEF BuildsInv, OfAKind
<1>8. QueryInv'
  BY <1>1 DEF QueryInv, asks
<1>9. ReportsInv'
  <2>1. \A i \in DOMAIN builds : i \in DOMAIN builds' /\ builds'[i].pulls = builds[i].pulls
    BY <1>4
  <2>2. \A m \in DOMAIN reports' : OfMerged(reports[m])'
    BY <1>1, <2>1, ReportsStay DEF FlakesIInv, ReportsInv
  <2> QED  BY <1>1, <2>2 DEF ReportsInv
<1> QED  BY <1>5, <1>6, <1>7, <1>8, <1>9 DEF FlakesIInv

LEMMA StartsIInv ==
    ASSUME FlakesIInv, FlakesAssumption,
           NEW p \in Pulls, NEW q \in Pulls, NEW lane \in PullLanes,
           StartPull(lane, p) \/ StartBatch(lane, p, q)
    PROVE  FlakesIInv'
<1>1. <<p, prs[p].head>> \in Pulls \X Nat /\ <<q, prs[q].head>> \in Pulls \X Nat
  BY DEF FlakesIInv, FlakesTypeInv
<1>2. CASE StartPull(lane, p)
  <2> DEFINE pulls == {<<p, prs[p].head>>}
             b == [lane |-> lane, pulls |-> pulls]
  <2>1. OfAKind(b) /\ b.lane = lane /\ b.pulls = pulls /\ pulls \subseteq Pulls \X Nat
    BY <1>1, <1>2 DEF OfAKind
  <2>2. Cardinality(pulls) = 1 /\ Start(lane, pulls)
    BY <1>2, FS_Singleton DEF StartPull
  <2> HIDE DEF pulls, b
  <2> QED  BY <2>1, <2>2, StartIInv
<1>3. CASE StartBatch(lane, p, q)
  <2> DEFINE pulls == {<<p, prs[p].head>>, <<q, prs[q].head>>}
             b == [lane |-> lane, pulls |-> pulls]
  <2>1. p # q /\ Start(lane, pulls) /\ Alone(lane, 2)
    BY <1>3 DEF StartBatch
  <2>2. <<p, prs[p].head>> # <<q, prs[q].head>>
    BY <2>1
  <2>3. OfAKind(b) /\ b.lane = lane /\ b.pulls = pulls /\ pulls \subseteq Pulls \X Nat
    BY <1>1, <1>3, <2>2 DEF OfAKind
  <2>4. lane \notin PeriodicLanes
    BY <1>3 DEF FlakesAssumption
  <2>5. ASSUME NEW x, pulls = {x} PROVE FALSE
    <3>1. <<p, prs[p].head>> \in {x} /\ <<q, prs[q].head>> \in {x}
      BY <2>5
    <3> QED  BY <2>2, <3>1
  <2> HIDE DEF pulls, b
  <2>6. Cardinality(pulls) = 2
    <3>1. /\ Cardinality(b.pulls) \in 0..2
          /\ Cardinality(b.pulls) = 0 <=> b.lane \in PeriodicLanes
          /\ Cardinality(b.pulls) = 1 <=> \E x \in Pulls \X Nat : b.pulls = {x}
      BY <2>3, Sizes
    <3>2. ~ \E x \in Pulls \X Nat : pulls = {x}
      BY <2>5
    <3> QED  BY <2>3, <2>4, <3>1, <3>2
  <2> QED  BY <2>1, <2>3, <2>6, StartIInv
<1> QED  BY <1>2, <1>3

LEMMA PeriodicIInv ==
    ASSUME FlakesIInv, FlakesAssumption, NEW lane \in PeriodicLanes, StartPeriodic(lane)
    PROVE  FlakesIInv'
<1> DEFINE b == [lane |-> lane, pulls |-> {}]
<1>1. OfAKind(b) /\ b.lane = lane /\ b.pulls = {}
  BY DEF OfAKind
<1>2. Cardinality({}) = 0 /\ Alone(lane, 0) /\ Start(lane, {})
  BY FS_EmptySet DEF StartPeriodic
<1> HIDE DEF b
<1> QED  BY <1>1, <1>2, StartIInv

LEMMA FinishIInv ==
    ASSUME FlakesIInv, FlakesAssumption, NEW i \in DOMAIN builds, Finish(i)
    PROVE  FlakesIInv'
<1>1. /\ making = Idle /\ builds[i].finished = Unfinished
      /\ time' = time /\ prs' = prs /\ closed' = closed /\ labelled' = labelled
      /\ reports' = reports /\ making' = making
      /\ builds \in Seq(FlakeBuilds) /\ time \in Nat
  BY DEF Finish, Quiet, FlakesIInv, FlakesTypeInv
<1>2. PICK b \in FlakeBuilds :
          /\ builds' = [builds EXCEPT ![i] = b]
          /\ b.lane = builds[i].lane /\ b.pulls = builds[i].pulls /\ b.finished = time
          /\ (\E t \in Tests : b.results[t] = "failed") => b.junit
  <2>1. builds[i] \in FlakeBuilds
    BY <1>1
  <2>2. CASE \E o \in Outcomes :
                builds' = [builds EXCEPT ![i].finished = time, ![i].junit = TRUE,
                    ![i].results = [t \in Tests |->
                        IF t \in builds[i].labelled /\ builds[i].lane \in PullLanes THEN "skipped" ELSE o[t]]]
    <3>1. PICK o \in Outcomes :
                builds' = [builds EXCEPT ![i].finished = time, ![i].junit = TRUE,
                    ![i].results = [t \in Tests |->
                        IF t \in builds[i].labelled /\ builds[i].lane \in PullLanes THEN "skipped" ELSE o[t]]]
      BY <2>2
    <3> DEFINE results == [t \in Tests |->
                        IF t \in builds[i].labelled /\ builds[i].lane \in PullLanes THEN "skipped" ELSE o[t]]
               ended == [builds[i] EXCEPT !.finished = time]
               read == [ended EXCEPT !.junit = TRUE]
               b == [read EXCEPT !.results = results]
    <3>2. results \in [Tests -> {"passed", "failed", "skipped"}]
      <4>1. o \in [Tests -> {"passed", "failed", "skipped"}]
        <5>1. Outcomes \subseteq [Tests -> {"passed", "failed", "skipped"}]
          BY DEF FlakesAssumption
        <5> QED  BY <5>1
      <4> QED  BY <4>1
    <3>3. builds' = [builds EXCEPT ![i] = b]
      BY <1>1, <3>1
    <3> HIDE DEF results
    <3>4. ended \in FlakeBuilds /\ ended.lane = builds[i].lane /\ ended.pulls = builds[i].pulls
          /\ ended.finished = time
      <4>1. time \in Int
        BY <1>1
      <4> QED  BY <2>1, <4>1 DEF FlakeBuilds
    <3> HIDE DEF ended
    <3>5. read \in FlakeBuilds /\ read.lane = builds[i].lane /\ read.pulls = builds[i].pulls
          /\ read.finished = time /\ read.junit
      BY <3>4 DEF FlakeBuilds
    <3> HIDE DEF read
    <3>6. b \in FlakeBuilds /\ b.lane = builds[i].lane /\ b.pulls = builds[i].pulls
          /\ b.finished = time /\ b.junit
      BY <3>2, <3>5 DEF FlakeBuilds
    <3> HIDE DEF b
    <3> QED  BY <3>3, <3>6
  <2>3. CASE builds' = [builds EXCEPT ![i].finished = time]
    <3> DEFINE b == [builds[i] EXCEPT !.finished = time]
    <3>1. builds' = [builds EXCEPT ![i] = b]
      BY <1>1, <2>3
    <3>2. b \in FlakeBuilds /\ b.lane = builds[i].lane /\ b.pulls = builds[i].pulls
          /\ b.finished = time /\ b.results = builds[i].results
      <4>1. time \in Int
        BY <1>1
      <4> QED  BY <2>1, <4>1 DEF FlakeBuilds
    <3>3. ~ \E t \in Tests : builds[i].results[t] = "failed"
      BY <1>1 DEF FlakesIInv, BuildsInv, BuildFails
    <3> HIDE DEF b
    <3> QED  BY <3>1, <3>2, <3>3
  <2> QED  BY <2>2, <2>3 DEF Finish
<1>3. /\ builds' \in Seq(FlakeBuilds) /\ DOMAIN builds' = DOMAIN builds /\ builds'[i] = b
      /\ \A j \in DOMAIN builds : j # i => builds'[j] = builds[j]
      /\ \A j \in DOMAIN builds : builds'[j].pulls = builds[j].pulls /\ builds'[j].lane = builds[j].lane
  BY <1>1, <1>2
<1>4. FlakesTypeInv'
  BY <1>1, <1>3 DEF FlakesIInv, FlakesTypeInv
<1>5. ClosedInv'
  BY <1>1 DEF FlakesIInv, ClosedInv
<1>6. BuildsInv'
  <2>1. \A j \in DOMAIN builds : Size(j)' = Size(j)
    BY <1>3 DEF Size
  <2>2. ASSUME NEW j \in DOMAIN builds
        PROVE  /\ OfAKind(builds'[j])
               /\ builds'[j].finished \in {Unfinished} \cup 0..time
               /\ BuildFails(j)' => builds'[j].finished # Unfinished /\ builds'[j].junit
    <3>1. OfAKind(builds'[j])
      BY <1>3 DEF FlakesIInv, BuildsInv, OfAKind
    <3>2. CASE j = i
      BY <1>1, <1>2, <1>3, <3>1, <3>2 DEF BuildFails, Unfinished
    <3>3. CASE j # i
      BY <1>3, <3>1, <3>3 DEF FlakesIInv, BuildsInv, BuildFails
    <3> QED  BY <3>2, <3>3
  <2>3. ASSUME NEW j \in DOMAIN builds, NEW k \in DOMAIN builds,
               j < k, builds'[j].lane = builds'[k].lane, Size(j)' = Size(k)', Size(j)' # 1
        PROVE  /\ builds'[j].finished # Unfinished
               /\ builds'[k].finished # Unfinished => builds'[j].finished <= builds'[k].finished
    <3>1. builds[j].lane = builds[k].lane /\ Size(j) = Size(k) /\ Size(j) # 1
      BY <1>3, <2>1, <2>3
    <3>2. builds[j].finished # Unfinished
          /\ (builds[k].finished # Unfinished => builds[j].finished <= builds[k].finished)
      BY <2>3, <3>1 DEF FlakesIInv, BuildsInv
    <3>3. j # i /\ builds'[j] = builds[j]
      BY <1>1, <1>3, <3>2
    <3>4. builds[j].finished \in 0..time
      BY <3>2 DEF FlakesIInv, BuildsInv
    <3>5. CASE k = i
      BY <1>1, <1>2, <1>3, <3>2, <3>3, <3>4, <3>5
    <3>6. CASE k # i
      BY <1>3, <3>2, <3>3, <3>6
    <3> QED  BY <3>5, <3>6
  <2> QED  BY <1>1, <1>3, <2>2, <2>3 DEF BuildsInv, OfAKind
<1>7. QueryInv'
  BY <1>1 DEF QueryInv, asks
<1>8. ReportsInv'
  <2>1. \A n \in DOMAIN reports' : OfMerged(reports[n])'
    BY <1>1, <1>3, ReportsStay DEF FlakesIInv, ReportsInv
  <2> QED  BY <1>1, <2>1 DEF ReportsInv
<1> QED  BY <1>4, <1>5, <1>6, <1>7, <1>8 DEF FlakesIInv

-----------------------------------------------------------------------------
\* The steps of the flakefinder.

LEMMA StartReportIInv ==
    ASSUME FlakesIInv, FlakesAssumption, NEW kind \in Kinds, StartReport(kind)
    PROVE  FlakesIInv'
<1>1. /\ making' = [kind |-> kind, at |-> time, page |-> 1, changes |-> <<>>]
      /\ kind = "rolling" <=> time # startOfDay(time)
      /\ time' = time /\ prs' = prs /\ closed' = closed /\ labelled' = labelled
      /\ builds' = builds /\ reports' = reports
      /\ time \in Nat /\ time >= 2 * WeekDays - 1 /\ closed \in Seq(Pulls)
  BY DEF StartReport, FlakesIInv, FlakesTypeInv
<1>2. kind \in {"rolling", "daily", "weekly"}
  BY DEF FlakesAssumption
<1>3. FlakesTypeInv' /\ ClosedInv'
  BY <1>1 DEF FlakesIInv, FlakesTypeInv, ClosedInv
<1>4. BuildsInv'
  <2>1. \A i : BuildFails(i)' = BuildFails(i) /\ Size(i)' = Size(i)
    BY <1>1 DEF BuildFails, Size
  <2> QED  BY <1>1, <2>1 DEF FlakesIInv, BuildsInv, OfAKind
<1>5. QueryInv'
  <2>1. /\ making'.at = time /\ making'.page = 1 /\ making'.changes = <<>> /\ making'.kind = kind
        /\ making' \in Queried
    <3>1. <<>> \in Seq(Pulls)
      OBVIOUS
    <3> QED  BY <1>1, <1>2, <3>1 DEF Queried
  <2>2. first' \in Nat /\ last' \in Int
    BY <1>1, <1>2, <2>1, PeriodIsNatural DEF first, last
  <2>3. FindsMerged'
    <3>1. ASSUME NEW p \in Pulls, prs[p].merged \in first'..last'
          PROVE  \E k \in DOMAIN closed : k >= 1 /\ closed[k] = p
      <4>1. prs[p].merged # Open
        BY <2>2, <3>1 DEF Open
      <4> QED  BY <1>1, <4>1 DEF FlakesIInv, ClosedInv
    <3> QED  BY <1>1, <2>1, <3>1 DEF FindsMerged
  <2> QED  BY <1>1, <2>1, <2>2, <2>3 DEF QueryInv
<1>6. ReportsInv'
  <2>1. \A n \in DOMAIN reports' : OfMerged(reports[n])'
    BY <1>1, ReportsStay DEF FlakesIInv, FlakesTypeInv, ReportsInv
  <2>2. ~(making' # Idle /\ making'.kind = "index")
    BY <1>1, <1>2
  <2> QED  BY <2>1, <2>2 DEF ReportsInv
<1> QED  BY <1>3, <1>4, <1>5, <1>6 DEF FlakesIInv

\* A pull request that was not found before the end of the query is not of the period.
LEMMA QueryPageIInv == ASSUME FlakesIInv, QueryPage PROVE FlakesIInv'
<1> DEFINE p == closed[making.page]
<1>1. /\ asks /\ making.page > 0
      /\ time' = time /\ prs' = prs /\ closed' = closed /\ labelled' = labelled
      /\ builds' = builds /\ reports' = reports
      /\ time \in Nat /\ closed \in Seq(Pulls)
      /\ prs \in [Pulls -> [head : Nat, merged : Int, updated : Nat]]
  BY DEF QueryPage, FlakesIInv, FlakesTypeInv
<1>2. making \in Queried /\ making.at = time /\ first \in Nat /\ last \in Int
  BY <1>1 DEF FlakesIInv, QueryInv
<1>3. FlakesTypeInv' /\ ClosedInv'
  BY <1>1 DEF FlakesIInv, FlakesTypeInv, ClosedInv
<1>4. BuildsInv'
  <2>1. \A i : BuildFails(i)' = BuildFails(i) /\ Size(i)' = Size(i)
    BY <1>1 DEF BuildFails, Size
  <2> QED  BY <1>1, <2>1 DEF FlakesIInv, BuildsInv, OfAKind
<1>5. making' \in Queried /\ making'.kind = making.kind /\ making'.at = making.at
  <2>1. CASE QueryEnds
    BY <1>2, <2>1 DEF QueryPage, Queried
  <2>2. CASE ~QueryEnds
    <3>1. p \in Pulls
      BY <1>1, <1>2, <2>2 DEF QueryEnds, Queried
    <3> DEFINE changes == IF prs[p].merged \in first..last THEN Append(making.changes, p) ELSE making.changes
               turned == [making EXCEPT !.page = @ + 1]
    <3>2. changes \in Seq(Pulls)
      BY <1>2, <3>1 DEF Queried
    <3>3. making' = [turned EXCEPT !.changes = changes]
      BY <1>2, <2>2 DEF QueryPage, Queried
    <3> HIDE DEF changes
    <3>4. turned \in Queried /\ turned.kind = making.kind /\ turned.at = making.at
      BY <1>2 DEF Queried
    <3> HIDE DEF turned
    <3> QED  BY <3>2, <3>3, <3>4 DEF Queried
  <2> QED  BY <2>1, <2>2
<1>6. first' = first /\ last' = last
  BY <1>5 DEF first, last
<1>7. /\ \A k \in DOMAIN making'.changes : prs[making'.changes[k]].merged # Open
      /\ FindsMerged'
  <2>1. CASE QueryEnds
    <3>1. making' = [making EXCEPT !.page = 0]
      BY <2>1 DEF QueryPage
    <3>2. making'.changes = making.changes
      BY <1>2, <3>1 DEF Queried
    <3>3. ASSUME NEW q \in Pulls, prs[q].merged \in first..last, prs[q].updated < making.at
          PROVE  \E k \in DOMAIN making.changes : making.changes[k] = q
      <4>1. ASSUME NEW k \in DOMAIN closed, k >= making.page, closed[k] = q
            PROVE  FALSE
        <5>1. making.page \in DOMAIN closed /\ k \in Nat /\ making.page \in Nat
          BY <1>1, <1>2, <4>1 DEF Queried
        <5>2. prs[p].updated < first
          BY <1>1, <2>1, <5>1 DEF QueryEnds
        <5>3. prs[q].updated <= prs[p].updated
          <6>1. CASE k = making.page
            BY <1>1, <4>1, <6>1
          <6>2. CASE making.page < k
            BY <4>1, <5>1, <6>2 DEF FlakesIInv, ClosedInv
          <6> QED  BY <4>1, <5>1, <6>1, <6>2
        <5>4. prs[q].merged <= prs[q].updated
          BY <1>2, <3>3 DEF FlakesIInv, ClosedInv, Open
        <5>5. prs[q].updated \in Nat /\ prs[p].updated \in Nat /\ prs[q].merged \in Int
          BY <1>1, <5>1
        <5> QED  BY <1>2, <3>3, <5>2, <5>3, <5>4, <5>5
      <4> QED  BY <1>1, <3>3, <4>1 DEF FlakesIInv, QueryInv, FindsMerged
    <3>4. \A k \in DOMAIN making.changes : prs[making.changes[k]].merged # Open
      BY <1>1 DEF FlakesIInv, QueryInv
    <3> QED  BY <1>1, <1>5, <1>6, <3>2, <3>3, <3>4 DEF FindsMerged
  <2>2. CASE ~QueryEnds
    <3>1. /\ making.page \in DOMAIN closed /\ making.page \in Nat /\ p \in Pulls
          /\ making.changes \in Seq(Pulls)
      BY <1>1, <1>2, <2>2 DEF QueryEnds, Queried
    <3>2. /\ making'.page = making.page + 1
          /\ making'.changes = IF prs[p].merged \in first..last THEN Append(making.changes, p) ELSE making.changes
      BY <1>2, <2>2 DEF QueryPage, Queried
    <3>3. prs[p].merged # Open
      BY <3>1 DEF FlakesIInv, ClosedInv
    <3>4. \A k \in DOMAIN making'.changes : prs[making'.changes[k]].merged # Open
      <4>1. \A k \in DOMAIN making.changes : prs[making.changes[k]].merged # Open
        BY <1>1 DEF FlakesIInv, QueryInv
      <4> QED  BY <3>1, <3>2, <3>3, <4>1
    <3>5. ASSUME NEW q \in Pulls, prs[q].merged \in first..last, prs[q].updated < making.at
          PROVE  \/ \E k \in DOMAIN making'.changes : making'.changes[k] = q
                 \/ \E k \in DOMAIN closed : k >= making.page + 1 /\ closed[k] = q
      <4>1. CASE \E k \in DOMAIN making.changes : making.changes[k] = q
        BY <3>1, <3>2, <4>1
      <4>2. CASE \E k \in DOMAIN closed : k >= making.page /\ closed[k] = q
        <5>1. PICK k \in DOMAIN closed : k >= making.page /\ closed[k] = q
          BY <4>2
        <5>2. CASE k = making.page
          <6>1. making'.changes = Append(making.changes, q)
            BY <3>2, <3>5, <5>1, <5>2
          <6> QED  BY <3>1, <6>1
        <5>3. CASE k # making.page
          <6>1. k \in Nat
            BY <1>1
          <6> QED  BY <3>1, <5>1, <5>3, <6>1
        <5> QED  BY <5>2, <5>3
      <4> QED  BY <1>1, <3>5, <4>1, <4>2 DEF FlakesIInv, QueryInv, FindsMerged
    <3>6. making'.page > 0
      BY <3>1, <3>2
    <3> QED  BY <1>1, <1>5, <1>6, <3>2, <3>4, <3>5, <3>6 DEF FindsMerged
  <2> QED  BY <2>1, <2>2
<1>8. QueryInv'
  BY <1>1, <1>2, <1>5, <1>6, <1>7 DEF QueryInv
<1>9. ReportsInv'
  <2>1. \A n \in DOMAIN reports' : OfMerged(reports[n])'
    BY <1>1, ReportsStay DEF FlakesIInv, FlakesTypeInv, ReportsInv
  <2>2. ~(making' # Idle /\ making'.kind = "index")
    BY <1>5 DEF Queried
  <2> QED  BY <2>1, <2>2 DEF ReportsInv
<1> QED  BY <1>3, <1>4, <1>8, <1>9 DEF FlakesIInv

LEMMA QueryFailsIInv ==
    ASSUME FlakesIInv, QueryFails \/ CreateReportIndex
    PROVE  FlakesIInv'
<1>1. /\ making' = Idle
      /\ time' = time /\ prs' = prs /\ closed' = closed /\ labelled' = labelled
      /\ builds' = builds /\ reports' = reports
  BY DEF QueryFails, CreateReportIndex
<1>2. FlakesTypeInv' /\ ClosedInv'
  BY <1>1 DEF FlakesIInv, FlakesTypeInv, ClosedInv
<1>3. BuildsInv'
  <2>1. \A i : BuildFails(i)' = BuildFails(i) /\ Size(i)' = Size(i)
    BY <1>1 DEF BuildFails, Size
  <2> QED  BY <1>1, <2>1 DEF FlakesIInv, BuildsInv, OfAKind
<1>4. QueryInv'
  BY <1>1 DEF QueryInv, asks
<1>5. ReportsInv'
  <2>1. \A n \in DOMAIN reports' : OfMerged(reports[n])'
    BY <1>1, ReportsStay DEF FlakesIInv, FlakesTypeInv, ReportsInv
  <2> QED  BY <1>1, <2>1 DEF ReportsInv
<1> QED  BY <1>2, <1>3, <1>4, <1>5 DEF FlakesIInv

\* What the downloader selects is there, and of merged code.
LEMMA SelectedOfMerged ==
    ASSUME FlakesIInv, asks, NEW unread
    PROVE  /\ JobResults(unread) \subseteq Nat \X DOMAIN builds
           /\ IsFiniteSet(JobResults(unread))
           /\ \A r \in JobResults(unread) : Size(r[2]) = 1 =>
                 \A x \in builds[r[2]].pulls : prs[x[1]].merged # Open /\ prs[x[1]].head = x[2]
<1>1. /\ making.changes \in Seq(Pulls) /\ builds \in Seq(FlakeBuilds)
      /\ \A k \in DOMAIN making.changes : prs[making.changes[k]].merged # Open
  BY DEF FlakesIInv, FlakesTypeInv, QueryInv, Queried
<1> DEFINE places == 0..Len(making.changes)
<1>2. ASSUME NEW r \in JobResults(unread)
      PROVE  /\ r \in places \X DOMAIN builds
             /\ Size(r[2]) = 1 =>
                   \A x \in builds[r[2]].pulls : prs[x[1]].merged # Open /\ prs[x[1]].head = x[2]
  <2>1. \/ \E k \in DOMAIN making.changes : \E i \in FindUnitTestFiles(making.changes[k]) : r = <<k, i>>
        \/ \E changes : \E i \in FindUnitTestFilesForBatchJobs(changes) : r = <<0, i>>
        \/ \E lane : \E i \in FindUnitTestFilesForPeriodicJob(lane) : r = <<0, i>>
    BY <1>2 DEF JobResults
  <2>2. CASE \E k \in DOMAIN making.changes : \E i \in FindUnitTestFiles(making.changes[k]) : r = <<k, i>>
    <3>1. PICK k \in DOMAIN making.changes : \E i \in FindUnitTestFiles(making.changes[k]) : r = <<k, i>>
      BY <2>2
    <3>2. /\ r = <<k, r[2]>> /\ r[2] \in DOMAIN builds
          /\ builds[r[2]].pulls = {<<making.changes[k], prs[making.changes[k]].head>>}
      BY <3>1 DEF FindUnitTestFiles
    <3>3. k \in places
      BY <1>1
    <3> QED  BY <1>1, <3>2, <3>3
  <2>3. CASE \E changes : \E i \in FindUnitTestFilesForBatchJobs(changes) : r = <<0, i>>
    <3>1. r = <<0, r[2]>> /\ r[2] \in DOMAIN builds /\ Size(r[2]) = 2
      BY <2>3 DEF FindUnitTestFilesForBatchJobs, ofPeriod
    <3> QED  BY <1>1, <3>1
  <2>4. CASE \E lane : \E i \in FindUnitTestFilesForPeriodicJob(lane) : r = <<0, i>>
    <3>1. r = <<0, r[2]>> /\ r[2] \in DOMAIN builds /\ Size(r[2]) = 0
      BY <2>4 DEF FindUnitTestFilesForPeriodicJob, ofPeriod
    <3> QED  BY <1>1, <3>1
  <2> QED  BY <2>1, <2>2, <2>3, <2>4
<1>3. places \subseteq Nat /\ IsFiniteSet(places) /\ IsFiniteSet(DOMAIN builds)
  <2>1. DOMAIN builds = 1..Len(builds) /\ Len(builds) \in Nat /\ Len(making.changes) \in Nat
    BY <1>1
  <2>2. IsFiniteSet(0..Len(making.changes)) /\ IsFiniteSet(1..Len(builds))
    <3>1. 0 \in Int /\ 1 \in Int /\ Len(builds) \in Int /\ Len(making.changes) \in Int
      BY <2>1
    <3> QED  BY <3>1, FS_Interval
  <2> QED  BY <2>1, <2>2
<1> HIDE DEF places
<1>4. IsFiniteSet(places \X DOMAIN builds)
  BY <1>3, FS_Product
<1>5. JobResults(unread) \subseteq places \X DOMAIN builds
  BY <1>2
<1>6. IsFiniteSet(JobResults(unread))
  BY <1>4, <1>5, FS_Subset
<1> QED  BY <1>2, <1>3, <1>5, <1>6

\* At the end of the query the downloader finds what the report should have.
LEMMA SelectedIsExpected ==
    ASSUME FlakesIInv, FlakesAssumption, asks, making.page = 0,
           NEW report, report.kind = making.kind, report.at = making.at
    PROVE  Expected(report) \subseteq {r[2] : r \in JobResults({})}
<1> DEFINE from == firstTime(report.kind, report.at)
           to == IF report.kind = "rolling" THEN report.at - 1 ELSE lastTime(report.kind, report.at)
           mergedIn == {p \in Pulls : prs[p].merged \in from..to /\ prs[p].updated < report.at}
           changes == {making.changes[k] : k \in DOMAIN making.changes}
<1>1. /\ making \in Queried /\ making.at = time /\ first \in Nat /\ last \in Int /\ FindsMerged
      /\ builds \in Seq(FlakeBuilds) /\ time \in Nat
  BY DEF FlakesIInv, FlakesTypeInv, QueryInv
<1>2. from = first /\ from..to \subseteq first..last
  <2>1. from = first
    BY DEF first
  <2>2. CASE making.kind = "rolling"
    <3>1. to = time - 1 /\ last = time
      BY <1>1, <2>2 DEF last, lastTime
    <3> QED  BY <1>1, <2>1, <3>1
  <2>3. CASE making.kind # "rolling"
    BY <2>1, <2>3 DEF last
  <2> QED  BY <2>2, <2>3
<1>3. mergedIn \subseteq changes
  <2>1. ASSUME NEW p \in Pulls, prs[p].merged \in from..to, prs[p].updated < report.at
        PROVE  p \in changes
    BY <1>1, <1>2, <2>1 DEF FindsMerged
  <2> QED  BY <2>1
<1> SUFFICES ASSUME NEW i \in Expected(report)
             PROVE  \E r \in JobResults({}) : r[2] = i
  OBVIOUS
<1>4. /\ i \in DOMAIN builds
      /\ builds[i].finished \in 0..report.at - 1 /\ BuildFails(i)
      /\ IF Size(i) = 1 THEN /\ \E p \in mergedIn : builds[i].pulls = {<<p, prs[p].head>>}
                             /\ SkipBeforeStart => builds[i].finished >= from
         ELSE /\ builds[i].finished \in from..to
              /\ IF Size(i) = 0 THEN report.kind # "rolling"
                 ELSE PullsOf(i) \cap mergedIn # {}
  BY DEF Expected
<1>5. /\ builds[i].finished # Unfinished /\ builds[i].junit
      /\ Size(i) \in 0..2
      /\ Size(i) = 0 <=> builds[i].lane \in PeriodicLanes
      /\ Size(i) = 2 => builds[i].lane \in PullLanes
  <2>1. OfAKind(builds[i]) /\ builds[i].finished # Unfinished /\ builds[i].junit
    BY <1>4 DEF FlakesIInv, BuildsInv
  <2> QED  BY <2>1, Sizes DEF Size
<1> HIDE DEF from, to, mergedIn, changes
<1>6. CASE Size(i) = 1
  <2>1. PICK p \in mergedIn : builds[i].pulls = {<<p, prs[p].head>>}
    BY <1>4, <1>6
  <2>2. PICK k \in DOMAIN making.changes : making.changes[k] = p
    BY <1>3, <2>1 DEF changes
  <2>3. i \in FindUnitTestFiles(making.changes[k])
    BY <1>2, <1>4, <1>5, <1>6, <2>1, <2>2 DEF FindUnitTestFiles
  <2>4. <<k, i>> \in JobResults({})
    BY <2>3 DEF JobResults
  <2> QED  BY <2>4
<1>7. CASE Size(i) # 1
  <2>1. builds[i].finished \in first..last
    BY <1>2, <1>4, <1>7
  <2>2. ofPeriod(i, Size(i))
    <3>1. ASSUME NEW j \in i + 1 .. Len(builds), builds[j].lane = builds[i].lane, Size(j) = Size(i),
                 builds[j].finished # Unfinished
          PROVE  builds[j].finished >= first
      <4>1. i \in Nat /\ j \in DOMAIN builds /\ i < j
        BY <1>1, <1>4, <3>1
      <4>2. builds[i].finished <= builds[j].finished
        BY <1>4, <1>7, <3>1, <4>1 DEF FlakesIInv, BuildsInv
      <4>3. builds[j].finished \in 0..time
        BY <3>1, <4>1 DEF FlakesIInv, BuildsInv
      <4> QED  BY <1>1, <2>1, <4>2, <4>3
    <3> QED  BY <2>1, <3>1 DEF ofPeriod
  <2>3. CASE Size(i) = 0
    <3>1. making.kind # "rolling" /\ builds[i].lane \in PeriodicLanes
      BY <1>4, <1>5, <2>3
    <3>2. i \in FindUnitTestFilesForPeriodicJob(builds[i].lane)
      BY <1>4, <1>5, <2>2, <2>3 DEF FindUnitTestFilesForPeriodicJob
    <3>3. <<0, i>> \in JobResults({})
      BY <3>1, <3>2 DEF JobResults
    <3> QED  BY <3>3
  <2>4. CASE Size(i) = 2
    <3>1. PullsOf(i) \cap changes # {}
      BY <1>3, <1>4, <2>4
    <3>2. i \in FindUnitTestFilesForBatchJobs(changes)
      BY <1>4, <1>5, <2>2, <2>4, <3>1 DEF FindUnitTestFilesForBatchJobs
    <3>3. <<0, i>> \in JobResults({})
      BY <3>2 DEF JobResults, changes
    <3> QED  BY <3>3
  <2> QED  BY <1>5, <1>7, <2>3, <2>4
<1> QED  BY <1>6, <1>7

LEMMA WriteReportIInv ==
    ASSUME FlakesIInv, FlakesAssumption, WriteReport
    PROVE  FlakesIInv'
<1>1. PICK unread \in {{}} \cup {{s} : s \in Sources} :
          LET name == fileName(making.kind, making.at)
              report == [kind |-> making.kind, at |-> making.at, changes |-> making.changes,
                         results |-> JobResults(unread),
                         complete |-> unread = {}]
          IN  reports' = [n \in DOMAIN reports \cup {name} |-> IF n = name THEN report ELSE reports[n]]
  BY DEF WriteReport
<1> DEFINE name == fileName(making.kind, making.at)
           report == [kind |-> making.kind, at |-> making.at, changes |-> making.changes,
                      results |-> JobResults(unread), complete |-> unread = {}]
<1>2. /\ asks /\ making.page = 0
      /\ making' = [kind |-> "index", written |-> name]
      /\ time' = time /\ prs' = prs /\ closed' = closed /\ labelled' = labelled
      /\ builds' = builds /\ reports' = [n \in DOMAIN reports \cup {name} |-> IF n = name THEN report ELSE reports[n]]
  BY <1>1 DEF WriteReport
<1>3. FlakesTypeInv' /\ ClosedInv'
  BY <1>2 DEF FlakesIInv, FlakesTypeInv, ClosedInv
<1>4. \A i : BuildFails(i)' = BuildFails(i) /\ Size(i)' = Size(i) /\ PullsOf(i)' = PullsOf(i)
  BY <1>2 DEF BuildFails, Size, PullsOf
<1>5. BuildsInv'
  BY <1>2, <1>4 DEF FlakesIInv, BuildsInv, OfAKind
<1>6. QueryInv'
  BY <1>2 DEF QueryInv, asks
<1>7. /\ report.kind = making.kind /\ report.at = making.at /\ report.results = JobResults(unread)
      /\ report.complete <=> unread = {}
  OBVIOUS
<1> HIDE DEF name, report
<1>8. /\ DOMAIN reports' = DOMAIN reports \cup {name} /\ reports'[name] = report
      /\ \A n \in DOMAIN reports : n # name => reports'[n] = reports[n]
  BY <1>2
<1>9. ASSUME NEW n \in DOMAIN reports'
      PROVE  OfMerged(reports[n])'
  <2>1. \A i : Size(i)' = Size(i)
    BY <1>4
  <2>2. CASE n = name
    <3>1. reports'[n].results = JobResults(unread)
      BY <1>7, <1>8, <2>2
    <3> QED  BY <1>2, <2>1, <3>1, SelectedOfMerged DEF OfMerged
  <2>3. CASE n # name
    <3>1. reports'[n] = reports[n] /\ OfMerged(reports[n])
      BY <1>8, <2>3 DEF FlakesIInv, ReportsInv
    <3> QED  BY <1>2, <2>1, <3>1 DEF OfMerged
  <2> QED  BY <2>2, <2>3
<1>10. making'.written = name /\ reports'[making'.written] = report
  BY <1>2, <1>8
<1>11. HasWhatItShould(reports[making.written])'
  <2> SUFFICES ASSUME report.complete
               PROVE  Expected(reports[making.written])' \subseteq {r[2] : r \in report.results}
    BY <1>10 DEF HasWhatItShould
  <2>1. Expected(report) \subseteq {r[2] : r \in report.results}
    BY <1>2, <1>7, SelectedIsExpected
  <2>2. Expected(reports[making.written])' = Expected(report)
    BY <1>2, <1>4, <1>10 DEF Expected
  <2> QED  BY <2>1, <2>2
<1>12. ReportsInv'
  BY <1>8, <1>9, <1>10, <1>11 DEF ReportsInv
<1> QED  BY <1>3, <1>5, <1>6, <1>12 DEF FlakesIInv

-----------------------------------------------------------------------------
\* The steps of Quarantine change the label only.
LEMMA LabelIInv ==
    ASSUME FlakesIInv, labelled' \subseteq Tests,
           UNCHANGED <<time, prs, closed, builds, making, reports>>
    PROVE  FlakesIInv'
<1>1. /\ time' = time /\ prs' = prs /\ closed' = closed /\ builds' = builds
      /\ making' = making /\ reports' = reports
  OBVIOUS
<1>2. FlakesTypeInv' /\ ClosedInv'
  BY <1>1 DEF FlakesIInv, FlakesTypeInv, ClosedInv
<1>3. \A i : BuildFails(i)' = BuildFails(i) /\ Size(i)' = Size(i) /\ PullsOf(i)' = PullsOf(i)
  BY <1>1 DEF BuildFails, Size, PullsOf
<1>4. BuildsInv'
  BY <1>1, <1>3 DEF FlakesIInv, BuildsInv, OfAKind
<1>5. QueryInv'
  <2>1. asks' = asks /\ first' = first /\ last' = last
    BY <1>1 DEF asks, first, last
  <2>2. FindsMerged' = FindsMerged
    BY <1>1, <2>1 DEF FindsMerged
  <2> QED  BY <1>1, <2>1, <2>2 DEF FlakesIInv, QueryInv
<1>6. ReportsInv'
  <2>1. \A n \in DOMAIN reports' : OfMerged(reports[n])'
    BY <1>1, ReportsStay DEF FlakesIInv, FlakesTypeInv, ReportsInv
  <2>2. HasWhatItShould(reports[making.written])' = HasWhatItShould(reports[making.written])
    BY <1>1, <1>3 DEF HasWhatItShould, Expected
  <2> QED  BY <1>1, <2>1, <2>2 DEF FlakesIInv, ReportsInv
<1> QED  BY <1>2, <1>4, <1>5, <1>6 DEF FlakesIInv

QuarantineIInv == FlakesIInv /\ proposal \subseteq Tests

LEMMA QuarantineNextIInv ==
    ASSUME QuarantineIInv, FlakesAssumption, [QuarantineNext]_<<flakeVars, proposal>>
    PROVE  QuarantineIInv'
<1> USE DEF QuarantineIInv
<1>1. CASE FlakesNext /\ UNCHANGED proposal
  <2>1. CASE Wait
    BY <1>1, <2>1, WaitIInv
  <2>2. ASSUME NEW p \in Pulls, Push(p) \/ Merge(p) \/ CommentLate(p)
        PROVE  QuarantineIInv'
    BY <1>1, <2>2, PushIInv, MergePullIInv, CommentLateIInv
  <2>3. ASSUME NEW lane \in PullLanes, NEW p \in Pulls,
               StartPull(lane, p) \/ \E q \in Pulls : StartBatch(lane, p, q)
        PROVE  QuarantineIInv'
    BY <1>1, <2>3, StartsIInv
  <2>4. ASSUME NEW lane \in PeriodicLanes, StartPeriodic(lane)
        PROVE  QuarantineIInv'
    BY <1>1, <2>4, PeriodicIInv
  <2>5. ASSUME NEW i \in DOMAIN builds, Finish(i)
        PROVE  QuarantineIInv'
    BY <1>1, <2>5, FinishIInv
  <2>6. ASSUME NEW kind \in Kinds, StartReport(kind)
        PROVE  QuarantineIInv'
    BY <1>1, <2>6, StartReportIInv
  <2>7. CASE QueryPage
    BY <1>1, <2>7, QueryPageIInv
  <2>8. CASE QueryFails \/ CreateReportIndex
    BY <1>1, <2>8, QueryFailsIInv
  <2>9. CASE WriteReport
    BY <1>1, <2>9, WriteReportIInv
  <2> QED  BY <1>1, <2>1, <2>2, <2>3, <2>4, <2>5, <2>6, <2>7, <2>8, <2>9 DEF FlakesNext
<1>2. CASE AutoQuarantine
  <2>1. UNCHANGED flakeVars /\ proposal' \subseteq Tests
    BY <1>2 DEF AutoQuarantine, determineTestsForQuarantine, topXTests
  <2> QED  BY <2>1, LabelIInv DEF flakeVars, FlakesIInv, FlakesTypeInv
<1>3. CASE MergeProposal
  <2>1. /\ labelled' \subseteq Tests /\ proposal' = {}
        /\ UNCHANGED <<time, prs, closed, builds, making, reports>>
    BY <1>3 DEF MergeProposal, label, FlakesIInv, FlakesTypeInv
  <2> QED  BY <2>1, LabelIInv
<1>4. ASSUME NEW t \in Tests, QuarantineTest(t) \/ Dequarantine(t)
      PROVE  QuarantineIInv'
  <2>1. /\ labelled' \subseteq Tests /\ proposal' = proposal
        /\ UNCHANGED <<time, prs, closed, builds, making, reports>>
    BY <1>4 DEF QuarantineTest, Dequarantine, label, FlakesIInv, FlakesTypeInv
  <2> QED  BY <2>1, LabelIInv
<1>5. CASE UNCHANGED <<flakeVars, proposal>>
  BY <1>5, LabelIInv DEF flakeVars, FlakesIInv, FlakesTypeInv
<1> QED  BY <1>1, <1>2, <1>3, <1>4, <1>5 DEF QuarantineNext

-----------------------------------------------------------------------------
(***************************************************************************)
(* The rows of a report.                                                   *)
(***************************************************************************)

LEMMA SeverityInRange ==
    ASSUME NEW f \in Nat, NEW s \in Nat
    PROVE  Severity(f, s) \in 1..6 /\ weight(f, s) \in 0 .. 2 * f
BY DEF Severity, weight

\* More failures and fewer successes are no less severe, and weigh no less.
LEMMA WorseIsHeavier ==
    ASSUME NEW f \in Nat, NEW s \in Nat, NEW g \in Nat, NEW t \in Nat, f >= g, s <= t, g > 0
    PROVE  Severity(f, s) <= Severity(g, t) /\ weight(f, s) >= weight(g, t)
<1>1. Severity(f, s) <= Severity(g, t)
  BY DEF Severity
<1> DEFINE factor(m, n) == IF m > 3 * n THEN 7 ELSE IF m > n THEN 6 ELSE IF m < n THEN 3 ELSE 4
<1>2. factor(f, s) >= factor(g, t) /\ factor(f, s) \in {3, 4, 6, 7} /\ factor(g, t) \in {3, 4, 6, 7}
  OBVIOUS
<1>3. weight(f, s) = (factor(f, s) * f) \div 4 /\ weight(g, t) = (factor(g, t) * g) \div 4
  BY DEF weight
<1> HIDE DEF factor
<1>4. factor(f, s) * f >= factor(g, t) * g
  BY <1>2
<1>5. \A a, b \in Int : a >= b => a \div 4 >= b \div 4
  OBVIOUS
<1>6. factor(f, s) * f \in Int /\ factor(g, t) * g \in Int
  BY <1>2
<1> QED  BY <1>1, <1>3, <1>4, <1>5, <1>6

\* The weights of the columns of a severity, as points.
Points(report, row, c) ==
    UNION {{l} \X (1..weight(Failed(report, row, l), Succeeded(report, row, l))) :
              l \in {l \in Columns(report, row) :
                        Severity(Failed(report, row, l), Succeeded(report, row, l)) = c}}

LEMMA OccurrencesArePoints ==
    ASSUME NEW report, NEW row, NEW c \in 1..6
    PROVE  severityOccurrences(report, row)[c] = Cardinality(Points(report, row, c))
BY DEF severityOccurrences, SumOf, Points

LEMMA FailuresAreFinite ==
    ASSUME NEW report, IsFiniteSet(report.results), NEW row, NEW l
    PROVE  /\ Failed(report, row, l) \in Nat /\ Succeeded(report, row, l) \in Nat
           /\ Failed(report, row, l) <= Cardinality(report.results)
           /\ Failed(report, row, l) > 0 => With(report, row, l, "failed") # {}
<1>1. ASSUME NEW s
      PROVE  /\ IsFiniteSet(With(report, row, l, s))
             /\ Cardinality(With(report, row, l, s)) <= Cardinality(report.results)
  <2>1. With(report, row, l, s) \in SUBSET report.results
    BY DEF With
  <2> QED  BY <2>1, FS_Subset
<1>2. \A s : Cardinality(With(report, row, l, s)) \in Nat
  BY <1>1, FS_CardinalityType
<1>3. Cardinality({}) = 0
  BY FS_EmptySet
<1> QED  BY <1>1, <1>2, <1>3 DEF Failed, Succeeded

LEMMA PointsAreFinite ==
    ASSUME FlakesAssumption, NEW report, IsFiniteSet(report.results), NEW row, NEW c
    PROVE  /\ IsFiniteSet(Points(report, row, c))
           /\ \A l, n : <<l, n>> \in Points(report, row, c) <=>
                 /\ l \in Lanes /\ Severity(Failed(report, row, l), Succeeded(report, row, l)) = c
                 /\ n \in 1..weight(Failed(report, row, l), Succeeded(report, row, l))
<1> DEFINE N == Cardinality(report.results)
           weightOf(l) == weight(Failed(report, row, l), Succeeded(report, row, l))
<1>1. N \in Nat
  BY FS_CardinalityType
<1>2. ASSUME NEW l
      PROVE  /\ weightOf(l) \in 0 .. 2 * N
             /\ weightOf(l) > 0 /\ l \in Lanes => l \in Columns(report, row)
  <2>1. /\ Failed(report, row, l) \in Nat /\ Succeeded(report, row, l) \in Nat
        /\ Failed(report, row, l) <= N
        /\ Failed(report, row, l) > 0 => With(report, row, l, "failed") # {}
    BY FailuresAreFinite
  <2>2. weightOf(l) \in 0 .. 2 * Failed(report, row, l)
    BY <2>1, SeverityInRange
  <2> HIDE DEF N, weightOf
  <2>3. weightOf(l) > 0 => Failed(report, row, l) > 0
    BY <2>1, <2>2
  <2> QED  BY <1>1, <2>1, <2>2, <2>3 DEF Columns
<1>3. ASSUME NEW l, NEW n
      PROVE  <<l, n>> \in Points(report, row, c) <=>
                 /\ l \in Lanes /\ Severity(Failed(report, row, l), Succeeded(report, row, l)) = c
                 /\ n \in 1..weightOf(l)
  <2>1. <<l, n>> \in Points(report, row, c) <=>
            /\ l \in Columns(report, row)
            /\ Severity(Failed(report, row, l), Succeeded(report, row, l)) = c
            /\ n \in 1..weightOf(l)
    BY DEF Points
  <2>2. Columns(report, row) \subseteq Lanes
    BY DEF Columns
  <2>3. n \in 1..weightOf(l) => weightOf(l) > 0
    BY <1>1, <1>2
  <2> QED  BY <1>2, <2>1, <2>2, <2>3
<1>4. Points(report, row, c) \in SUBSET (Lanes \X (1 .. 2 * N))
  <2>1. ASSUME NEW x \in Points(report, row, c)
        PROVE  x \in Lanes \X (1 .. 2 * N)
    <3>1. PICK l \in Columns(report, row) : x \in {l} \X (1..weightOf(l))
      BY DEF Points
    <3>2. l \in Lanes
      BY DEF Columns
    <3> HIDE DEF N, weightOf
    <3> QED  BY <1>1, <1>2, <3>1, <3>2
  <2> QED  BY <2>1
<1>5. IsFiniteSet(Lanes \X (1 .. 2 * N))
  <2>1. 2 * N \in Int /\ 1 \in Int
    BY <1>1
  <2>2. IsFiniteSet(1 .. 2 * N)
    BY <2>1, FS_Interval
  <2>3. IsFiniteSet(Lanes)
    BY DEF FlakesAssumption, Lanes
  <2> QED  BY <2>2, <2>3, FS_Product
<1> QED  BY <1>3, <1>4, <1>5, FS_Subset

\* A row with no fewer failures and no more successes than another on every lane has,
\* at the first severity that makes a difference, more.
LEMMA WorseIsFirst ==
    ASSUME FlakesAssumption, NEW report, IsFiniteSet(report.results)
    PROVE  RowsInOrder(report)
<1> SUFFICES ASSUME NEW row, NEW other,
                    \A l \in Lanes : /\ Failed(report, row, l) >= Failed(report, other, l)
                                     /\ Succeeded(report, row, l) <= Succeeded(report, other, l)
             PROVE  ~Before(report, other, row)
  BY DEF RowsInOrder
<1> DEFINE Mine(c) == Points(report, row, c)
           Its(c) == Points(report, other, c)
           Distinct == {c \in 1..6 : \E l : <<l, 1>> \in Mine(c) /\ <<l, 1>> \notin Its(c)}
<1>1. ASSUME NEW c \in 1..6
      PROVE  /\ severityOccurrences(report, row)[c] = Cardinality(Mine(c))
             /\ severityOccurrences(report, other)[c] = Cardinality(Its(c))
             /\ Cardinality(Mine(c)) \in Nat /\ Cardinality(Its(c)) \in Nat
             /\ IsFiniteSet(Mine(c))
  BY OccurrencesArePoints, PointsAreFinite, FS_CardinalityType
<1>2. ASSUME NEW c \in 1..6, \A d \in Distinct : d >= c
      PROVE  Its(c) \subseteq Mine(c)
  <2> SUFFICES ASSUME NEW l, NEW n, <<l, n>> \in Its(c)
               PROVE  <<l, n>> \in Mine(c)
    BY DEF Points
  <2> DEFINE f == Failed(report, row, l)
             s == Succeeded(report, row, l)
             g == Failed(report, other, l)
             t == Succeeded(report, other, l)
  <2>1. l \in Lanes /\ Severity(g, t) = c /\ n \in 1..weight(g, t)
    BY PointsAreFinite
  <2>2. f \in Nat /\ s \in Nat /\ g \in Nat /\ t \in Nat /\ f >= g /\ s <= t
    BY <2>1, FailuresAreFinite
  <2> HIDE DEF f, s, g, t
  <2>3. weight(g, t) \in 0 .. 2 * g
    BY <2>2, SeverityInRange
  <2>4. g > 0
    BY <2>1, <2>2, <2>3
  <2>5. Severity(f, s) <= c /\ weight(f, s) >= weight(g, t)
    BY <2>1, <2>2, <2>4, WorseIsHeavier
  <2>6. Severity(f, s) \in 1..6 /\ weight(f, s) \in Nat
    <3>1. Severity(f, s) \in 1..6 /\ weight(f, s) \in 0 .. 2 * f
      BY <2>2, SeverityInRange
    <3>2. 2 * f \in Nat
      BY <2>2
    <3> QED  BY <3>1, <3>2
  <2>7. n \in 1..weight(f, s) /\ 1 \in 1..weight(f, s)
    BY <2>1, <2>2, <2>3, <2>5, <2>6
  <2> DEFINE d == Severity(f, s)
  <2>8. <<l, n>> \in Mine(d) /\ <<l, 1>> \in Mine(d)
    BY <2>1, <2>7, PointsAreFinite DEF f, s
  <2>9. CASE d = c
    BY <2>8, <2>9
  <2>10. CASE d # c
    <3>1. <<l, 1>> \notin Its(d)
      BY <2>1, <2>10, PointsAreFinite DEF g, t
    <3>2. d \in Distinct
      BY <2>6, <2>8, <3>1
    <3> QED  BY <1>2, <2>5, <2>6, <2>10, <3>2
  <2> QED  BY <2>9, <2>10
<1>3. ASSUME NEW c \in 1..6, \A d \in Distinct : d >= c
      PROVE  Cardinality(Its(c)) <= Cardinality(Mine(c))
  BY <1>1, <1>2, <1>3, FS_Subset
<1>4. SUFFICES ASSUME NEW c \in 1..6, Cardinality(Its(c)) > Cardinality(Mine(c)),
                      \A e \in 1 .. c - 1 : Cardinality(Its(e)) = Cardinality(Mine(e))
               PROVE  FALSE
  <2>1. \A e \in 1..6 : /\ severityOccurrences(report, row)[e] = Cardinality(Mine(e))
                        /\ severityOccurrences(report, other)[e] = Cardinality(Its(e))
    BY <1>1
  <2> HIDE DEF Mine, Its
  <2> QED  BY <2>1, <1>4 DEF Before
<1> HIDE DEF Mine, Its
<1>11. Distinct \subseteq 1..6
  OBVIOUS
<1>5. PICK d \in Distinct : d < c
  <2>1. ~ \A d \in Distinct : d >= c
    <3> SUFFICES ASSUME \A d \in Distinct : d >= c  PROVE FALSE
      OBVIOUS
    <3> HIDE DEF Distinct
    <3>1. Cardinality(Its(c)) <= Cardinality(Mine(c))
      BY <1>3
    <3>2. Cardinality(Its(c)) \in Nat /\ Cardinality(Mine(c)) \in Nat
      BY <1>1
    <3> QED  BY <1>4, <3>1, <3>2
  <2> HIDE DEF Distinct
  <2> QED  BY <1>11, <2>1
<1>6. PICK m \in Distinct : \A e \in Distinct : e >= m
  <2>1. Distinct \subseteq 1..6 /\ d \in Distinct
    BY <1>5, <1>11
  <2> HIDE DEF Distinct
  <2>2. \/ 1 \in Distinct
        \/ 1 \notin Distinct /\ 2 \in Distinct
        \/ {1, 2} \cap Distinct = {} /\ 3 \in Distinct
        \/ {1, 2, 3} \cap Distinct = {} /\ 4 \in Distinct
        \/ {1, 2, 3, 4} \cap Distinct = {} /\ 5 \in Distinct
        \/ {1, 2, 3, 4, 5} \cap Distinct = {} /\ 6 \in Distinct
    BY <2>1
  <2> QED  BY <2>1, <2>2
<1>7. m \in 1 .. c - 1 /\ m \in 1..6
  <2>1. m \in 1..6 /\ d \in 1..6 /\ d >= m /\ d < c
    BY <1>5, <1>6, <1>11
  <2> QED  BY <2>1
<1>8. PICK l : <<l, 1>> \in Mine(m) /\ <<l, 1>> \notin Its(m)
  BY <1>6
<1>9. Its(m) \subseteq Mine(m)
  BY <1>2, <1>6, <1>7
<1>10. Cardinality(Its(m)) = Cardinality(Mine(m))
  BY <1>4, <1>7
<1> QED  BY <1>1, <1>7, <1>8, <1>9, <1>10, FS_Subset

-----------------------------------------------------------------------------
LEMMA QuarantineInvariant ==
    ASSUME FlakesAssumption
    PROVE  QuarantineSpec => []QuarantineIInv
<1>1. FlakesInit /\ QuarantineInit => QuarantineIInv
  BY FlakesInitIInv DEF QuarantineInit, QuarantineIInv
<1>2. QuarantineIInv /\ [QuarantineNext]_<<flakeVars, proposal>> => QuarantineIInv'
  BY QuarantineNextIInv
<1> QED  BY <1>1, <1>2, PTL DEF QuarantineSpec

\* A report, when it is written, has every failure of its period it could read and should
\* have, though the list of pull requests changes between the pages of the query; it has
\* none of a commit that was not merged; and no row is behind one that fails less.
THEOREM ReportsExact ==
    ASSUME FlakesAssumption
    PROVE  QuarantineSpec => []ReportsAreExact
<1>1. QuarantineIInv => ReportsAreExact
  <2> SUFFICES ASSUME QuarantineIInv, making # Idle /\ making.kind = "index"
               PROVE  /\ HasWhatItShould(reports[making.written])
                      /\ OnlyMergedCode(reports[making.written])
                      /\ RowsInOrder(reports[making.written])
    BY DEF ReportsAreExact
  <2>1. /\ making.written \in DOMAIN reports /\ HasWhatItShould(reports[making.written])
        /\ OfMerged(reports[making.written])
    BY DEF QuarantineIInv, FlakesIInv, ReportsInv
  <2>2. OnlyMergedCode(reports[making.written])
    BY <2>1 DEF OnlyMergedCode, OfMerged, OfMergedCode
  <2>3. RowsInOrder(reports[making.written])
    BY <2>1, WorseIsFirst DEF OfMerged
  <2> QED  BY <2>1, <2>2, <2>3
<1> QED  BY <1>1, QuarantineInvariant, PTL

-----------------------------------------------------------------------------
(***************************************************************************)
(* The sums of the reports of days.                                        *)
(***************************************************************************)

\* A sum of natural numbers is positive if one of them is.
LEMMA FiniteSums ==
    ASSUME NEW S, IsFiniteSet(S), NEW v \in [S -> Nat]
    PROVE  LET sum == Cardinality(UNION {{e} \X (1..v[e]) : e \in S})
           IN  sum \in Nat /\ (sum > 0 <=> \E e \in S : v[e] > 0)
<1> DEFINE Part(e) == {e} \X (1..v[e])
           Parts == {Part(e) : e \in S}
           part == [e \in S |-> Part(e)]
           Union == UNION Parts
<1>1. ASSUME NEW e \in S
      PROVE  IsFiniteSet(Part(e))
  <2>1. IsFiniteSet({e})
    BY FS_Singleton
  <2>2. 1 \in Int /\ v[e] \in Int
    OBVIOUS
  <2>3. IsFiniteSet(1..v[e])
    BY <2>2, FS_Interval
  <2> QED  BY <2>1, <2>3, FS_Product
<1>2. part \in Surjection(S, Parts)
  BY DEF Surjection
<1>3. IsFiniteSet(Parts)
  <2> HIDE DEF part, Parts
  <2> QED  BY <1>2, FS_Surjection
<1>4. \A T \in Parts : IsFiniteSet(T)
  BY <1>1
<1>5. IsFiniteSet(Union)
  <2> HIDE DEF Parts
  <2> QED  BY <1>3, <1>4, FS_UNION
<1>6. Union = {} <=> \A e \in S : ~(v[e] > 0)
  <2>1. ASSUME NEW e \in S, v[e] > 0
        PROVE  <<e, 1>> \in Union
    BY <2>1
  <2>2. ASSUME NEW x \in Union
        PROVE  \E e \in S : v[e] > 0
    <3>1. PICK e \in S : x \in {e} \X (1..v[e])
      OBVIOUS
    <3>2. v[e] \in Nat /\ 1..v[e] # {}
      BY <3>1
    <3> QED  BY <3>2
  <2> HIDE DEF Union
  <2> QED  BY <2>1, <2>2
<1> HIDE DEF Union
<1>7. Cardinality(Union) \in Nat /\ (Cardinality(Union) = 0 <=> Union = {})
  BY <1>5, FS_CardinalityType, FS_EmptySet
<1>8. Cardinality(Union) \in Nat /\ (Cardinality(Union) > 0 <=> \E e \in S : v[e] > 0)
  BY <1>6, <1>7
<1> QED  BY <1>8 DEF Union

\* What the sums of a day are positive of.
FailedOn(t, d, l) ==
    Failed(reports[dayReport(d)], <<t, FALSE>>, l) > 0 \/ Failed(reports[dayReport(d)], <<t, TRUE>>, l) > 0

LEMMA DaySums ==
    ASSUME NEW t, NEW d, NEW lanes, IsFiniteSet(lanes), IsFiniteSet(reports[dayReport(d)].results)
    PROVE  /\ FailuresPerDayAndLane(t, d, lanes) \in Nat
           /\ FailuresPerDayAndLane(t, d, lanes) > 0 <=> \E l \in lanes : FailedOn(t, d, l)
<1> DEFINE report == reports[dayReport(d)]
           cells == {<<t, FALSE>>, <<t, TRUE>>} \X lanes
           v == [c \in cells |-> Failed(report, c[1], c[2])]
<1>1. IsFiniteSet(cells)
  <2>1. {<<t, FALSE>>, <<t, TRUE>>} = {<<t, FALSE>>} \cup {<<t, TRUE>>}
    OBVIOUS
  <2>2. IsFiniteSet({<<t, FALSE>>}) /\ IsFiniteSet({<<t, TRUE>>})
    BY FS_Singleton
  <2>3. IsFiniteSet({<<t, FALSE>>, <<t, TRUE>>})
    BY <2>1, <2>2, FS_Union
  <2> QED  BY <2>3, FS_Product
<1>2. v \in [cells -> Nat]
  BY FailuresAreFinite
<1>3. FailuresPerDayAndLane(t, d, lanes) = Cardinality(UNION {{c} \X (1..v[c]) : c \in cells})
  <2>1. {{c} \X (1..v[c]) : c \in cells} = {{c} \X (1..Failed(report, c[1], c[2])) : c \in cells}
    OBVIOUS
  <2> QED  BY <2>1 DEF FailuresPerDayAndLane, SumOf
<1>4. (\E c \in cells : v[c] > 0) <=> \E l \in lanes : FailedOn(t, d, l)
  <2>1. \A c \in cells : v[c] = Failed(report, c[1], c[2])
    OBVIOUS
  <2>2. \A l \in lanes : <<<<t, FALSE>>, l>> \in cells /\ <<<<t, TRUE>>, l>> \in cells
    OBVIOUS
  <2>3. \A c \in cells : c[2] \in lanes /\ (c[1] = <<t, FALSE>> \/ c[1] = <<t, TRUE>>)
    OBVIOUS
  <2> QED  BY <2>1, <2>2, <2>3 DEF FailedOn
<1> HIDE DEF v, cells
<1> QED  BY <1>1, <1>2, <1>3, <1>4, FiniteSums

LEMMA AllSums ==
    ASSUME NEW t, NEW days, IsFiniteSet(days), NEW lanes, IsFiniteSet(lanes),
           \A d \in days : IsFiniteSet(reports[dayReport(d)].results)
    PROVE  AllFailures(t, days, lanes) > 0 <=> \E d \in days, l \in lanes : FailedOn(t, d, l)
<1> DEFINE v == [d \in days |-> FailuresPerDayAndLane(t, d, lanes)]
<1>1. v \in [days -> Nat]
  BY DaySums
<1>2. AllFailures(t, days, lanes) = Cardinality(UNION {{d} \X (1..v[d]) : d \in days})
  <2>1. {{d} \X (1..v[d]) : d \in days} = {{d} \X (1..FailuresPerDayAndLane(t, d, lanes)) : d \in days}
    OBVIOUS
  <2> QED  BY <2>1 DEF AllFailures, SumOf
<1>3. (\E d \in days : v[d] > 0) <=> \E d \in days, l \in lanes : FailedOn(t, d, l)
  BY DaySums
<1> HIDE DEF v
<1> QED  BY <1>1, <1>2, <1>3, FiniteSums

-----------------------------------------------------------------------------
(***************************************************************************)
(* Quarantine.                                                             *)
(***************************************************************************)

\* Of the days that were looked at there are reports, of merged code.
LEMMA FetchedReports ==
    ASSUME FlakesIInv, NEW n \in Nat, AllFetched(n)
    PROVE  /\ IsFiniteSet(daysBefore(n)) /\ IsFiniteSet(fetched(n, TRUE))
           /\ daysBefore(n) \subseteq fetched(n, TRUE)
           /\ \A d \in fetched(n, TRUE) : dayReport(d) \in DOMAIN reports /\ OfMerged(reports[dayReport(d)])
<1>1. Day(time) \in Int
  BY DEF FlakesIInv, FlakesTypeInv, Day
<1> DEFINE D == Day(time)
<1>2. daysBefore(n) \in SUBSET (D - n .. D)
  <2> HIDE DEF D
  <2>1. \A k \in 1..n : D - k \in D - n .. D
    BY <1>1 DEF D
  <2> QED  BY <2>1 DEF daysBefore, D
<1>3. IsFiniteSet(D - n .. D)
  <2>1. D - n \in Int /\ D \in Int
    BY <1>1
  <2> HIDE DEF D
  <2> QED  BY <2>1, FS_Interval
<1>4. IsFiniteSet(daysBefore(n))
  BY <1>2, <1>3, FS_Subset
<1>5. IsFiniteSet(fetched(n, TRUE))
  <2>1. IsFiniteSet({Day(time)}) /\ IsFiniteSet({})
    BY FS_Singleton, FS_EmptySet
  <2> QED  BY <1>4, <2>1, FS_Union DEF fetched
<1>6. \A d \in fetched(n, TRUE) : dayReport(d) \in DOMAIN reports
  BY DEF fetched, AllFetched
<1> QED  BY <1>4, <1>5, <1>6 DEF fetched, FlakesIInv, ReportsInv

\* A failure of the sums is one of a build of merged code, on the lane.
LEMMA SumsOfMerged ==
    ASSUME NEW t, NEW d, NEW l, OfMerged(reports[dayReport(d)]), FailedOn(t, d, l)
    PROVE  \E i \in DOMAIN builds :
              builds[i].lane = l /\ OfMergedCode(i) /\ builds[i].results[t] = "failed"
<1>1. PICK b \in BOOLEAN : Failed(reports[dayReport(d)], <<t, b>>, l) > 0
  BY DEF FailedOn
<1>2. PICK r \in With(reports[dayReport(d)], <<t, b>>, l, "failed") : TRUE
  BY <1>1, FailuresAreFinite DEF OfMerged
<1>3. /\ r \in reports[dayReport(d)].results /\ builds[r[2]].lane = l
      /\ Status(r[2], <<t, b>>) = "failed"
  BY <1>2 DEF With
<1>4. builds[r[2]].results[t] = "failed"
  BY <1>3 DEF Status
<1>5. r[2] \in DOMAIN builds /\ OfMergedCode(r[2])
  BY <1>3 DEF OfMerged, OfMergedCode
<1> QED  BY <1>3, <1>4, <1>5

\* Builds of less than 72 hours, and the order of what search.ci shows.
LEMMA RecentFailures ==
    ASSUME FlakesIInv, NEW t, NEW lane, NEW range, HasMinRecentFailures(Impact(t, lane, range))
    PROVE  \E i, j \in DOMAIN builds :
              /\ builds[i].lane = lane /\ builds[j].lane = lane
              /\ \A k \in {i, j} : builds[k].results[t] = "failed" /\ age(k) < ThreeDays
              /\ builds[i].finished < builds[j].finished
<1> DEFINE impact == Impact(t, lane, range)
<1>1. PICK a \in recentIntervals(impact), b \in recentIntervals(impact) : a[2] - b[2] >= 2
  BY DEF HasMinRecentFailures
<1>2. ASSUME NEW i \in impact.builds
      PROVE  /\ i \in DOMAIN builds /\ builds[i].lane = lane /\ builds[i].results[t] = "failed"
             /\ builds[i].finished \in Int /\ age(i) \in Nat
  <2>1. i \in DOMAIN builds /\ builds[i].lane = lane /\ builds[i].results[t] = "failed"
        /\ builds[i].finished # Unfinished
    BY DEF Impact
  <2>2. builds[i].finished \in 0..time /\ time \in Nat
    BY <2>1 DEF FlakesIInv, FlakesTypeInv, BuildsInv
  <2>3. builds[i].finished \in Int /\ time - builds[i].finished \in Nat
    BY <2>2
  <2> QED  BY <2>1, <2>3 DEF age
<1> HIDE DEF impact
<1>3. PICK i \in impact.builds :
          a = <<i, parseSearchCIAge(age(i))>> /\ parseSearchCIAge(age(i)) <= ThreeDays
  BY <1>1 DEF recentIntervals
<1>4. PICK j \in impact.builds :
          b = <<j, parseSearchCIAge(age(j))>> /\ parseSearchCIAge(age(j)) <= ThreeDays
  BY <1>1 DEF recentIntervals
<1>5. \A g \in Nat : parseSearchCIAge(g) \in Nat /\ (parseSearchCIAge(g) <= 6 => g < 6)
  BY DEF parseSearchCIAge
<1>6. \A g, h \in Nat : parseSearchCIAge(g) - parseSearchCIAge(h) >= 2 => g > h
  BY DEF parseSearchCIAge
<1>7. age(i) < ThreeDays /\ age(j) < ThreeDays
  BY <1>2, <1>3, <1>4, <1>5 DEF ThreeDays
<1>8. age(i) > age(j)
  BY <1>1, <1>2, <1>3, <1>4, <1>6
<1>9. builds[i].finished < builds[j].finished
  <2>1. /\ builds[i].finished \in Int /\ builds[j].finished \in Int /\ time \in Int
        /\ age(i) = time - builds[i].finished /\ age(j) = time - builds[j].finished
    BY <1>2 DEF age, FlakesIInv, FlakesTypeInv
  <2> QED  BY <1>8, <2>1
<1> QED  BY <1>2, <1>7, <1>9

\* What is taken for a candidate of the lanes and days is so of more of them, too.
LEMMA MoreDaysAndLanes ==
    ASSUME FlakesIInv, FlakesAssumption, QuarantineAssumption,
           NEW t \in Tests, quarantinable(t), AllFetched(DaysInThePast)
    PROVE  \E lane \in RequiredLanes :
              /\ \E d \in daysBefore(DaysInThePast) : FailedOn(t, d, lane)
              /\ HasMinRecentFailures(Impact(t, lane, FourteenDays))
              /\ Impact(t, lane, FourteenDays)
                    \in candidateImpacts(t, FourteenDays, fetched(DaysInThePast, TRUE), PullLanes)
<1> DEFINE n == DaysInThePast
<1>1. /\ n \in Nat /\ RequiredLanes \subseteq PullLanes
  BY DEF QuarantineAssumption
<1>2. PICK impact \in candidateImpacts(t, FourteenDays, daysBefore(n), RequiredLanes) :
          impact.lane \in RequiredLanes /\ HasMinRecentFailures(impact)
  BY DEF quarantinable
<1>3. /\ impact \in ScrapeImpacts(t, FourteenDays) /\ hasNotOnlyClusteredFailures(impact)
      /\ AllFailures(t, daysBefore(n), {impact.lane}) > 0
  BY <1>2 DEF candidateImpacts, FailuresPerLane
<1>4. PICK lane \in PullLanes : impact = Impact(t, lane, FourteenDays)
  BY <1>3 DEF ScrapeImpacts
<1>5. impact.lane = lane
  BY <1>4 DEF Impact
<1>6. /\ IsFiniteSet(daysBefore(n)) /\ IsFiniteSet(fetched(n, TRUE)) /\ daysBefore(n) \subseteq fetched(n, TRUE)
      /\ \A d \in fetched(n, TRUE) : IsFiniteSet(reports[dayReport(d)].results)
  BY <1>1, FetchedReports DEF OfMerged
<1>7. IsFiniteSet({lane})
  BY FS_Singleton
<1>8. PICK d \in daysBefore(n) : FailedOn(t, d, lane)
  <2>1. AllFailures(t, daysBefore(n), {lane}) > 0
    BY <1>3, <1>5
  <2>2. \A e \in daysBefore(n) : IsFiniteSet(reports[dayReport(e)].results)
    BY <1>6
  <2>3. \E e \in daysBefore(n), l \in {lane} : FailedOn(t, e, l)
    BY <1>6, <1>7, <2>1, <2>2, AllSums
  <2> QED  BY <2>3
<1>9. AllFailures(t, fetched(n, TRUE), {lane}) > 0
  BY <1>6, <1>7, <1>8, AllSums
<1>10. impact \in candidateImpacts(t, FourteenDays, fetched(n, TRUE), PullLanes)
  BY <1>3, <1>5, <1>9 DEF candidateImpacts, FailuresPerLane
<1> QED  BY <1>2, <1>4, <1>5, <1>8, <1>10

LEMMA ProposedAreJustified ==
    ASSUME FlakesIInv, FlakesAssumption, QuarantineAssumption, AllFetched(DaysInThePast),
           NEW t \in Tests, quarantinable(t)
    PROVE  Justified(t)
<1> DEFINE n == DaysInThePast
<1>1. n \in Nat /\ RequiredLanes \subseteq PullLanes
  BY DEF QuarantineAssumption
<1>2. PICK lane \in RequiredLanes :
          /\ \E d \in daysBefore(n) : FailedOn(t, d, lane)
          /\ HasMinRecentFailures(Impact(t, lane, FourteenDays))
          /\ Impact(t, lane, FourteenDays) \in candidateImpacts(t, FourteenDays, fetched(n, TRUE), PullLanes)
  BY MoreDaysAndLanes
<1>3. PICK d \in daysBefore(n) : FailedOn(t, d, lane)
  BY <1>2
<1>4. /\ IsFiniteSet(fetched(n, TRUE)) /\ d \in fetched(n, TRUE)
      /\ \A e \in fetched(n, TRUE) : OfMerged(reports[dayReport(e)])
  BY <1>1, <1>3, FetchedReports
<1>5. t \notin labelled
  BY DEF quarantinable, GetSpecReportByTestName
<1>6. \E i \in DOMAIN builds : /\ builds[i].lane \in RequiredLanes /\ OfMergedCode(i)
                               /\ builds[i].results[t] = "failed"
  <2>1. \E i \in DOMAIN builds : builds[i].lane = lane /\ OfMergedCode(i) /\ builds[i].results[t] = "failed"
    <3>1. OfMerged(reports[dayReport(d)])
      BY <1>4
    <3> HIDE DEF n
    <3> QED  BY <1>3, <3>1, SumsOfMerged
  <2> QED  BY <1>2, <2>1
<1>7. \E i, j \in DOMAIN builds :
          /\ builds[i].lane \in RequiredLanes /\ builds[i].lane = builds[j].lane
          /\ \A k \in {i, j} : builds[k].results[t] = "failed" /\ age(k) < ThreeDays
          /\ builds[i].finished < builds[j].finished
  BY <1>2, RecentFailures
<1>8. t \in topXTests(fetched(n, TRUE), PullLanes)
  <2>1. IsFiniteSet(PullLanes \cup PeriodicLanes) /\ PullLanes \in SUBSET (PullLanes \cup PeriodicLanes)
    BY DEF FlakesAssumption
  <2>2. IsFiniteSet(PullLanes)
    BY <2>1, FS_Subset
  <2>3. \A e \in fetched(n, TRUE) : IsFiniteSet(reports[dayReport(e)].results)
    BY <1>4 DEF OfMerged
  <2>4. AllFailures(t, fetched(n, TRUE), PullLanes) > 0
    BY <1>1, <1>3, <1>4, <2>2, <2>3, AllSums
  <2> QED  BY <2>4 DEF topXTests
<1>9. <<t, FourteenDays, TRUE>> \in mostFlakyTests
  BY <1>2, <1>8 DEF mostFlakyTests
<1> QED  BY <1>5, <1>6, <1>7, <1>9 DEF Justified

\* What the robot proposes for quarantine is not there yet, has failed on merged code and,
\* on a required lane, at two times of the last three days; and the report of the most
\* flaky tests, which looks at more days and lanes, would show it as failing recently.
THEOREM QuarantineJustified ==
    ASSUME FlakesAssumption, QuarantineAssumption
    PROVE  QuarantineSpec => QuarantineIsJustified
<1>1. QuarantineIInv /\ [QuarantineNext]_<<flakeVars, proposal>> =>
          [\A t \in proposal' \ proposal : Justified(t)]_<<flakeVars, proposal>>
  <2> SUFFICES ASSUME QuarantineIInv, QuarantineNext, NEW t \in proposal' \ proposal
               PROVE  Justified(t)
    OBVIOUS
  <2>1. AutoQuarantine
    BY DEF QuarantineNext, MergeProposal, QuarantineTest, Dequarantine
  <2>2. /\ AllFetched(DaysInThePast)
        /\ t \in topXTests(daysBefore(DaysInThePast), RequiredLanes) /\ quarantinable(t)
    BY <2>1 DEF AutoQuarantine, determineTestsForQuarantine
  <2>3. t \in Tests
    BY <2>2 DEF topXTests
  <2> QED  BY <2>2, <2>3, ProposedAreJustified DEF QuarantineIInv
<1> QED  BY <1>1, QuarantineInvariant, PTL DEF QuarantineSpec, QuarantineIsJustified

-----------------------------------------------------------------------------
(***************************************************************************)
(* Test reports: dequarantining.                                           *)
(***************************************************************************)

CaseStates == UNION {[cases -> {"PASSED", "FAILED", "SKIPPED"}] : cases \in SUBSET TestCases}

\* The builds of all jobs are finitely many, and the file is a list of records.
TestReportsIInv ==
    /\ runs \in [TestJobs -> Seq(CaseStates)] /\ IsFiniteSet(allRuns)
    /\ \E m \in Nat : DOMAIN quarantined = 1..m

LEMMA TestReportsInitIInv == ASSUME TestReportsAssumption, TestReportsInit PROVE TestReportsIInv
<1>1. runs \in [TestJobs -> Seq(CaseStates)]
  BY DEF TestReportsInit
<1>2. allRuns = {}
  BY DEF TestReportsInit, allRuns
<1>3. \E m \in Nat : DOMAIN quarantined = 1..m
  <2>1. Cardinality(RecordIds) \in Nat
    BY FS_CardinalityType DEF TestReportsAssumption
  <2>2. PICK k \in 1..Cardinality(RecordIds) : quarantined \in [1..k -> RecordIds]
    BY DEF TestReportsInit
  <2> QED  BY <2>1, <2>2
<1> QED  BY <1>1, <1>2, <1>3, FS_EmptySet DEF TestReportsIInv

LEMMA RunsStay ==
    ASSUME TestReportsIInv, UNCHANGED runs, \E m \in Nat : DOMAIN quarantined' = 1..m
    PROVE  TestReportsIInv'
BY DEF TestReportsIInv, allRuns

LEMMA BuildIInv == ASSUME TestReportsIInv, NEW j \in TestJobs, Build(j) PROVE TestReportsIInv'
<1>1. PICK cases \in SUBSET TestCases :
          \E states \in [cases -> {"PASSED", "FAILED", "SKIPPED"}] :
              runs' = [runs EXCEPT ![j] = Append(@, states)]
  BY DEF Build
<1>2. PICK states \in CaseStates : runs' = [runs EXCEPT ![j] = Append(@, states)]
  BY <1>1 DEF CaseStates
<1> DEFINE new == <<j, Len(runs[j]) + 1>>
<1>3. /\ runs' \in [TestJobs -> Seq(CaseStates)]
      /\ \A i \in TestJobs : \A n \in DOMAIN runs'[i] : n \in DOMAIN runs[i] \/ <<i, n>> = new
  <2>1. runs[j] \in Seq(CaseStates)
    BY DEF TestReportsIInv
  <2>2. Append(runs[j], states) \in Seq(CaseStates) /\ DOMAIN Append(runs[j], states) = 1 .. Len(runs[j]) + 1
    BY <2>1
  <2> QED  BY <1>2, <2>1, <2>2 DEF TestReportsIInv
<1>4. allRuns' \in SUBSET (allRuns \cup {new})
  <2> HIDE DEF new
  <2> QED  BY <1>3 DEF allRuns
<1>5. IsFiniteSet(allRuns')
  <2>1. IsFiniteSet({new})
    BY FS_Singleton
  <2>2. IsFiniteSet(allRuns \cup {new})
    BY <2>1, FS_Union DEF TestReportsIInv
  <2> QED  BY <1>4, <2>2, FS_Subset
<1>6. quarantined' = quarantined
  BY DEF Build, Outdated
<1> QED  BY <1>3, <1>5, <1>6 DEF TestReportsIInv

LEMMA LeaveIInv == ASSUME TestReportsIInv, NEW j \in TestJobs, Leave(j) PROVE TestReportsIInv'
<1>1. runs[j] # <<>> /\ runs' = [runs EXCEPT ![j] = Tail(@)] /\ quarantined' = quarantined
  BY DEF Leave, Outdated
<1>2. /\ runs' \in [TestJobs -> Seq(CaseStates)]
      /\ \A i \in TestJobs : DOMAIN runs'[i] \subseteq DOMAIN runs[i]
  <2>1. runs[j] \in Seq(CaseStates)
    BY DEF TestReportsIInv
  <2>2. Tail(runs[j]) \in Seq(CaseStates) /\ DOMAIN Tail(runs[j]) \subseteq DOMAIN runs[j]
    BY <1>1, <2>1
  <2> QED  BY <1>1, <2>2 DEF TestReportsIInv
<1>3. allRuns' \in SUBSET allRuns
  BY <1>2 DEF allRuns
<1>4. IsFiniteSet(allRuns')
  BY <1>3, FS_Subset DEF TestReportsIInv
<1> QED  BY <1>1, <1>2, <1>4 DEF TestReportsIInv

LEMMA AdoptIInv == ASSUME TestReportsIInv, Adopt PROVE TestReportsIInv'
<1>1. PICK m \in Nat : DOMAIN quarantined = 1..m
  BY DEF TestReportsIInv
<1> DEFINE ks == {k \in DOMAIN quarantined : quarantined[k] \in remaining}
<1>2. Cardinality(ks) \in Nat
  <2>1. IsFiniteSet(1..m)
    BY FS_Interval
  <2>2. ks \in SUBSET (1..m)
    BY <1>1
  <2> HIDE DEF ks
  <2> QED  BY <2>1, <2>2, FS_Subset, FS_CardinalityType
<1>3. DOMAIN Kept(remaining) = 1..Cardinality(ks)
  BY DEF Kept
<1> HIDE DEF ks
<1>4. UNCHANGED runs /\ quarantined' \in {quarantined, Kept(remaining)}
  BY DEF Adopt
<1> QED  BY <1>1, <1>2, <1>3, <1>4, RunsStay

LEMMA TestReportsNextIInv ==
    ASSUME TestReportsIInv, [TestReportsNext]_testReportVars
    PROVE  TestReportsIInv'
<1>1. ASSUME NEW j \in TestJobs, Build(j) \/ Leave(j)
      PROVE  TestReportsIInv'
  BY <1>1, BuildIInv, LeaveIInv
<1>2. CASE Execute \/ ExecutionReport \/ Filter \/ UNCHANGED testReportVars
  <2>1. runs' = runs /\ quarantined' = quarantined
    BY <1>2 DEF Execute, ExecutionReport, Filter, testReportVars
  <2> QED  BY <2>1, RunsStay DEF TestReportsIInv
<1>3. CASE Adopt
  BY <1>3, AdoptIInv
<1> QED  BY <1>1, <1>2, <1>3 DEF TestReportsNext

LEMMA TestReportsInvariant ==
    ASSUME TestReportsAssumption
    PROVE  TestReportsSpec => []TestReportsIInv
<1>1. TestReportsInit => TestReportsIInv
  BY TestReportsInitIInv
<1>2. TestReportsIInv /\ [TestReportsNext]_testReportVars => TestReportsIInv'
  BY TestReportsNextIInv
<1> QED  BY <1>1, <1>2, PTL DEF TestReportsSpec

\* Each covered test is one of the tests of the first record that matches it.
LEMMA FirstRecord ==
    ASSUME TestReportsIInv, NEW t \in TestCases, Covered(t, records), TestResults(t) # {}
    PROVE  \E k \in DOMAIN quarantined : t \in TestsOf(k) /\ NameMatches(quarantined[k], t)
<1>1. PICK m \in Nat : DOMAIN quarantined = 1..m
  BY DEF TestReportsIInv
<1> DEFINE ks == {k \in DOMAIN quarantined : NameMatches(quarantined[k], t)}
<1>2. ks \subseteq Nat /\ ks # {}
  BY <1>1 DEF Covered, records
<1>3. PICK k \in ks : \A i \in ks : ~(i < k)
  <2> HIDE DEF ks
  <2>1. PICK k \in ks : \A i \in ks : <<i, k>> \notin OpToRel(<, Nat)
    BY <1>2, WFMin, NatLessThanWellFounded
  <2>2. \A i \in ks : <<i, k>> \in OpToRel(<, Nat) <=> i < k
    BY <1>2 DEF OpToRel
  <2> QED  BY <2>1, <2>2
<1>4. \A i \in 1 .. k - 1 : ~NameMatches(quarantined[i], t)
  <2>1. \A i \in 1 .. k - 1 : i \in DOMAIN quarantined /\ i < k
    BY <1>1
  <2> QED  BY <1>3, <2>1
<1>5. t \in TestsOf(k)
  BY <1>4 DEF TestsOf
<1> QED  BY <1>5

\* A test of the quarantine that has failed on any lane, or not passed often enough, is
\* covered by what is left: no record goes because of what its other tests did.
THEOREM NothingUnstableReleased ==
    ASSUME TestReportsAssumption
    PROVE  TestReportsSpec => NoUnstableReleased
<1>1. TestReportsIInv /\ [TestReportsNext]_testReportVars =>
          [Execute => \A t \in TestCases :
              Covered(t, records) /\ TestResults(t) # {} /\ Unstable(t) => Covered(t, remaining')]_testReportVars
  <2> SUFFICES ASSUME TestReportsIInv, Execute, NEW t \in TestCases,
                      Covered(t, records), TestResults(t) # {}, Unstable(t)
               PROVE  Covered(t, remaining')
    OBVIOUS
  <2>1. PICK k \in DOMAIN quarantined : t \in TestsOf(k) /\ NameMatches(quarantined[k], t)
    BY FirstRecord
  <2>2. Cardinality(passes(t)) \in Nat
    <3>1. passes(t) \in SUBSET allRuns
      BY DEF passes, TestResults
    <3> QED  BY <3>1, FS_Subset, FS_CardinalityType DEF TestReportsIInv
  <2>3. ~Stable(k)
    BY <2>1, <2>2 DEF Stable, Unstable, TestReportsAssumption
  <2>4. quarantined[k] \in remaining'
    BY <2>3 DEF Execute
  <2> QED  BY <2>1, <2>4 DEF Covered
<1> QED  BY <1>1, TestReportsInvariant, PTL DEF TestReportsSpec, NoUnstableReleased

-----------------------------------------------------------------------------
(***************************************************************************)
(* The types of both programs.                                             *)
(***************************************************************************)

\* Of the files, and of what is bounded.
FilesInv ==
    /\ time <= MaxTime /\ Len(builds) <= MaxFlakeBuilds
    /\ IsFiniteSet(DOMAIN reports) /\ DOMAIN reports \subseteq Int \X {1, WeekDays}
    /\ \A n \in DOMAIN reports :
          n[1] <= Day(time) /\ \A r \in reports[n].results : r[1] \in 0..Len(reports[n].changes)
    /\ index \subseteq DOMAIN reports /\ Cardinality(index) <= MaxLinks
    /\ disturbances \in 0..MaxDisturbances

\* The index page links to so many reports at most: none but those that follow its first.
LEMMA LinksAreBounded ==
    ASSUME FlakesAssumption, NEW names, names \subseteq Int \X Int, IsFiniteSet(names)
    PROVE  /\ FilterReportItemsForIndexPage(names) \subseteq names
           /\ Cardinality(FilterReportItemsForIndexPage(names)) <= MaxLinks
<1> DEFINE later(n) == {o \in names : o[1] > n[1] \/ (o[1] = n[1] /\ o[2] > n[2])}
           top == FilterReportItemsForIndexPage(names)
           earlier(n) == {o \in top : o[1] < n[1] \/ (o[1] = n[1] /\ o[2] < n[2])}
           all == {earlier(n) : n \in top}
<1>1. top = {n \in names : Cardinality(later(n)) < MaxLinks} /\ MaxLinks \in Nat
  BY DEF FilterReportItemsForIndexPage, FlakesAssumption
<1> HIDE DEF top
<1>2. top \subseteq names /\ IsFiniteSet(top)
  BY <1>1, FS_Subset
<1>3. CASE top = {}
  <2>1. Cardinality(top) = 0
    BY <1>3, FS_EmptySet
  <2> QED  BY <1>1, <1>2, <2>1 DEF top
<1>4. CASE top # {}
  <2>1. \A n \in top : earlier(n) \in SUBSET top /\ IsFiniteSet(earlier(n))
    BY <1>2, FS_Subset
  <2>2. all \subseteq FiniteSubsetsOf(top) /\ all # {}
    BY <1>4, <2>1 DEF FiniteSubsetsOf
  <2> HIDE DEF all
  <2>3. PICK x \in all : \A y \in all : <<y, x>> \notin StrictSubsetOrdering(top)
    BY <1>2, <2>2, FS_StrictSubsetOrderingWellFounded, WFMin
  <2> USE DEF all
  <2>4. PICK m \in top : x = earlier(m)
    BY <2>3
  <2>5. \A n \in top : n[1] \in Int /\ n[2] \in Int /\ n = <<n[1], n[2]>>
    BY <1>2
  <2>6. ASSUME NEW n \in earlier(m)
        PROVE  FALSE
    <3>1. n \in top
      OBVIOUS
    <3>2. earlier(n) \subseteq earlier(m)
      BY <2>5, <2>6, <3>1
    <3>3. n \in earlier(m) /\ n \notin earlier(n)
      BY <2>5, <2>6, <3>1
    <3>4. <<earlier(n), earlier(m)>> \in StrictSubsetOrdering(top)
      BY <2>1, <3>1, <3>2, <3>3 DEF StrictSubsetOrdering
    <3> QED  BY <2>3, <2>4, <3>1, <3>4
  <2>7. ASSUME NEW n \in top, n # m
        PROVE  n \in later(m)
    <3>1. n \notin earlier(m)
      BY <2>6
    <3>2. n[1] # m[1] \/ n[2] # m[2]
      BY <2>5, <2>7
    <3> QED  BY <1>2, <2>5, <2>7, <3>1, <3>2
  <2>8. IsFiniteSet(later(m)) /\ Cardinality(later(m)) \in Nat /\ Cardinality(later(m)) < MaxLinks
    <3>1. IsFiniteSet(later(m))
      BY FS_Subset
    <3> QED  BY <1>1, <3>1, FS_CardinalityType
  <2>9. m \notin later(m)
    BY <2>5
  <2>10. IsFiniteSet(later(m) \cup {m}) /\ Cardinality(later(m) \cup {m}) = Cardinality(later(m)) + 1
    <3> HIDE DEF later
    <3> QED  BY <2>8, <2>9, FS_AddElement, Zenon
  <2>11. top \in SUBSET (later(m) \cup {m})
    <3> HIDE DEF later
    <3> QED  BY <2>7
  <2>12. Cardinality(top) <= Cardinality(later(m) \cup {m})
    <3> HIDE DEF later
    <3> QED  BY <2>10, <2>11, FS_Subset
  <2>13. Cardinality(top) \in Nat
    BY <1>2, FS_CardinalityType
  <2> HIDE DEF later
  <2>14. Cardinality(top) <= MaxLinks
    BY <1>1, <2>8, <2>10, <2>12, <2>13
  <2> QED  BY <1>2, <2>14 DEF top
<1> QED  BY <1>3, <1>4

\* What leaves the files as they are.
LEMMA FilesStay ==
    ASSUME FilesInv, FlakesTypeInv, FlakesTypeInv', time' >= time, time' <= MaxTime,
           Len(builds') <= MaxFlakeBuilds, disturbances' \in 0..MaxDisturbances,
           UNCHANGED <<reports, index>>
    PROVE  FilesInv'
<1>1. reports' = reports /\ index' = index
  OBVIOUS
<1>2. Day(time)' >= Day(time) /\ Day(time) \in Int /\ Day(time)' \in Int
  <2>1. PICK t \in Nat : t = time
    BY DEF FlakesTypeInv
  <2>2. PICK u \in Nat : u = time'
    BY DEF FlakesTypeInv
  <2>3. u >= t => u \div 2 >= t \div 2
    BY Z3
  <2>4. Day(time) = t \div 2 /\ Day(time)' = u \div 2
    BY <2>1, <2>2 DEF Day
  <2>5. t \div 2 \in Int /\ u \div 2 \in Int
    OBVIOUS
  <2> QED  BY <2>1, <2>2, <2>3, <2>4, <2>5
<1>3. \A n \in DOMAIN reports : n[1] \in Int
  BY DEF FilesInv
<1>4. \A n \in DOMAIN reports : n[1] <= Day(time)'
  BY <1>2, <1>3 DEF FilesInv
<1> QED  BY <1>1, <1>4 DEF FilesInv

LEMMA WriteReportFiles ==
    ASSUME FlakesAssumption, FlakesIInv, FilesInv, WriteReport
    PROVE  FilesInv'
<1>1. PICK unread \in {{}} \cup {{s} : s \in Sources} :
          /\ IF unread = {} THEN UNCHANGED disturbances ELSE Disturbed /\ JobResults(unread) # JobResults({})
          /\ LET name == fileName(making.kind, making.at)
                 report == [kind |-> making.kind, at |-> making.at, changes |-> making.changes,
                            results |-> JobResults(unread), complete |-> unread = {}]
             IN  reports' = [n \in DOMAIN reports \cup {name} |-> IF n = name THEN report ELSE reports[n]]
  BY DEF WriteReport
<1> DEFINE name == fileName(making.kind, making.at)
           report == [kind |-> making.kind, at |-> making.at, changes |-> making.changes,
                      results |-> JobResults(unread), complete |-> unread = {}]
<1>2. /\ time' = time /\ builds' = builds /\ index' = index
      /\ reports' = [n \in DOMAIN reports \cup {name} |-> IF n = name THEN report ELSE reports[n]]
  BY <1>1 DEF WriteReport
<1>3. /\ making.kind \in {"rolling", "daily", "weekly"} /\ making.at = time /\ time \in Nat
      /\ making.changes \in Seq(Pulls)
  BY DEF WriteReport, FlakesIInv, QueryInv, Queried, FlakesTypeInv
<1>4. name \in Int \X {1, WeekDays} /\ name[1] <= Day(time)
  <2>1. lastTime(making.kind, making.at) \in Int /\ lastTime(making.kind, making.at) <= time
    BY <1>3 DEF lastTime, startOfDay, Day
  <2>2. Day(lastTime(making.kind, making.at)) \in Int /\ Day(lastTime(making.kind, making.at)) <= Day(time)
    BY <1>3, <2>1 DEF Day
  <2> QED  BY <2>2 DEF fileName
<1>5. \A r \in report.results : r[1] \in 0..Len(report.changes)
  <2>1. report.results = JobResults(unread) /\ report.changes = making.changes
    OBVIOUS
  <2>2. DOMAIN making.changes = 1..Len(making.changes) /\ Len(making.changes) \in Nat
    BY <1>3
  <2>3. ASSUME NEW r \in JobResults(unread)
        PROVE  r[1] = 0 \/ r[1] \in DOMAIN making.changes
    <3>1. (\E k \in DOMAIN making.changes : \E i \in DOMAIN builds : r = <<k, i>>)
          \/ \E i \in DOMAIN builds : r = <<0, i>>
      <4> HIDE DEF FindUnitTestFiles
      <4>1. \A p : FindUnitTestFiles(p) \subseteq DOMAIN builds
        BY DEF FindUnitTestFiles
      <4>2. \A S : FindUnitTestFilesForBatchJobs(S) \subseteq DOMAIN builds
        BY DEF FindUnitTestFilesForBatchJobs
      <4>3. \A l : FindUnitTestFilesForPeriodicJob(l) \subseteq DOMAIN builds
        BY DEF FindUnitTestFilesForPeriodicJob
      <4> QED  BY <4>1, <4>2, <4>3 DEF JobResults
    <3> QED  BY <3>1
  <2> QED  BY <2>1, <2>2, <2>3
<1> HIDE DEF name, report
<1>6. /\ DOMAIN reports' = DOMAIN reports \cup {name} /\ reports'[name] = report
      /\ \A n \in DOMAIN reports : n # name => reports'[n] = reports[n]
  BY <1>2
<1>7. IsFiniteSet(DOMAIN reports') /\ DOMAIN reports' \subseteq Int \X {1, WeekDays}
  BY <1>4, <1>6, FS_AddElement DEF FilesInv
<1>8. disturbances' \in 0..MaxDisturbances
  BY <1>1 DEF FilesInv, Disturbed, FlakesAssumption
<1>9. ASSUME NEW n \in DOMAIN reports'
      PROVE  n[1] <= Day(time)' /\ \A r \in reports'[n].results : r[1] \in 0..Len(reports'[n].changes)
  <2>1. Day(time)' = Day(time)
    BY <1>2 DEF Day
  <2>2. CASE n = name
    BY <1>4, <1>5, <1>6, <2>1, <2>2
  <2>3. CASE n # name
    BY <1>6, <2>1, <2>3 DEF FilesInv
  <2> QED  BY <2>2, <2>3
<1> QED  BY <1>2, <1>6, <1>7, <1>8, <1>9 DEF FilesInv

LEMMA CreateReportIndexFiles ==
    ASSUME FlakesAssumption, FlakesIInv, FilesInv, CreateReportIndex
    PROVE  FilesInv'
<1>1. /\ index' = FilterReportItemsForIndexPage(DOMAIN reports)
      /\ reports' = reports /\ time' = time /\ builds' = builds /\ disturbances' = disturbances
  BY DEF CreateReportIndex
<1>2. DOMAIN reports \subseteq Int \X Int /\ IsFiniteSet(DOMAIN reports)
  BY DEF FilesInv, FlakesAssumption
<1>3. index' \subseteq DOMAIN reports /\ Cardinality(index') <= MaxLinks
  BY <1>1, <1>2, LinksAreBounded
<1> QED  BY <1>1, <1>3 DEF FilesInv, Day

\* The steps of both modules keep it, after those of the first invariant.
QuarantineTypeInv == FilesInv /\ Cardinality(proposal) <= MaxTestsToQuarantine

LEMMA QuarantineStepTypes ==
    ASSUME FlakesAssumption, QuarantineAssumption, QuarantineIInv, QuarantineIInv', QuarantineTypeInv,
           [QuarantineNext]_<<flakeVars, proposal>>
    PROVE  QuarantineTypeInv'
<1> USE DEF QuarantineTypeInv
<1>1. /\ FlakesIInv /\ FlakesTypeInv /\ FlakesTypeInv' /\ proposal \subseteq Tests
      /\ time \in Nat /\ {MaxTime, MaxFlakeBuilds, MaxDisturbances, MaxTestsToQuarantine} \subseteq Nat
  BY DEF QuarantineIInv, FlakesIInv, FlakesTypeInv, FlakesAssumption, QuarantineAssumption
<1>2. Disturbed => disturbances' \in 0..MaxDisturbances
  BY <1>1 DEF Disturbed, FilesInv
<1>3. CASE UNCHANGED <<reports, index>> /\ time' = time /\ Len(builds') <= MaxFlakeBuilds /\ proposal' = proposal
           /\ (disturbances' = disturbances \/ Disturbed)
  BY <1>1, <1>2, <1>3, FilesStay DEF FilesInv
<1>4. CASE FlakesNext /\ UNCHANGED proposal
  <2>1. CASE Wait
    <3>1. time' = time + 1 /\ time < MaxTime /\ UNCHANGED <<reports, index, builds, disturbances>>
      BY <2>1 DEF Wait, bucket
    <3> QED  BY <1>1, <1>4, <3>1, FilesStay DEF FilesInv
  <2>2. ASSUME NEW p \in Pulls, Push(p) \/ Merge(p) \/ CommentLate(p)
        PROVE  QuarantineTypeInv'
    BY <1>3, <1>4, <2>2 DEF Push, Merge, CommentLate, bucket, FilesInv
  <2>3. ASSUME NEW lane, NEW pulls, Start(lane, pulls)
        PROVE  QuarantineTypeInv'
    <3>1. Len(builds) \in Nat /\ Len(builds') = Len(builds) + 1 /\ Len(builds) < MaxFlakeBuilds
      <4>1. builds \in Seq(FlakeBuilds)
        BY <1>1 DEF FlakesTypeInv
      <4> DEFINE b == [lane |-> lane, pulls |-> pulls, finished |-> Unfinished,
                       labelled |-> labelled, junit |-> FALSE, results |-> [t \in Tests |-> "skipped"]]
      <4>2. builds' = Append(builds, b) /\ Len(builds) < MaxFlakeBuilds
        BY <2>3 DEF Start
      <4> HIDE DEF b
      <4> QED  BY <4>1, <4>2
    <3>2. Len(builds') <= MaxFlakeBuilds
      BY <1>1, <3>1
    <3> QED  BY <1>3, <1>4, <2>3, <3>2 DEF Start
  <2>4. ASSUME NEW i \in DOMAIN builds, Finish(i)
        PROVE  QuarantineTypeInv'
    <3>1. Len(builds') = Len(builds)
      <4>1. builds \in Seq(FlakeBuilds) /\ builds' \in Seq(FlakeBuilds)
        BY <1>1 DEF FlakesTypeInv
      <4>2. DOMAIN builds' = DOMAIN builds
        BY <2>4 DEF Finish
      <4>3. 1..Len(builds) = 1..Len(builds') /\ Len(builds) \in Nat /\ Len(builds') \in Nat
        BY <4>1, <4>2
      <4> QED  BY <4>3
    <3> QED  BY <1>3, <1>4, <2>4, <3>1 DEF Finish, FilesInv
  <2>5. CASE (\E kind \in Kinds : StartReport(kind)) \/ QueryPage \/ QueryFails
    BY <1>3, <1>4, <2>5 DEF StartReport, QueryPage, QueryFails, FilesInv
  <2>6. CASE WriteReport \/ CreateReportIndex
    BY <1>1, <1>4, <2>6, WriteReportFiles, CreateReportIndexFiles
  <2> QED
    BY <1>4, <2>1, <2>2, <2>3, <2>4, <2>5, <2>6 DEF FlakesNext, StartPull, StartBatch, StartPeriodic
<1>5. CASE AutoQuarantine
  <2>1. UNCHANGED flakeVars /\ proposal' \in determineTestsForQuarantine
    BY <1>5 DEF AutoQuarantine
  <2>2. FilesInv'
    BY <1>1, <2>1, FilesStay DEF flakeVars, FilesInv
  <2>3. Cardinality(proposal') <= MaxTestsToQuarantine
    <3> DEFINE candidates ==
            {t \in topXTests(daysBefore(DaysInThePast), RequiredLanes) : quarantinable(t)}
    <3>1. IsFiniteSet(Tests) /\ candidates \in SUBSET Tests
      BY DEF FlakesAssumption, topXTests
    <3>2. Cardinality(proposal') = IF Cardinality(candidates) < MaxTestsToQuarantine
                                   THEN Cardinality(candidates) ELSE MaxTestsToQuarantine
      BY <2>1 DEF determineTestsForQuarantine
    <3> HIDE DEF candidates
    <3>3. Cardinality(candidates) \in Nat
      BY <3>1, FS_Subset, FS_CardinalityType
    <3> QED  BY <1>1, <3>2, <3>3
  <2> QED  BY <2>2, <2>3
<1>6. CASE MergeProposal
  <2>1. UNCHANGED <<label, disturbances>> /\ proposal' = {}
    BY <1>6 DEF MergeProposal
  <2>2. FilesInv'
    BY <1>1, <2>1, FilesStay DEF label, FilesInv
  <2> QED  BY <1>1, <2>1, <2>2, FS_EmptySet
<1>7. ASSUME NEW t \in Tests, QuarantineTest(t) \/ Dequarantine(t)
      PROVE  QuarantineTypeInv'
  BY <1>3, <1>7 DEF QuarantineTest, Dequarantine, label, FilesInv
<1>8. CASE UNCHANGED <<flakeVars, proposal>>
  BY <1>3, <1>8 DEF flakeVars, FilesInv
<1> QED  BY <1>4, <1>5, <1>6, <1>7, <1>8 DEF QuarantineNext

LEMMA QuarantineInitTypes ==
    ASSUME FlakesAssumption, QuarantineAssumption, FlakesInit, QuarantineInit
    PROVE  QuarantineTypeInv
<1>1. {WeekDays, MaxTime, MaxFlakeBuilds, MaxLinks, MaxDisturbances, MaxTestsToQuarantine} \subseteq Nat
  BY DEF FlakesAssumption, QuarantineAssumption
<1>2. Len(builds) = 0 /\ DOMAIN reports = {} /\ index = {} /\ proposal = {} /\ disturbances = 0
  BY DEF FlakesInit, QuarantineInit
<1>3. time <= MaxTime
  BY DEF FlakesInit, FlakesAssumption
<1> QED  BY <1>1, <1>2, <1>3, FS_EmptySet DEF QuarantineTypeInv, FilesInv

\* The types follow.
LEMMA QuarantineTypesFollow ==
    ASSUME FlakesAssumption, QuarantineIInv, QuarantineTypeInv
    PROVE  FlakesTypeOK /\ QuarantineTypeOK
<1>1. FlakesIInv /\ proposal \subseteq Tests /\ FilesInv
  BY DEF QuarantineIInv, QuarantineTypeInv
<1>2. ASSUME NEW i \in DOMAIN builds
      PROVE  builds[i].finished \in {Unfinished} \cup 0..time /\ (Size(i) = 0 <=> builds[i].lane \in PeriodicLanes)
  BY <1>1, Sizes DEF FlakesIInv, BuildsInv, Size
<1>3. ASSUME NEW n \in DOMAIN reports
      PROVE  /\ n[1] <= Day(time) /\ n[2] \in {1, WeekDays}
             /\ \A r \in reports[n].results : r[1] \in 0..Len(reports[n].changes) /\ r[2] \in DOMAIN builds
  <2>1. reports[n].results \subseteq Nat \X DOMAIN builds
    BY <1>1 DEF FlakesIInv, ReportsInv, OfMerged
  <2> QED  BY <1>1, <2>1 DEF FilesInv
<1>4. time \in 0..MaxTime /\ labelled \subseteq Tests
  BY <1>1 DEF FlakesIInv, FlakesTypeInv, FilesInv, FlakesAssumption
<1> QED  BY <1>1, <1>2, <1>3, <1>4 DEF FilesInv, FlakesTypeOK, QuarantineTypeOK, QuarantineTypeInv

\* The n-th of a finite set of numbers.
LEMMA Places ==
    ASSUME NEW m \in Nat, NEW ks \in SUBSET (1..m), NEW n \in 1..Cardinality(ks)
    PROVE  \E k \in ks : Cardinality({l \in ks : l < k}) = n - 1
<1> DEFINE below(k) == {l \in ks : l < k}
           ofPlace(i) == {k \in ks : Cardinality(below(k)) = i - 1}
           none == {i \in 1..Cardinality(ks) : ofPlace(i) = {}}
<1>1. IsFiniteSet(ks) /\ Cardinality(ks) \in Nat /\ ks \subseteq Nat
  <2>1. IsFiniteSet(1..m)
    BY FS_Interval
  <2>2. IsFiniteSet(ks)
    BY <2>1, FS_Subset
  <2>3. ks \subseteq Nat
    OBVIOUS
  <2> QED  BY <2>2, <2>3, FS_CardinalityType
<1> SUFFICES ASSUME n \in none
             PROVE  FALSE
  OBVIOUS
<1>2. PICK i \in none : \A j \in none : ~(j < i)
  <2>1. none \subseteq Nat /\ none # {}
    OBVIOUS
  <2> HIDE DEF none
  <2>2. PICK i \in none : \A j \in none : <<j, i>> \notin OpToRel(<, Nat)
    BY <2>1, WFMin, NatLessThanWellFounded
  <2>3. \A j \in none : <<j, i>> \in OpToRel(<, Nat) <=> j < i
    BY <2>1 DEF OpToRel
  <2> QED  BY <2>2, <2>3
<1>3. PICK done \in SUBSET ks : /\ Cardinality(done) = i - 1
                                /\ \A k \in done : \A l \in ks : l < k => l \in done
  <2>1. CASE i = 1
    BY <2>1, FS_EmptySet
  <2>2. CASE i # 1
    <3>1. i - 1 \in 1..Cardinality(ks) /\ i - 1 \notin none
      BY <1>1, <1>2, <2>2
    <3>2. PICK k \in ks : Cardinality(below(k)) = i - 2
      <4>1. PICK k \in ks : Cardinality(below(k)) = (i - 1) - 1
        BY <3>1
      <4>2. (i - 1) - 1 = i - 2
        BY <3>1
      <4> QED  BY <4>1, <4>2
    <3>3. below(k) \in SUBSET ks /\ k \notin below(k)
      BY <1>1
    <3>4. Cardinality(below(k) \cup {k}) = i - 1
      <4>1. IsFiniteSet(below(k))
        BY <1>1, <3>3, FS_Subset
      <4> HIDE DEF below
      <4>2. Cardinality(below(k) \cup {k}) = Cardinality(below(k)) + 1
        BY <3>3, <4>1, FS_AddElement, Zenon
      <4> QED  BY <3>1, <3>2, <4>2
    <3>5. \A x \in below(k) \cup {k} : \A l \in ks : l < x => l \in below(k) \cup {k}
      BY <1>1
    <3> QED  BY <3>3, <3>4, <3>5
  <2> QED  BY <2>1, <2>2
<1>4. ks \ done # {}
  <2>1. i - 1 < Cardinality(ks)
    BY <1>1, <1>2
  <2>2. done # ks
    BY <1>1, <1>3, <2>1
  <2> QED  BY <2>2
<1>5. PICK k \in ks \ done : \A l \in ks \ done : ~(l < k)
  <2>1. ks \ done \subseteq Nat
    BY <1>1
  <2>2. PICK k \in ks \ done : \A l \in ks \ done : <<l, k>> \notin OpToRel(<, Nat)
    BY <1>4, <2>1, WFMin, NatLessThanWellFounded
  <2>3. \A l \in ks \ done : <<l, k>> \in OpToRel(<, Nat) <=> l < k
    BY <2>1 DEF OpToRel
  <2> QED  BY <2>2, <2>3
<1>6. below(k) = done
  <2>1. ASSUME NEW l \in ks
        PROVE  l < k <=> l \in done
    BY <1>1, <1>3, <1>5, <2>1
  <2> QED  BY <2>1
<1> QED  BY <1>2, <1>3, <1>5, <1>6

\* What is bounded, of the file, and of the last filter.
TestTypesInv ==
    /\ Cardinality(allRuns) <= MaxRuns
    /\ \A k \in DOMAIN quarantined : quarantined[k] \in RecordIds
    /\ \A x \in notRun : x[1] \in DOMAIN statuses \ FilteredTestNames

LEMMA TestTypesFollow == ASSUME TestTypesInv PROVE TestReportsTypeOK
<1>1. FilteredTestNames \subseteq SkippedTests
  BY Zenon DEF FilteredTestNames, SkippedTests
<1>2. records \subseteq RecordIds
  BY DEF records, TestTypesInv
<1> QED  BY <1>1, <1>2 DEF TestReportsTypeOK, TestTypesInv

LEMMA TestTypesInit == ASSUME TestReportsAssumption, TestReportsInit PROVE TestTypesInv
<1>1. Cardinality(allRuns) <= MaxRuns
  <2>1. allRuns = {} /\ MaxRuns \in Nat
    BY DEF TestReportsInit, allRuns, TestReportsAssumption
  <2> QED  BY <2>1, FS_EmptySet
<1>2. \A k \in DOMAIN quarantined : quarantined[k] \in RecordIds
  BY DEF TestReportsInit
<1> QED  BY <1>1, <1>2 DEF TestTypesInv, TestReportsInit

LEMMA TestTypesStep ==
    ASSUME TestReportsAssumption, TestReportsIInv, TestReportsIInv', TestTypesInv,
           [TestReportsNext]_testReportVars
    PROVE  TestTypesInv'
<1>1. ASSUME NEW j \in TestJobs, Build(j)
      PROVE  TestTypesInv'
  <2>1. PICK states : runs' = [runs EXCEPT ![j] = Append(@, states)]
    BY <1>1 DEF Build
  <2>2. quarantined' = quarantined /\ notRun' = {} /\ Cardinality(allRuns) < MaxRuns
    BY <1>1 DEF Build, Outdated
  <2> DEFINE new == <<j, Len(runs[j]) + 1>>
  <2>3. \A i \in TestJobs : \A n \in DOMAIN runs'[i] : n \in DOMAIN runs[i] \/ <<i, n>> = new
    BY <2>1 DEF TestReportsIInv
  <2>4. allRuns' \in SUBSET (allRuns \cup {new})
    <3> HIDE DEF new
    <3> QED  BY <2>3 DEF allRuns
  <2>5. new \notin allRuns
    BY DEF allRuns, TestReportsIInv
  <2> HIDE DEF new
  <2>6. IsFiniteSet(allRuns) /\ Cardinality(allRuns) \in Nat
    BY FS_CardinalityType DEF TestReportsIInv
  <2>7. IsFiniteSet(allRuns \cup {new}) /\ Cardinality(allRuns \cup {new}) = Cardinality(allRuns) + 1
    BY <2>5, <2>6, FS_AddElement, Zenon
  <2>8. Cardinality(allRuns') <= Cardinality(allRuns \cup {new}) /\ Cardinality(allRuns') \in Nat
    BY <2>4, <2>7, FS_Subset, FS_CardinalityType
  <2>9. Cardinality(allRuns') <= MaxRuns
    BY <2>2, <2>6, <2>7, <2>8 DEF TestReportsAssumption
  <2> QED  BY <2>2, <2>9 DEF TestTypesInv
<1>2. ASSUME NEW j \in TestJobs, Leave(j)
      PROVE  TestTypesInv'
  <2>1. runs[j] # <<>> /\ runs' = [runs EXCEPT ![j] = Tail(@)] /\ quarantined' = quarantined /\ notRun' = {}
    BY <1>2 DEF Leave, Outdated
  <2>2. runs[j] \in Seq(CaseStates)
    BY DEF TestReportsIInv
  <2>3. DOMAIN Tail(runs[j]) \subseteq DOMAIN runs[j]
    BY <2>1, <2>2
  <2>4. \A i \in TestJobs : DOMAIN runs'[i] \subseteq DOMAIN runs[i]
    BY <2>1, <2>3 DEF TestReportsIInv
  <2>5. allRuns' \in SUBSET allRuns
    BY <2>4 DEF allRuns
  <2>6. Cardinality(allRuns') <= Cardinality(allRuns) /\ {Cardinality(allRuns), Cardinality(allRuns')} \subseteq Nat
    BY <2>5, FS_Subset, FS_CardinalityType DEF TestReportsIInv
  <2> QED  BY <2>1, <2>6 DEF TestTypesInv, TestReportsAssumption
<1>3. CASE Execute \/ UNCHANGED testReportVars
  <2>1. UNCHANGED <<runs, quarantined, statuses, notRun>>
    BY <1>3 DEF Execute, testReportVars
  <2> QED  BY <2>1 DEF TestTypesInv, allRuns, FilteredTestNames
<1>4. CASE Adopt
  <2>1. UNCHANGED <<runs, statuses, notRun>> /\ quarantined' \in {quarantined, Kept(remaining)}
    BY <1>4 DEF Adopt
  <2>2. \A k \in DOMAIN quarantined' : quarantined'[k] \in RecordIds
    <3>1. CASE quarantined' = quarantined
      BY <3>1 DEF TestTypesInv
    <3>2. CASE quarantined' = Kept(remaining)
      <4> DEFINE ks == {k \in DOMAIN quarantined : quarantined[k] \in remaining}
                 place(n) == CHOOSE k \in ks : Cardinality({l \in ks : l < k}) = n - 1
      <4>1. PICK m \in Nat : DOMAIN quarantined = 1..m
        BY DEF TestReportsIInv
      <4>2. ks \in SUBSET (1..m)
        BY <4>1
      <4>3. quarantined' = [n \in 1..Cardinality(ks) |-> quarantined[place(n)]]
        BY <3>2, Zenon DEF Kept
      <4>4. ASSUME NEW n \in 1..Cardinality(ks)
            PROVE  place(n) \in ks
        <5> HIDE DEF ks
        <5> QED  BY <4>1, <4>2, <4>4, Places
      <4>5. \A k \in ks : quarantined[k] \in RecordIds
        BY DEF TestTypesInv
      <4> HIDE DEF ks, place
      <4> QED  BY <4>3, <4>4, <4>5
    <3> QED  BY <2>1, <3>1, <3>2
  <2> QED  BY <2>1, <2>2 DEF TestTypesInv, allRuns, FilteredTestNames
<1>5. CASE ExecutionReport
  <2>1. UNCHANGED <<runs, quarantined>> /\ notRun' = {}
    BY <1>5 DEF ExecutionReport
  <2> QED  BY <2>1 DEF TestTypesInv, allRuns
<1>6. CASE Filter
  <2> DEFINE of(x) == {j \in DOMAIN statuses[x[1]] : x[2] \in Group[j] /\ Version[j] = x[3]}
             cells == UNION {{t} \X groupsOf(t) \X {Version[j] : j \in TestJobs} : t \in DOMAIN statuses}
  <2>1. UNCHANGED <<runs, quarantined, statuses>>
    BY <1>6 DEF Filter
  <2>2. notRun' = {x \in cells : of(x) # {} /\ \A j \in of(x) : statuses[x[1]][j] = "Skipped"}
    BY <1>6, Zenon DEF Filter
  <2>3. ASSUME NEW x \in notRun'
        PROVE  x[1] \in DOMAIN statuses \ FilteredTestNames
    <3>1. x \in cells /\ of(x) # {} /\ \A j \in of(x) : statuses[x[1]][j] = "Skipped"
      BY <2>2, <2>3
    <3>2. x[1] \in DOMAIN statuses
      BY <3>1
    <3>3. PICK j \in DOMAIN statuses[x[1]] : statuses[x[1]][j] = "Skipped"
      BY <3>1
    <3>4. x[1] \notin FilteredTestNames
      BY <3>3 DEF FilteredTestNames
    <3> QED  BY <3>2, <3>4
  <2> HIDE DEF of, cells
  <2> QED  BY <2>1, <2>3 DEF TestTypesInv, allRuns, FilteredTestNames
<1> QED  BY <1>1, <1>2, <1>3, <1>4, <1>5, <1>6 DEF TestReportsNext

-----------------------------------------------------------------------------
(***************************************************************************)
(* Both programs, one of which runs.                                       *)
(***************************************************************************)

MCFlakesIInv == QuarantineIInv /\ QuarantineTypeInv /\ TestReportsIInv /\ TestTypesInv

LEMMA FlakesAlone ==
    ASSUME MCFlakesIInv, FlakesAssumption, QuarantineAssumption, [QuarantineNext]_<<flakeVars, proposal>>,
           UNCHANGED testReportVars
    PROVE  MCFlakesIInv'
<1>1. QuarantineIInv' /\ QuarantineTypeInv'
  BY QuarantineNextIInv, QuarantineStepTypes DEF MCFlakesIInv
<1>2. UNCHANGED <<runs, quarantined, remaining, statuses, notRun>>
  BY DEF testReportVars
<1>3. TestReportsIInv' /\ TestTypesInv'
  <2>1. allRuns' = allRuns
    BY <1>2 DEF allRuns
  <2>2. FilteredTestNames' = FilteredTestNames
    BY <1>2 DEF FilteredTestNames
  <2>3. TestReportsIInv'
    BY <1>2, <2>1 DEF MCFlakesIInv, TestReportsIInv
  <2>4. TestTypesInv'
    BY <1>2, <2>1, <2>2 DEF MCFlakesIInv, TestTypesInv
  <2> QED  BY <2>3, <2>4
<1> QED  BY <1>1, <1>3 DEF MCFlakesIInv

LEMMA TestReportAlone ==
    ASSUME MCFlakesIInv, FlakesAssumption, QuarantineAssumption, TestReportsAssumption,
           [TestReportsNext]_testReportVars, UNCHANGED <<flakeVars, proposal>>
    PROVE  MCFlakesIInv'
<1>1. QuarantineIInv' /\ QuarantineTypeInv'
  BY QuarantineNextIInv, QuarantineStepTypes DEF MCFlakesIInv
<1>2. TestReportsIInv' /\ TestTypesInv'
  BY TestReportsNextIInv, TestTypesStep DEF MCFlakesIInv
<1> QED  BY <1>1, <1>2 DEF MCFlakesIInv

\* What a type cannot be trusted with: builds and links are bounded; a report has only rows of
\* its changes and of builds there are; the index has only reports; no more tests are proposed
\* than may be; records stay records; what is not run is known, and not what is filtered out.
THEOREM FlakesTypes ==
    ASSUME FlakesAssumption, QuarantineAssumption, TestReportsAssumption
    PROVE  Spec => []TypeOK
<1>1. Init => MCFlakesIInv
  BY FlakesInitIInv, QuarantineInitTypes, TestReportsInitIInv, TestTypesInit
  DEF Init, QuarantineInit, QuarantineIInv, MCFlakesIInv
<1>2. MCFlakesIInv /\ [Next]_vars => MCFlakesIInv'
  <2> SUFFICES ASSUME MCFlakesIInv, [Next]_vars
               PROVE  MCFlakesIInv'
    OBVIOUS
  <2>1. \/ [QuarantineNext]_<<flakeVars, proposal>> /\ UNCHANGED testReportVars
        \/ [TestReportsNext]_testReportVars /\ UNCHANGED <<flakeVars, proposal>>
    BY DEF Next, vars
  <2> QED  BY <2>1, FlakesAlone, TestReportAlone
<1>3. MCFlakesIInv => TypeOK
  BY QuarantineTypesFollow, TestTypesFollow DEF MCFlakesIInv, TypeOK
<1> QED  BY <1>1, <1>2, <1>3, PTL DEF Spec
=============================================================================
