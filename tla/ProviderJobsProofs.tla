-------------------------- MODULE ProviderJobsProofs --------------------------
(***************************************************************************)
(* Whatever is merged late, in any order and over any edits: the provider  *)
(* job commands take no supported job away, require none untried and hand  *)
(* the gates over.                                                         *)
(***************************************************************************)
EXTENDS ProviderJobs, FiniteSetTheorems, TLAPS

\* A job that may block merges is run before them.
Runs(job) == job # None /\ ~job.optional => job.alwaysRun \/ job.runBeforeMerge

\* What a command may do to a job of minor m of the sigs while kubernetes is the
\* latest minor.
Allowed(old, new, m, kubernetes) ==
    new # old =>
        /\ m <= kubernetes - 3 \/ (new # None /\ Runs(new) /\ (Gates(old) => Gates(new)))
        /\ Gates(new) => Gates(old) \/ (old # None /\ old.alwaysRun)

\* A change of the configuration, the jobs of future minors staying away.
Sound(base, result, kubernetes) ==
    /\ base \in Configs /\ result \in Configs
    /\ \A m \in Minors, s \in Sigs : Allowed(base.presubmits[m, s], result.presubmits[m, s], m, kubernetes)
    /\ \A m \in Minors, s \in AllSigs : m > kubernetes => result.presubmits[m, s] = None

\* Jobs of minors that are neither the latest nor the one before stay as they are.
OldStay(base, result) ==
    \A m \in Minors, s \in AllSigs : m < latest - 1 => result.presubmits[m, s] = base.presubmits[m, s]

TypeInv ==
    /\ patience \in Patiences
    /\ latest \in Minors /\ latest >= FirstMinor + 2
    /\ main \in Configs
    /\ pr \in [Commands -> [base : Configs, result : Configs] \cup {None}]
    /\ edits \in 0..MaxEdits
    /\ \A m \in Minors, s \in AllSigs : m > latest => main.presubmits[m, s] = None

PRInv == \A c \in Commands : pr[c] # None => /\ pr[c].base # pr[c].result
                                             /\ Sound(pr[c].base, pr[c].result, latest)

\* The newest two minors have jobs that run or are optional.
RunInv == \A m \in Minors, s \in Sigs : m >= latest - 1 => Runs(main.presubmits[m, s])

\* The jobs before the latest were required, and are handed over to it.
GateInv == patience = "required" => \A s \in Sigs : Gates(main.presubmits[latest - 1, s])

IInv == TypeInv /\ PRInv /\ RunInv /\ GateInv

-----------------------------------------------------------------------------
LEMMA MinorsAre ==
    /\ \A m \in Minors : m \in Nat
    /\ FirstMinor \in Nat /\ FirstMinor + 2 \in Minors /\ FirstMinor + 1 \in Minors /\ FirstMinor \in Minors
    /\ Sigs \subseteq AllSigs /\ Serial \notin Sigs /\ Serial \in AllSigs
BY BoundsAssumption DEF Minors, AllSigs

LEMMA ConfigsAre ==
    ASSUME NEW cfg \in Configs
    PROVE  /\ DOMAIN cfg.presubmits = Minors \X AllSigs
           /\ cfg.presubmits \in [Minors \X AllSigs -> Job \cup {None}]
           /\ \A m \in Minors, s \in AllSigs : cfg.presubmits[m, s] \in Job \cup {None}
           /\ cfg.periodics \in SUBSET (Minors \X Sigs)
           /\ cfg = [presubmits |-> cfg.presubmits, periodics |-> cfg.periodics]
BY DEF Configs

\* Three jobs that differ from each other are three.
LEMMA ThreeDiffer ==
    ASSUME NEW a, NEW b, NEW c, a # b, b # c, a # c
    PROVE  Cardinality({a, b, c}) = 3
<1>1. IsFiniteSet({a}) /\ Cardinality({a}) = 1
  BY FS_Singleton
<1>2. IsFiniteSet({a} \cup {b}) /\ Cardinality({a} \cup {b}) = 2
  BY <1>1, FS_AddElement
<1>3. IsFiniteSet(({a} \cup {b}) \cup {c}) /\ Cardinality(({a} \cup {b}) \cup {c}) = 3
  BY <1>2, FS_AddElement
<1>4. {a, b, c} = ({a} \cup {b}) \cup {c}
  OBVIOUS
<1>5. QED
  BY <1>3, <1>4

\* A finite set of minors has a newest.
LEMMA NewestExists ==
    ASSUME NEW T \in SUBSET Minors, T # {}
    PROVE  \E t \in T : \A u \in T : u <= t
<1> DEFINE Newer(t) == {u \in T : u > t}
           all == {Newer(t) : t \in T}
<1>1. IsFiniteSet(T) /\ \A t \in T : t \in Nat
  <2>1. FirstMinor \in Int /\ MaxMinor \in Int
    BY BoundsAssumption
  <2>2. IsFiniteSet(Minors)
    BY <2>1, FS_Interval DEF Minors
  <2>3. QED
    BY <2>2, FS_Subset, MinorsAre
<1>2. \A t \in T : Newer(t) \in SUBSET T /\ IsFiniteSet(Newer(t))
  BY <1>1, FS_Subset
<1>3. all \subseteq FiniteSubsetsOf(T) /\ all # {}
  BY <1>2 DEF FiniteSubsetsOf
<1> HIDE DEF all
<1>4. PICK x \in all : \A y \in all : <<y, x>> \notin StrictSubsetOrdering(T)
  BY <1>1, <1>3, FS_StrictSubsetOrderingWellFounded, WFMin
<1> USE DEF all
<1>5. PICK t \in T : x = Newer(t)
  BY <1>4
<1>6. ASSUME NEW u \in T, u > t
      PROVE  FALSE
  <2>1. ASSUME NEW v \in T, v > u
        PROVE  v > t
    BY <1>1, <1>6, <2>1
  <2>2. Newer(u) \subseteq Newer(t) /\ u \in Newer(t) /\ u \notin Newer(u)
    <3>1. ~(u > u)
      BY <1>1
    <3>2. QED
      BY <1>6, <2>1, <3>1
  <2>3. Newer(u) \in all /\ Newer(u) \in SUBSET T /\ Newer(t) \in SUBSET T
    OBVIOUS
  <2>4. <<Newer(u), x>> \in StrictSubsetOrdering(T)
    BY <1>5, <2>2, <2>3 DEF StrictSubsetOrdering
  <2>5. QED
    BY <1>4, <2>3, <2>4
<1>7. \A u \in T : u <= t
  BY <1>1, <1>6
<1>8. QED
  BY <1>7

\* Of four and more minors, the fourth has three that are newer.
LEMMA FourthExists ==
    ASSUME NEW T \in SUBSET Minors, Cardinality(T) >= 4
    PROVE  \E m \in T : Cardinality({k \in T : k > m}) = 3
<1>1. IsFiniteSet(T) /\ Cardinality(T) \in Nat /\ \A t \in T : t \in Nat
  <2>1. FirstMinor \in Int /\ MaxMinor \in Int
    BY BoundsAssumption
  <2>2. IsFiniteSet(Minors)
    BY <2>1, FS_Interval DEF Minors
  <2>3. QED
    BY <2>2, FS_Subset, FS_CardinalityType, MinorsAre
<1>2. PICK a \in T : \A u \in T : u <= a
  <2>1. T # {}
    BY FS_EmptySet
  <2>2. QED
    BY <2>1, NewestExists
<1> DEFINE A == T \ {a}
<1>3. IsFiniteSet(A) /\ Cardinality(A) = Cardinality(T) - 1 /\ A \in SUBSET Minors
  BY <1>1, FS_RemoveElement
<1>4. PICK b \in A : \A u \in A : u <= b
  <2>1. A # {}
    BY <1>1, <1>3, FS_EmptySet
  <2> HIDE DEF A
  <2>2. QED
    BY <1>3, <2>1, NewestExists
<1> DEFINE B == A \ {b}
<1>5. IsFiniteSet(B) /\ Cardinality(B) = Cardinality(T) - 2 /\ B \in SUBSET Minors
  <2> HIDE DEF A
  <2>1. IsFiniteSet(B) /\ Cardinality(B) = Cardinality(A) - 1
    BY <1>3, FS_RemoveElement
  <2>2. QED
    BY <1>1, <1>3, <2>1
<1>6. PICK c \in B : \A u \in B : u <= c
  <2>1. B # {}
    BY <1>1, <1>5, FS_EmptySet
  <2> HIDE DEF B
  <2>2. QED
    BY <1>5, <2>1, NewestExists
<1> DEFINE C == B \ {c}
<1>7. IsFiniteSet(C) /\ Cardinality(C) = Cardinality(T) - 3 /\ C \in SUBSET Minors
  <2> HIDE DEF B
  <2>1. IsFiniteSet(C) /\ Cardinality(C) = Cardinality(B) - 1
    BY <1>5, FS_RemoveElement
  <2>2. QED
    BY <1>1, <1>5, <2>1
<1>8. PICK d \in C : \A u \in C : u <= d
  <2>1. C # {}
    BY <1>1, <1>7, FS_EmptySet
  <2> HIDE DEF C
  <2>2. QED
    BY <1>7, <2>1, NewestExists
<1>9. a \in T /\ b \in T /\ c \in T /\ d \in T /\ a # b /\ b # c /\ a # c /\ d # a /\ d # b /\ d # c
  OBVIOUS
<1>10. \A k \in T : k = a \/ k = b \/ k = c \/ k <= d
  BY <1>8
<1>11. a > d /\ b > d /\ c > d
  <2>1. d <= a /\ d <= b /\ d <= c
    BY <1>2, <1>4, <1>6
  <2>2. QED
    BY <1>1, <1>9, <2>1
<1> HIDE DEF A, B, C
<1>12. {k \in T : k > d} = {a, b, c}
  BY <1>1, <1>9, <1>10, <1>11
<1>13. Cardinality({a, b, c}) = 3
  BY <1>9, ThreeDiffer
<1>14. Cardinality({k \in T : k > d}) = 3
  BY <1>12, <1>13
<1>15. QED
  BY <1>9, <1>14

\* The removal target is out of support.
LEMMA TargetIsOld ==
    ASSUME latest \in Minors, fourReleasesExist
    PROVE  removalTarget \in Minors /\ removalTarget <= latest - 3
<1> DEFINE T == GetLatestMinorReleases
           m == removalTarget
           newer == {k \in T : k > m}
<1>1. /\ latest \in Nat /\ MaxMinor \in Nat /\ FirstMinor \in Nat
      /\ \A t \in FirstMinor..latest : t \in Minors /\ t \in Nat
  BY BoundsAssumption DEF Minors
<1>2. T \subseteq FirstMinor..latest /\ T \subseteq Minors /\ Cardinality(T) >= 4
  BY <1>1 DEF GetLatestMinorReleases, fourReleasesExist
<1> HIDE DEF T
<1>3. \E t \in T : Cardinality({k \in T : k > t}) = 3
  BY <1>2, FourthExists
<1>4. m = CHOOSE t \in T : Cardinality({k \in T : k > t}) = 3
  BY DEF removalTarget, NthLatest, T
<1> HIDE DEF m
<1>5. m \in T /\ Cardinality(newer) = 3
  BY <1>3, <1>4
<1>6. m \in Minors /\ m \in Nat /\ m <= latest
  BY <1>1, <1>2, <1>5
<1>7. newer \subseteq m + 1 .. latest
  <2>1. ASSUME NEW k \in newer
        PROVE  k \in m + 1 .. latest
    <3>1. k > m /\ k \in FirstMinor..latest
      BY <1>2
    <3>2. QED
      BY <1>1, <1>6, <3>1
  <2>2. QED
    BY <2>1
<1>8. IsFiniteSet(m + 1 .. latest) /\ Cardinality(m + 1 .. latest) = latest - m
  <2>1. m + 1 \in Int /\ latest \in Int
    BY <1>1, <1>6
  <2>2. /\ IsFiniteSet(m + 1 .. latest)
        /\ Cardinality(m + 1 .. latest) = IF m + 1 > latest THEN 0 ELSE latest - (m + 1) + 1
    BY <2>1, FS_Interval
  <2>3. QED
    BY <1>1, <1>6, <2>2
<1> HIDE DEF newer
<1>9. 3 <= latest - m
  BY <1>5, <1>7, <1>8, FS_Subset
<1>10. m <= latest - 3
  BY <1>1, <1>6, <1>9
<1>11. QED
  BY <1>6, <1>10 DEF m

-----------------------------------------------------------------------------
\* A configuration is sound when its jobs are.
LEMMA SoundIs ==
    ASSUME NEW base \in Configs, NEW result \in Configs, NEW kubernetes,
           \A m \in Minors, s \in Sigs : Allowed(base.presubmits[m, s], result.presubmits[m, s], m, kubernetes),
           \A m \in Minors, s \in AllSigs : m > kubernetes => result.presubmits[m, s] = None
    PROVE  Sound(base, result, kubernetes)
BY DEF Sound

LEMMA CopySound ==
    ASSUME TypeInv
    PROVE  Sound(main, copyJobs(main), latest)
<1> DEFINE source == Max(sourceReleases)
           old == main.presubmits
           missing == {s \in Sigs : old[latest, s] = None /\ old[source, s] # None}
           new == [alwaysRun |-> FALSE, optional |-> TRUE, runBeforeMerge |-> FALSE]
           presubmits == [j \in DOMAIN old |-> IF j[1] = latest /\ j[2] \in missing THEN new ELSE old[j]]
           periodics == main.periodics \cup ({latest} \X {s \in Sigs : <<source, s>> \in main.periodics})
<1>1. \A m \in Minors, s \in AllSigs : m > latest => old[m, s] = None
  BY DEF TypeInv
<1>2. /\ main \in Configs /\ latest \in Minors /\ latest \in Nat /\ Sigs \subseteq AllSigs
      /\ \A m \in Minors : m \in Nat
  BY MinorsAre DEF TypeInv
<1>3. /\ DOMAIN old = Minors \X AllSigs
      /\ old \in [Minors \X AllSigs -> Job \cup {None}]
      /\ main.periodics \in SUBSET (Minors \X Sigs)
  BY <1>2, ConfigsAre
<1>4. CASE sourceReleases = {}
  <2>1. copyJobs(main) = main
    BY <1>4 DEF copyJobs
  <2>2. QED
    BY <1>2, <1>1, <2>1, SoundIs DEF Allowed
<1>5. CASE sourceReleases # {}
  <2>1. copyJobs(main) = [presubmits |-> presubmits, periodics |-> periodics]
    BY <1>5 DEF copyJobs, copyPresubmitJobsForNewProvider, copyPeriodicJobsForNewProvider
  <2>2. new \in Job /\ new.optional
    BY DEF Job
  <2> HIDE DEF new, source
  <2>3. \A m \in Minors, s \in AllSigs :
           presubmits[m, s] = IF m = latest /\ s \in missing THEN new ELSE old[m, s]
    BY <1>3
  <2>4. presubmits \in [Minors \X AllSigs -> Job \cup {None}]
    BY <1>3, <2>2
  <2>5. periodics \in SUBSET (Minors \X Sigs)
    BY <1>2, <1>3
  <2>6. \A s \in missing : old[latest, s] = None /\ s \in Sigs
    OBVIOUS
  <2> HIDE DEF presubmits, periodics, missing
  <2>7. copyJobs(main) \in Configs /\ copyJobs(main).presubmits = presubmits
    BY <2>1, <2>4, <2>5 DEF Configs
  <2>8. ASSUME NEW m \in Minors, NEW s \in Sigs
        PROVE  Allowed(old[m, s], presubmits[m, s], m, latest)
    <3>1. CASE m = latest /\ s \in missing
      <4>1. presubmits[m, s] = new /\ old[m, s] = None /\ new # None
        BY <1>2, <2>2, <2>3, <2>6, <3>1, NoneAssumption
      <4>2. QED
        BY <2>2, <4>1 DEF Allowed, Gates, Runs
    <3>2. CASE ~(m = latest /\ s \in missing)
      BY <1>2, <2>3, <3>2 DEF Allowed
    <3>3. QED
      BY <3>1, <3>2
  <2>9. ASSUME NEW m \in Minors, NEW s \in AllSigs, m > latest
        PROVE  presubmits[m, s] = None
    <3>1. m # latest
      BY <1>2, <2>9
    <3>2. old[m, s] = None
      BY <1>1, <2>9
    <3>3. QED
      BY <2>3, <3>1, <3>2
  <2>10. QED
    BY <1>2, <2>7, <2>8, <2>9 DEF Sound
<1>6. QED
  BY <1>4, <1>5

\* What a phase does to a job is allowed.
LEMMA PhasesAllowed ==
    ASSUME NEW was \in Job, Runs(was), NEW m, NEW kubernetes
    PROVE  /\ ~was.alwaysRun => Allowed(was, [was EXCEPT !.alwaysRun = TRUE], m, kubernetes)
           /\ was.alwaysRun => Allowed(was, [was EXCEPT !.optional = FALSE], m, kubernetes)
           /\ Allowed(was, [was EXCEPT !.alwaysRun = FALSE, !.runBeforeMerge = TRUE], m, kubernetes)
<1>1. was # None
  BY NoneAssumption
<1>2. ASSUME NEW new \in Job, new.optional = was.optional, new.alwaysRun \/ new.runBeforeMerge
      PROVE  Allowed(was, new, m, kubernetes)
  <2>1. new # None
    BY NoneAssumption
  <2>2. QED
    BY <1>1, <1>2, <2>1 DEF Allowed, Gates, Runs
<1>3. ASSUME NEW new \in Job, was.alwaysRun, new.alwaysRun
      PROVE  (~new.optional \/ new.optional = was.optional) => Allowed(was, new, m, kubernetes)
  <2>1. new # None
    BY NoneAssumption
  <2>2. QED
    BY <1>1, <1>3, <2>1 DEF Allowed, Gates, Runs
<1>4. /\ [was EXCEPT !.alwaysRun = TRUE] \in Job
      /\ [was EXCEPT !.alwaysRun = TRUE].optional = was.optional
      /\ [was EXCEPT !.alwaysRun = TRUE].alwaysRun
  BY DEF Job
<1>5. /\ [was EXCEPT !.alwaysRun = FALSE, !.runBeforeMerge = TRUE] \in Job
      /\ [was EXCEPT !.alwaysRun = FALSE, !.runBeforeMerge = TRUE].optional = was.optional
      /\ [was EXCEPT !.alwaysRun = FALSE, !.runBeforeMerge = TRUE].runBeforeMerge
  BY DEF Job
<1>6. /\ [was EXCEPT !.optional = FALSE] \in Job
      /\ ~[was EXCEPT !.optional = FALSE].optional
      /\ [was EXCEPT !.optional = FALSE].alwaysRun = was.alwaysRun
  BY DEF Job
<1>7. was.alwaysRun => Allowed(was, [was EXCEPT !.optional = FALSE], m, kubernetes)
  BY <1>3, <1>6
<1>8. QED
  BY <1>2, <1>4, <1>5, <1>7

\* Making a job run and then required unsettles nothing, one phase at a time.
LEMMA RequireSound ==
    ASSUME TypeInv, RunInv, NEW cfg \in requirePresubmits(main)
    PROVE  Sound(main, cfg, latest) /\ OldStay(main, cfg)
<1> DEFINE old == main.presubmits
           jobs == {j \in {latest} \X AllSigs : old[j] # None}
           first == {j \in jobs : ~old[j].alwaysRun}
           second == {j \in jobs : old[j].alwaysRun /\ old[j].optional}
           updated == [j \in DOMAIN old |->
                         IF j \in first THEN [old[j] EXCEPT !.alwaysRun = TRUE]
                         ELSE IF j \in second THEN [old[j] EXCEPT !.optional = FALSE]
                         ELSE old[j]]
           later == [j \in DOMAIN updated |->
                       IF j[1] = latest - 1 /\ updated[j] # None
                         THEN [updated[j] EXCEPT !.alwaysRun = FALSE, !.runBeforeMerge = TRUE]
                         ELSE updated[j]]
<1>1. \A m \in Minors, s \in AllSigs : m > latest => old[m, s] = None
  BY DEF TypeInv
<1>2. /\ main \in Configs /\ latest \in Minors /\ latest \in Nat /\ Sigs \subseteq AllSigs
      /\ \A m \in Minors : m \in Nat
  BY MinorsAre DEF TypeInv
<1>3. /\ DOMAIN old = Minors \X AllSigs
      /\ \A j \in Minors \X AllSigs : old[j] \in Job \cup {None}
  BY <1>2, ConfigsAre
<1>4. cfg = [main EXCEPT !.presubmits = updated] \/ cfg = [main EXCEPT !.presubmits = later]
  BY DEF requirePresubmits, setPresubmitsToRunBeforeMergeOnly
<1>5. ASSUME NEW m \in Minors, NEW s \in Sigs, m = latest \/ m = latest - 1
      PROVE  Runs(old[m, s])
  <2>1. m >= latest - 1
    BY <1>2, <1>5
  <2>2. QED
    BY <2>1 DEF RunInv
<1>6. ASSUME NEW m \in Minors, NEW s \in AllSigs
      PROVE  /\ updated[m, s] \in Job \cup {None} /\ later[m, s] \in Job \cup {None}
             /\ m # latest => updated[m, s] = old[m, s]
             /\ m # latest - 1 => later[m, s] = updated[m, s]
             /\ old[m, s] = None <=> updated[m, s] = None
             /\ m = latest - 1 /\ updated[m, s] # None =>
                   later[m, s] = [updated[m, s] EXCEPT !.alwaysRun = FALSE, !.runBeforeMerge = TRUE]
             /\ m = latest - 1 /\ updated[m, s] = None => later[m, s] = None
             /\ m = latest /\ old[m, s] # None =>
                   updated[m, s] = IF ~old[m, s].alwaysRun THEN [old[m, s] EXCEPT !.alwaysRun = TRUE]
                                   ELSE IF old[m, s].optional THEN [old[m, s] EXCEPT !.optional = FALSE]
                                   ELSE old[m, s]
  <2> DEFINE j == <<m, s>>
  <2>1. j \in Minors \X AllSigs /\ j[1] = m
    OBVIOUS
  <2>2. old[j] \in Job \cup {None}
    BY <1>3, <2>1
  <2>3. /\ j \in jobs <=> m = latest /\ old[j] # None
        /\ j \in first <=> j \in jobs /\ ~old[j].alwaysRun
        /\ j \in second <=> j \in jobs /\ old[j].alwaysRun /\ old[j].optional
    OBVIOUS
  <2>4. updated[j] = IF j \in first THEN [old[j] EXCEPT !.alwaysRun = TRUE]
                     ELSE IF j \in second THEN [old[j] EXCEPT !.optional = FALSE]
                     ELSE old[j]
    BY <1>3, <2>1
  <2>5. later[j] = IF m = latest - 1 /\ updated[j] # None
                     THEN [updated[j] EXCEPT !.alwaysRun = FALSE, !.runBeforeMerge = TRUE]
                     ELSE updated[j]
    BY <1>3, <2>1
  <2> HIDE DEF updated, later, first, second, jobs, j
  <2>6. old[j] \in Job \/ old[j] = None
    BY <2>2
  <2>7. updated[j] \in Job \cup {None} /\ (old[j] = None <=> updated[j] = None)
    BY <2>3, <2>4, <2>6, NoneAssumption DEF Job
  <2>8. later[j] \in Job \cup {None}
    BY <2>5, <2>7 DEF Job
  <2>9. j \in jobs => old[j] # None /\ m = latest
    BY <2>3
  <2>10. QED
    BY <1>2, <2>3, <2>4, <2>5, <2>7, <2>8 DEF j
<1>7. DOMAIN updated = Minors \X AllSigs /\ DOMAIN later = Minors \X AllSigs
  BY <1>3
<1>8. /\ updated \in [Minors \X AllSigs -> Job \cup {None}]
      /\ later \in [Minors \X AllSigs -> Job \cup {None}]
  <2>1. ASSUME NEW j \in Minors \X AllSigs
        PROVE  updated[j] \in Job \cup {None} /\ later[j] \in Job \cup {None}
    <3>1. PICK m \in Minors, s \in AllSigs : j = <<m, s>>
      OBVIOUS
    <3> HIDE DEF updated, later
    <3>2. QED
      BY <1>6, <3>1
  <2>2. QED
    BY <1>3, <2>1
<1> HIDE DEF updated, later
<1>9. cfg \in Configs /\ (cfg.presubmits = updated \/ cfg.presubmits = later)
  BY <1>2, <1>4, <1>8 DEF Configs
<1>10. ASSUME NEW m \in Minors, NEW s \in Sigs
       PROVE  Allowed(old[m, s], cfg.presubmits[m, s], m, latest)
  <2> DEFINE was == old[m, s]
             new == cfg.presubmits[m, s]
  <2> SUFFICES Allowed(was, new, m, latest)
    OBVIOUS
  <2>1. was \in Job \cup {None} /\ s \in AllSigs
    BY <1>2, <1>3
  <2>2. CASE m = latest
    <3>1. Runs(was)
      BY <1>5, <2>2
    <3>2. m # latest - 1
      BY <1>2, <2>2
    <3>3. new = updated[m, s]
      BY <1>6, <1>9, <2>1, <3>2
    <3>4. was # None => new = IF ~was.alwaysRun THEN [was EXCEPT !.alwaysRun = TRUE]
                              ELSE IF was.optional THEN [was EXCEPT !.optional = FALSE]
                              ELSE was
      BY <1>6, <2>1, <2>2, <3>3
    <3>5. was = None => new = None
      BY <1>6, <2>1, <3>3
    <3> HIDE DEF was, new
    <3>6. CASE was = None \/ new = was
      BY <3>5, <3>6 DEF Allowed
    <3>7. CASE was # None /\ new # was
      BY <2>1, <3>1, <3>4, <3>7, PhasesAllowed
    <3>8. QED
      BY <3>6, <3>7
  <2>3. CASE m = latest - 1
    <3>1. m # latest
      BY <1>2, <2>3
    <3>2. Runs(was)
      BY <1>5, <2>3
    <3>3. updated[m, s] = was
      BY <1>6, <2>1, <3>1
    <3>4. was # None => later[m, s] = [was EXCEPT !.alwaysRun = FALSE, !.runBeforeMerge = TRUE]
      BY <1>6, <2>1, <2>3, <3>3
    <3>5. was = None => later[m, s] = None
      BY <1>6, <2>1, <2>3, <3>3
    <3>6. new = updated[m, s] \/ new = later[m, s]
      BY <1>9
    <3> HIDE DEF was, new
    <3>7. CASE new = was
      BY <3>7 DEF Allowed
    <3>8. CASE new # was
      <4>1. new = later[m, s]
        BY <3>3, <3>6, <3>8
      <4>2. was # None /\ was \in Job
        BY <2>1, <3>5, <3>8, <4>1
      <4>3. new = [was EXCEPT !.alwaysRun = FALSE, !.runBeforeMerge = TRUE]
        BY <3>4, <4>1, <4>2
      <4>4. QED
        BY <3>2, <4>2, <4>3, PhasesAllowed
    <3>9. QED
      BY <3>7, <3>8
  <2>4. CASE m # latest /\ m # latest - 1
    <3>1. new = was
      BY <1>6, <1>9, <2>1, <2>4
    <3>2. QED
      BY <3>1 DEF Allowed
  <2>5. QED
    BY <2>2, <2>3, <2>4
<1>11. ASSUME NEW m \in Minors, NEW s \in AllSigs, m # latest, m # latest - 1
       PROVE  cfg.presubmits[m, s] = old[m, s]
  BY <1>6, <1>9, <1>11
<1>12. ASSUME NEW m \in Minors, NEW s \in AllSigs, m > latest
       PROVE  cfg.presubmits[m, s] = None
  <2>1. m # latest /\ m # latest - 1
    BY <1>2, <1>12
  <2>2. QED
    BY <1>1, <1>11, <1>12, <2>1
<1>13. Sound(main, cfg, latest)
  BY <1>2, <1>9, <1>10, <1>12, SoundIs
<1>14. OldStay(main, cfg)
  <2>1. \A m \in Minors : m < latest - 1 => m # latest /\ m # latest - 1
    BY <1>2
  <2>2. QED
    BY <1>11, <2>1 DEF OldStay
<1>15. QED
  BY <1>13, <1>14

\* Only jobs out of support stop running always, or are removed.
LEMMA RemoveAlwaysRunSound ==
    ASSUME TypeInv, NEW cfg, Sound(main, cfg, latest), OldStay(main, cfg)
    PROVE  Sound(main, removeAlwaysRun(cfg), latest)
<1> DEFINE old == cfg.presubmits
           target == removalTarget
           presubmits == [j \in DOMAIN old |->
                            IF j[1] = target /\ j[2] \in Sigs /\ old[j] # None
                              THEN [old[j] EXCEPT !.alwaysRun = FALSE] ELSE old[j]]
           result == removeAlwaysRun(cfg)
<1>1. /\ main \in Configs /\ cfg \in Configs
      /\ \A m \in Minors, s \in Sigs : Allowed(main.presubmits[m, s], old[m, s], m, latest)
      /\ \A m \in Minors, s \in AllSigs : m > latest => old[m, s] = None
  BY DEF Sound
<1>2. latest \in Minors /\ latest \in Nat /\ Sigs \subseteq AllSigs /\ \A m \in Minors : m \in Nat
  BY MinorsAre DEF TypeInv
<1>3. /\ DOMAIN old = Minors \X AllSigs
      /\ \A j \in Minors \X AllSigs : old[j] \in Job \cup {None}
  BY <1>1, ConfigsAre
<1>4. CASE result = cfg
  BY <1>4
<1>5. CASE result # cfg
  <2>1. fourReleasesExist /\ result = [cfg EXCEPT !.presubmits = presubmits]
    BY <1>5 DEF removeAlwaysRun
  <2>2. target <= latest - 3 /\ target \in Minors
    BY <1>2, <2>1, TargetIsOld
  <2> HIDE DEF target
  <2>3. ASSUME NEW m \in Minors, NEW s \in AllSigs
        PROVE  /\ presubmits[m, s] \in Job \cup {None}
               /\ presubmits[m, s] = old[m, s]
                  \/ (m = target /\ old[m, s] \in Job /\ presubmits[m, s] = [old[m, s] EXCEPT !.alwaysRun = FALSE])
    <3> DEFINE j == <<m, s>>
    <3>1. j \in Minors \X AllSigs /\ j[1] = m
      OBVIOUS
    <3>2. old[j] \in Job \/ old[j] = None
      BY <1>3, <3>1
    <3>3. presubmits[j] = old[j]
          \/ (m = target /\ old[j] # None /\ presubmits[j] = [old[j] EXCEPT !.alwaysRun = FALSE])
      BY <1>3, <3>1
    <3> HIDE DEF j, presubmits
    <3>4. presubmits[j] \in Job \cup {None}
      BY <3>2, <3>3 DEF Job
    <3>5. QED
      BY <3>2, <3>3, <3>4 DEF j
  <2>4. presubmits \in [Minors \X AllSigs -> Job \cup {None}]
    <3>1. ASSUME NEW j \in Minors \X AllSigs
          PROVE  presubmits[j] \in Job \cup {None}
      <4> HIDE DEF presubmits
      <4>1. PICK m \in Minors, s \in AllSigs : j = <<m, s>>
        OBVIOUS
      <4>2. QED
        BY <2>3, <4>1
    <3>2. QED
      BY <1>3, <3>1
  <2> HIDE DEF presubmits, result
  <2>5. result \in Configs /\ result.presubmits = presubmits
    BY <1>1, <2>1, <2>4 DEF Configs
  <2>6. ASSUME NEW m \in Minors, NEW s \in Sigs
        PROVE  Allowed(main.presubmits[m, s], presubmits[m, s], m, latest)
    <3>1. CASE presubmits[m, s] = old[m, s]
      BY <1>1, <3>1
    <3>2. CASE presubmits[m, s] # old[m, s]
      <4> DEFINE was == old[m, s]
                 new == presubmits[m, s]
      <4>1. m = target /\ was \in Job /\ new = [was EXCEPT !.alwaysRun = FALSE]
        BY <1>2, <2>3, <3>2
      <4>2. m <= latest - 3 /\ m < latest - 1
        <5>1. m = target /\ m \in Nat /\ latest \in Nat
          BY <1>2, <4>1
        <5> HIDE DEF was, new
        <5>2. QED
          BY <2>2, <5>1
      <4>3. main.presubmits[m, s] = was
        BY <1>2, <4>2 DEF OldStay
      <4> HIDE DEF was, new
      <4>4. new \in Job /\ new.optional = was.optional /\ ~new.alwaysRun /\ new.runBeforeMerge = was.runBeforeMerge
        BY <4>1 DEF Job
      <4>5. was # None /\ new # None
        BY <4>1, <4>4, NoneAssumption
      <4>6. Allowed(was, new, m, latest)
        BY <4>2, <4>4, <4>5 DEF Allowed, Gates
      <4>7. QED
        BY <4>3, <4>6 DEF new
    <3>3. QED
      BY <3>1, <3>2
  <2>7. ASSUME NEW m \in Minors, NEW s \in AllSigs, m > latest
        PROVE  presubmits[m, s] = None
    <3>1. m # target
      BY <1>2, <2>2, <2>7
    <3>2. QED
      BY <1>1, <2>3, <2>7, <3>1
  <2>8. Sound(main, result, latest)
    BY <1>1, <2>5, <2>6, <2>7, SoundIs
  <2>9. QED
    BY <2>8 DEF result
<1>6. QED
  BY <1>4, <1>5

LEMMA RemoveJobsSound ==
    ASSUME TypeInv
    PROVE  Sound(main, removeJobs(main), latest)
<1> DEFINE old == main.presubmits
           gone == {removalTarget} \X Sigs
           presubmits == [j \in DOMAIN old |-> IF j \in gone THEN None ELSE old[j]]
           result == removeJobs(main)
<1>1. \A m \in Minors, s \in AllSigs : m > latest => old[m, s] = None
  BY DEF TypeInv
<1>2. /\ main \in Configs /\ latest \in Minors /\ latest \in Nat /\ Sigs \subseteq AllSigs
      /\ \A m \in Minors : m \in Nat
  BY MinorsAre DEF TypeInv
<1>3. /\ DOMAIN old = Minors \X AllSigs
      /\ old \in [Minors \X AllSigs -> Job \cup {None}]
      /\ main.periodics \in SUBSET (Minors \X Sigs)
  BY <1>2, ConfigsAre
<1>4. CASE result = main
  BY <1>1, <1>2, <1>4, SoundIs DEF Allowed
<1>5. CASE result # main
  <2>1. fourReleasesExist /\ result = [presubmits |-> presubmits, periodics |-> main.periodics \ gone]
    BY <1>5 DEF removeJobs
  <2>2. removalTarget <= latest - 3
    BY <1>2, <2>1, TargetIsOld
  <2>3. presubmits \in [Minors \X AllSigs -> Job \cup {None}]
    BY <1>3
  <2>4. ASSUME NEW m \in Minors, NEW s \in AllSigs
        PROVE  presubmits[m, s] = old[m, s] \/ (m = removalTarget /\ presubmits[m, s] = None)
    BY <1>3
  <2> HIDE DEF presubmits, result
  <2>5. result \in Configs /\ result.presubmits = presubmits
    BY <1>3, <2>1, <2>3 DEF Configs
  <2>6. ASSUME NEW m \in Minors, NEW s \in Sigs
        PROVE  Allowed(old[m, s], presubmits[m, s], m, latest)
    BY <1>2, <2>2, <2>4 DEF Allowed, Gates
  <2>7. ASSUME NEW m \in Minors, NEW s \in AllSigs, m > latest
        PROVE  presubmits[m, s] = None
    BY <1>1, <2>4, <2>7
  <2>8. Sound(main, result, latest)
    BY <1>2, <2>5, <2>6, <2>7, SoundIs
  <2>9. QED
    BY <2>8 DEF result
<1>6. QED
  BY <1>4, <1>5

\* Whatever a command proposes is sound for the configuration it read.
LEMMA ResultsSound ==
    ASSUME TypeInv, RunInv, NEW c \in Commands, NEW result \in Results(c)
    PROVE  Sound(main, result, latest)
<1>1. CASE c = "copy"
  <2>1. result = copyJobs(main)
    BY <1>1 DEF Results
  <2>2. QED
    BY <2>1, CopySound
<1>2. CASE c = "require"
  <2>1. PICK cfg \in requirePresubmits(main) : result = removeAlwaysRun(cfg)
    BY <1>2 DEF Results
  <2>2. Sound(main, cfg, latest) /\ OldStay(main, cfg)
    BY RequireSound
  <2>3. QED
    BY <2>1, <2>2, RemoveAlwaysRunSound
<1>3. CASE c = "remove"
  <2>1. result = removeJobs(main)
    BY <1>3 DEF Results
  <2>2. QED
    BY <2>1, RemoveJobsSound
<1>4. QED
  BY <1>1, <1>2, <1>3 DEF Commands

-----------------------------------------------------------------------------
\* A later release of Kubernetes allows no less.
LEMMA SoundStays ==
    ASSUME NEW base, NEW result, NEW kubernetes \in Nat, Sound(base, result, kubernetes)
    PROVE  Sound(base, result, kubernetes + 1)
<1>1. \A m \in Minors : /\ m <= kubernetes - 3 => m <= kubernetes + 1 - 3
                        /\ m > kubernetes + 1 => m > kubernetes
  BY MinorsAre
<1>2. ASSUME NEW m \in Minors, NEW s \in Sigs
      PROVE  Allowed(base.presubmits[m, s], result.presubmits[m, s], m, kubernetes + 1)
  <2>1. Allowed(base.presubmits[m, s], result.presubmits[m, s], m, kubernetes)
    BY DEF Sound
  <2>2. ASSUME NEW new, NEW old, Allowed(old, new, m, kubernetes)
        PROVE  Allowed(old, new, m, kubernetes + 1)
    BY <1>1, <2>2 DEF Allowed
  <2>3. QED
    BY <2>1, <2>2
<1>3. ASSUME NEW m \in Minors, NEW s \in AllSigs, m > kubernetes + 1
      PROVE  result.presubmits[m, s] = None
  BY <1>1, <1>3 DEF Sound
<1>4. base \in Configs /\ result \in Configs
  BY DEF Sound
<1>5. QED
  BY <1>2, <1>3, <1>4, SoundIs

\* A merge takes over a job from the proposal or leaves it.
LEMMA MergeShape ==
    ASSUME TypeInv, PRInv, NEW c \in Commands, Merge(c)
    PROVE  /\ pr[c].base \in Configs /\ pr[c].result \in Configs /\ main' \in Configs
           /\ Sound(pr[c].base, pr[c].result, latest)
           /\ \A m \in Minors, s \in AllSigs :
                 main'.presubmits[m, s] = main.presubmits[m, s]
                 \/ (/\ main.presubmits[m, s] = pr[c].base.presubmits[m, s]
                     /\ main'.presubmits[m, s] = pr[c].result.presubmits[m, s])
<1> DEFINE p == pr[c]
           base == p.base.presubmits
           result == p.result.presubmits
           old == main.presubmits
           presubmits == [j \in DOMAIN old |-> IF result[j] # base[j] THEN result[j] ELSE old[j]]
           periodics == (main.periodics \cup (p.result.periodics \ p.base.periodics))
                           \ (p.base.periodics \ p.result.periodics)
<1>1. p # None /\ ~Conflict(p, main) /\ main' = MergeOf(p, main)
  BY DEF Merge
<1>2. p \in [base : Configs, result : Configs] /\ Sound(p.base, p.result, latest)
  BY <1>1 DEF TypeInv, PRInv
<1>3. main \in Configs /\ p.base \in Configs /\ p.result \in Configs
  BY <1>2 DEF TypeInv
<1>4. main' = [presubmits |-> presubmits, periodics |-> periodics]
  BY <1>1 DEF MergeOf
<1>5. /\ DOMAIN old = Minors \X AllSigs
      /\ \A j \in Minors \X AllSigs : old[j] \in Job \cup {None} /\ result[j] \in Job \cup {None}
      /\ main.periodics \in SUBSET (Minors \X Sigs) /\ p.base.periodics \in SUBSET (Minors \X Sigs)
      /\ p.result.periodics \in SUBSET (Minors \X Sigs)
  <2> HIDE DEF p
  <2>1. QED
    BY <1>3 DEF Configs
<1>6. \A j \in Minors \X AllSigs : Cardinality({base[j], result[j], old[j]}) # 3
  BY <1>1, <1>5 DEF Conflict
<1> HIDE DEF p, base, result, old
<1>7. \A j \in Minors \X AllSigs : presubmits[j] = IF result[j] # base[j] THEN result[j] ELSE old[j]
  BY <1>5
<1>8. presubmits \in [Minors \X AllSigs -> Job \cup {None}]
  BY <1>5
<1>9. periodics \in SUBSET (Minors \X Sigs)
  BY <1>5
<1> HIDE DEF presubmits, periodics
<1>10. main' \in Configs /\ main'.presubmits = presubmits
  BY <1>4, <1>8, <1>9 DEF Configs
<1>11. ASSUME NEW j \in Minors \X AllSigs
       PROVE  presubmits[j] = old[j] \/ (old[j] = base[j] /\ presubmits[j] = result[j])
  <2>1. ASSUME base[j] # result[j], result[j] # old[j], base[j] # old[j]
        PROVE  FALSE
    <3>1. Cardinality({base[j], result[j], old[j]}) = 3
      BY <2>1, ThreeDiffer
    <3>2. QED
      BY <1>6, <3>1
  <2>2. QED
    BY <1>7, <2>1
<1>12. \A m \in Minors, s \in AllSigs : <<m, s>> \in Minors \X AllSigs
  OBVIOUS
<1>13. QED
  BY <1>2, <1>3, <1>10, <1>11, <1>12 DEF p, base, result, old

-----------------------------------------------------------------------------
LEMMA RunIInv ==
    ASSUME IInv, NEW c \in Commands, Run(c)
    PROVE  IInv'
<1>1. PICK result \in Results(c) :
        /\ result # main
        /\ pr' = [pr EXCEPT ![c] = [base |-> main, result |-> result]]
        /\ patience' = patience /\ latest' = latest /\ main' = main /\ edits' = edits
  BY DEF Run
<1>2. TypeInv /\ PRInv /\ Sound(main, result, latest)
  BY ResultsSound DEF IInv
<1>3. main \in Configs /\ result \in Configs
  BY <1>2 DEF Sound
<1> DEFINE new == [base |-> main, result |-> result]
<1>4. new \in [base : Configs, result : Configs] /\ new.base = main /\ new.result = result
  BY <1>3
<1> HIDE DEF new
<1>5. /\ pr \in [Commands -> [base : Configs, result : Configs] \cup {None}]
      /\ pr' = [pr EXCEPT ![c] = new]
  BY <1>1, <1>2 DEF TypeInv, new
<1>6. /\ pr' \in [Commands -> [base : Configs, result : Configs] \cup {None}]
      /\ pr'[c] = new /\ \A d \in Commands : d # c => pr'[d] = pr[d]
  BY <1>4, <1>5
<1>7. TypeInv'
  BY <1>1, <1>2, <1>6 DEF TypeInv
<1>8. PRInv'
  <2>1. ASSUME NEW d \in Commands, pr'[d] # None
        PROVE  pr'[d].base # pr'[d].result /\ Sound(pr'[d].base, pr'[d].result, latest')
    <3>1. CASE d = c
      BY <1>1, <1>2, <1>4, <1>6, <3>1
    <3>2. CASE d # c
      BY <1>1, <1>2, <1>6, <2>1, <3>2 DEF PRInv
    <3>3. QED
      BY <3>1, <3>2
  <2>2. QED
    BY <2>1 DEF PRInv
<1>9. RunInv' /\ GateInv'
  BY <1>1 DEF IInv, RunInv, GateInv
<1>10. QED
  BY <1>7, <1>8, <1>9 DEF IInv

\* What a merge leaves of the jobs of minors in support.
LEMMA MergeKeeps ==
    ASSUME IInv, NEW c \in Commands, Merge(c), NEW m \in Minors, NEW s \in Sigs
    PROVE  Allowed(main.presubmits[m, s], main'.presubmits[m, s], m, latest)
<1> DEFINE old == main.presubmits[m, s]
           new == main'.presubmits[m, s]
           base == pr[c].base.presubmits[m, s]
           result == pr[c].result.presubmits[m, s]
<1>1. s \in AllSigs
  BY MinorsAre
<1>2. Allowed(base, result, m, latest) /\ (new = old \/ (old = base /\ new = result))
  BY <1>1, MergeShape DEF IInv, Sound
<1> SUFFICES Allowed(old, new, m, latest)
  OBVIOUS
<1> HIDE DEF old, new, base, result
<1>3. CASE new = old
  BY <1>3 DEF Allowed
<1>4. CASE old = base /\ new = result
  BY <1>2, <1>4
<1>5. QED
  BY <1>2, <1>3, <1>4

LEMMA MergeIInv ==
    ASSUME IInv, NEW c \in Commands, Merge(c)
    PROVE  IInv'
<1>1. /\ pr' = [pr EXCEPT ![c] = None]
      /\ patience' = patience /\ latest' = latest /\ edits' = edits
  BY DEF Merge
<1>2. /\ TypeInv /\ PRInv /\ latest \in Minors /\ latest \in Nat /\ latest >= FirstMinor + 2
      /\ \A m \in Minors : m \in Nat
  BY MinorsAre DEF IInv, TypeInv
<1>3. /\ main' \in Configs
      /\ Sound(pr[c].base, pr[c].result, latest)
      /\ \A m \in Minors, s \in AllSigs :
            main'.presubmits[m, s] = main.presubmits[m, s]
            \/ main'.presubmits[m, s] = pr[c].result.presubmits[m, s]
  BY <1>2, MergeShape
<1>4. /\ pr' \in [Commands -> [base : Configs, result : Configs] \cup {None}]
      /\ pr'[c] = None /\ \A d \in Commands : d # c => pr'[d] = pr[d]
  <2>1. pr \in [Commands -> [base : Configs, result : Configs] \cup {None}]
    BY <1>2 DEF TypeInv
  <2>2. QED
    BY <1>1, <2>1
<1>5. TypeInv'
  <2>1. ASSUME NEW m \in Minors, NEW s \in AllSigs, m > latest
        PROVE  main'.presubmits[m, s] = None
    <3>1. main.presubmits[m, s] = None
      BY <1>2, <2>1 DEF TypeInv
    <3>2. pr[c].result.presubmits[m, s] = None
      BY <1>3, <2>1 DEF Sound
    <3>3. QED
      BY <1>3, <3>1, <3>2
  <2>2. QED
    BY <1>1, <1>2, <1>3, <1>4, <2>1 DEF TypeInv
<1>6. PRInv'
  <2>1. ASSUME NEW d \in Commands, pr'[d] # None
        PROVE  pr'[d].base # pr'[d].result /\ Sound(pr'[d].base, pr'[d].result, latest')
    <3>1. pr'[d] = pr[d] /\ pr[d] # None
      BY <1>4, <2>1
    <3>2. QED
      BY <1>1, <1>2, <3>1 DEF PRInv
  <2>2. QED
    BY <2>1 DEF PRInv
<1>7. RunInv'
  <2>1. ASSUME NEW m \in Minors, NEW s \in Sigs, m >= latest - 1
        PROVE  Runs(main'.presubmits[m, s])
    <3>1. ~(m <= latest - 3)
      BY <1>2, <2>1
    <3>2. Allowed(main.presubmits[m, s], main'.presubmits[m, s], m, latest)
      BY MergeKeeps
    <3>3. Runs(main.presubmits[m, s])
      BY <2>1 DEF IInv, RunInv
    <3>4. QED
      BY <3>1, <3>2, <3>3 DEF Allowed
  <2>2. QED
    BY <1>1, <2>1 DEF RunInv
<1>8. GateInv'
  <2>1. ASSUME patience = "required", NEW s \in Sigs
        PROVE  Gates(main'.presubmits[latest - 1, s])
    <3>1. latest - 1 \in Minors /\ ~(latest - 1 <= latest - 3)
      BY <1>2, BoundsAssumption DEF Minors
    <3>2. Allowed(main.presubmits[latest - 1, s], main'.presubmits[latest - 1, s], latest - 1, latest)
      BY <3>1, MergeKeeps
    <3>3. Gates(main.presubmits[latest - 1, s])
      BY <2>1 DEF IInv, GateInv
    <3>4. QED
      BY <3>1, <3>2, <3>3 DEF Allowed
  <2>2. QED
    BY <1>1, <2>1 DEF GateInv
<1>9. QED
  BY <1>5, <1>6, <1>7, <1>8 DEF IInv

LEMMA ReleaseIInv ==
    ASSUME IInv, ReleaseKubernetes
    PROVE  IInv'
<1>1. /\ latest < MaxMinor /\ latest' = latest + 1
      /\ patience' = patience /\ main' = main /\ pr' = pr /\ edits' = edits
      /\ patience = "required" => ensureSigJobsAreRequired(main.presubmits)
  BY DEF ReleaseKubernetes
<1>2. /\ TypeInv /\ latest \in Minors /\ latest \in Nat /\ latest >= FirstMinor + 2
      /\ \A m \in Minors : m \in Nat
  BY MinorsAre DEF IInv, TypeInv
<1>3. latest + 1 \in Minors /\ latest + 1 >= FirstMinor + 2
  BY <1>1, <1>2, BoundsAssumption DEF Minors
<1>4. \A m \in Minors : m > latest + 1 => m > latest
  BY <1>2
<1>5. TypeInv'
  BY <1>1, <1>2, <1>3, <1>4 DEF TypeInv
<1>6. PRInv'
  BY <1>1, <1>2, SoundStays DEF IInv, PRInv
<1>7. RunInv'
  <2>1. \A m \in Minors : m >= (latest + 1) - 1 => m >= latest - 1
    BY <1>2
  <2>2. QED
    BY <1>1, <2>1 DEF IInv, RunInv
<1>8. GateInv'
  <2>1. (latest + 1) - 1 = latest
    BY <1>2
  <2>2. QED
    BY <1>1, <2>1 DEF GateInv, ensureSigJobsAreRequired, Gates
<1>9. QED
  BY <1>5, <1>6, <1>7, <1>8 DEF IInv

\* Only jobs of the latest minor become optional.
LEMMA OptionalShape ==
    ASSUME TypeInv, NEW s \in AllSigs, MakeOptional(s)
    PROVE  /\ main' \in Configs
           /\ \A m \in Minors, t \in AllSigs :
                 main'.presubmits[m, t] = main.presubmits[m, t]
                 \/ (m = latest /\ main'.presubmits[m, t] \in Job /\ main'.presubmits[m, t].optional)
<1> DEFINE old == main.presubmits
           job == [old[latest, s] EXCEPT !.optional = TRUE]
           presubmits == [old EXCEPT ![<<latest, s>>] = job]
<1>1. /\ old[latest, s] # None
      /\ main' = [main EXCEPT !.presubmits[<<latest, s>>].optional = TRUE]
  BY DEF MakeOptional
<1>2. /\ main \in Configs /\ latest \in Minors /\ latest \in Nat /\ \A m \in Minors : m \in Nat
  BY MinorsAre DEF TypeInv
<1>3. <<latest, s>> \in Minors \X AllSigs
  BY <1>2
<1>4. old \in [Minors \X AllSigs -> Job \cup {None}] /\ main = [presubmits |-> old, periodics |-> main.periodics]
      /\ main.periodics \in SUBSET (Minors \X Sigs)
  BY <1>2, ConfigsAre
<1>5. main' = [main EXCEPT !.presubmits = presubmits]
  BY <1>1, <1>2, <1>3, <1>4
<1>6. old[latest, s] \in Job
  BY <1>1, <1>3, <1>4
<1>7. job \in Job /\ job.optional
  BY <1>6 DEF Job
<1> HIDE DEF job
<1>8. /\ presubmits \in [Minors \X AllSigs -> Job \cup {None}]
      /\ \A j \in Minors \X AllSigs : presubmits[j] = IF j = <<latest, s>> THEN job ELSE old[j]
  BY <1>3, <1>4, <1>7
<1>9. \A m \in Minors, t \in AllSigs :
         presubmits[m, t] = old[m, t] \/ (m = latest /\ presubmits[m, t] = job)
  <2> HIDE DEF presubmits
  <2>1. \A m \in Minors, t \in AllSigs :
           <<m, t>> \in Minors \X AllSigs /\ (<<m, t>> = <<latest, s>> => m = latest)
    OBVIOUS
  <2>2. QED
    BY <1>8, <2>1
<1> HIDE DEF presubmits
<1>10. main' \in Configs /\ main'.presubmits = presubmits
  BY <1>4, <1>5, <1>8 DEF Configs
<1>11. QED
  BY <1>7, <1>9, <1>10

LEMMA MakeOptionalIInv ==
    ASSUME IInv, NEW s \in AllSigs, MakeOptional(s)
    PROVE  IInv'
<1>1. Edit /\ patience' = patience /\ latest' = latest /\ pr' = pr
  BY DEF MakeOptional
<1>2. /\ TypeInv /\ latest \in Minors /\ latest \in Nat /\ \A m \in Minors : m \in Nat
      /\ latest >= FirstMinor + 2 /\ edits \in 0..MaxEdits /\ Sigs \subseteq AllSigs
  BY MinorsAre DEF IInv, TypeInv
<1>3. /\ main' \in Configs
      /\ \A m \in Minors, t \in AllSigs :
            main'.presubmits[m, t] = main.presubmits[m, t]
            \/ (m = latest /\ main'.presubmits[m, t] \in Job /\ main'.presubmits[m, t].optional)
  BY <1>2, OptionalShape
<1>4. TypeInv'
  <2>1. edits' \in 0..MaxEdits
    BY <1>1, <1>2, BoundsAssumption DEF Edit
  <2>2. ASSUME NEW m \in Minors, NEW t \in AllSigs, m > latest
        PROVE  main'.presubmits[m, t] = None
    <3>1. m # latest
      BY <1>2, <2>2
    <3>2. main.presubmits[m, t] = None
      BY <1>2, <2>2 DEF TypeInv
    <3>3. QED
      BY <1>3, <3>1, <3>2
  <2>3. QED
    BY <1>1, <1>2, <1>3, <2>1, <2>2 DEF TypeInv
<1>5. PRInv'
  BY <1>1 DEF IInv, PRInv
<1>6. RunInv'
  <2>1. ASSUME NEW m \in Minors, NEW t \in Sigs, m >= latest - 1
        PROVE  Runs(main'.presubmits[m, t])
    <3>1. Runs(main.presubmits[m, t])
      BY <2>1 DEF IInv, RunInv
    <3>2. t \in AllSigs
      BY <1>2
    <3>3. CASE main'.presubmits[m, t] = main.presubmits[m, t]
      BY <3>1, <3>3
    <3>4. CASE main'.presubmits[m, t].optional
      BY <3>4 DEF Runs
    <3>5. QED
      BY <1>3, <3>2, <3>3, <3>4
  <2>2. QED
    BY <1>1, <2>1 DEF RunInv
<1>7. GateInv'
  <2>1. ASSUME patience = "required", NEW t \in Sigs
        PROVE  Gates(main'.presubmits[latest - 1, t])
    <3>1. latest - 1 \in Minors /\ latest - 1 # latest
      BY <1>2, BoundsAssumption DEF Minors
    <3>2. Gates(main.presubmits[latest - 1, t])
      BY <2>1 DEF IInv, GateInv
    <3>3. main'.presubmits[latest - 1, t] = main.presubmits[latest - 1, t]
      BY <1>2, <1>3, <3>1
    <3>4. QED
      BY <3>2, <3>3
  <2>2. QED
    BY <1>1, <2>1 DEF GateInv
<1>8. QED
  BY <1>4, <1>5, <1>6, <1>7 DEF IInv

\* Only the serial jobs move.
LEMMA SerialShape ==
    ASSUME TypeInv, NEW from \in Minors, MoveSerial(from)
    PROVE  /\ main' \in Configs
           /\ \A m \in Minors, t \in AllSigs :
                 t # Serial \/ (m # latest /\ m # from) => main'.presubmits[m, t] = main.presubmits[m, t]
<1> DEFINE old == main.presubmits
           there == [old EXCEPT ![<<latest, Serial>>] = old[from, Serial]]
           presubmits == [there EXCEPT ![<<from, Serial>>] = None]
<1>1. main' = [main EXCEPT !.presubmits[<<latest, Serial>>] = old[from, Serial],
                           !.presubmits[<<from, Serial>>] = None]
  BY DEF MoveSerial
<1>2. /\ main \in Configs /\ latest \in Minors /\ latest \in Nat /\ \A m \in Minors : m \in Nat
      /\ Sigs \subseteq AllSigs /\ Serial \in AllSigs /\ Serial \notin Sigs
  BY MinorsAre DEF TypeInv
<1>3. <<latest, Serial>> \in Minors \X AllSigs /\ <<from, Serial>> \in Minors \X AllSigs
  BY <1>2
<1>4. old \in [Minors \X AllSigs -> Job \cup {None}] /\ main = [presubmits |-> old, periodics |-> main.periodics]
      /\ main.periodics \in SUBSET (Minors \X Sigs)
  BY <1>2, ConfigsAre
<1>5. main' = [main EXCEPT !.presubmits = presubmits]
  BY <1>1, <1>2, <1>3, <1>4
<1>6. old[from, Serial] \in Job \cup {None}
  BY <1>3, <1>4
<1>7. /\ presubmits \in [Minors \X AllSigs -> Job \cup {None}]
      /\ \A j \in Minors \X AllSigs : j # <<latest, Serial>> /\ j # <<from, Serial>> => presubmits[j] = old[j]
  BY <1>3, <1>4, <1>6
<1> HIDE DEF presubmits
<1>8. ASSUME NEW m \in Minors, NEW t \in AllSigs, t # Serial \/ (m # latest /\ m # from)
      PROVE  presubmits[m, t] = old[m, t]
  <2>1. /\ <<m, t>> \in Minors \X AllSigs
        /\ <<m, t>> # <<latest, Serial>> /\ <<m, t>> # <<from, Serial>>
    BY <1>8
  <2>2. QED
    BY <1>7, <2>1
<1>9. main' \in Configs /\ main'.presubmits = presubmits
  BY <1>4, <1>5, <1>7 DEF Configs
<1>10. QED
  BY <1>8, <1>9

LEMMA MoveSerialIInv ==
    ASSUME IInv, NEW from \in Minors, MoveSerial(from)
    PROVE  IInv'
<1>1. Edit /\ patience' = patience /\ latest' = latest /\ pr' = pr /\ from < latest
  BY DEF MoveSerial
<1>2. /\ TypeInv /\ latest \in Minors /\ latest \in Nat /\ \A m \in Minors : m \in Nat
      /\ Sigs \subseteq AllSigs /\ Serial \notin Sigs
      /\ latest >= FirstMinor + 2 /\ edits \in 0..MaxEdits
  BY MinorsAre DEF IInv, TypeInv
<1>3. /\ main' \in Configs
      /\ \A m \in Minors, t \in AllSigs :
            t # Serial \/ (m # latest /\ m # from) => main'.presubmits[m, t] = main.presubmits[m, t]
  BY <1>2, SerialShape
<1>4. TypeInv'
  <2>1. edits' \in 0..MaxEdits
    BY <1>1, <1>2, BoundsAssumption DEF Edit
  <2>2. ASSUME NEW m \in Minors, NEW t \in AllSigs, m > latest
        PROVE  main'.presubmits[m, t] = None
    <3>1. m # latest /\ m # from
      BY <1>1, <1>2, <2>2
    <3>2. main.presubmits[m, t] = None
      BY <1>2, <2>2 DEF TypeInv
    <3>3. QED
      BY <1>3, <3>1, <3>2
  <2>3. QED
    BY <1>1, <1>2, <1>3, <2>1, <2>2 DEF TypeInv
<1>5. PRInv'
  BY <1>1 DEF IInv, PRInv
<1>6. \A m \in Minors, t \in Sigs : main'.presubmits[m, t] = main.presubmits[m, t]
  BY <1>2, <1>3
<1>7. RunInv'
  BY <1>1, <1>6 DEF IInv, RunInv
<1>8. GateInv'
  <2>1. latest - 1 \in Minors
    BY <1>2, BoundsAssumption DEF Minors
  <2>2. QED
    BY <1>1, <1>6, <2>1 DEF IInv, GateInv
<1>9. QED
  BY <1>4, <1>5, <1>7, <1>8 DEF IInv

LEMMA InitIInv ==
    ASSUME Init
    PROVE  IInv
<1> DEFINE presubmits == [j \in Minors \X AllSigs |->
                            IF j[1] = latest THEN Required
                            ELSE IF j[1] < latest /\ j[2] # Serial THEN BeforeMerge ELSE None]
<1>1. /\ patience \in Patiences /\ latest = FirstMinor + 2 /\ edits = 0
      /\ main = [presubmits |-> presubmits, periodics |-> (FirstMinor..latest) \X Sigs]
      /\ pr = [c \in Commands |-> None]
  BY DEF Init
<1>2. /\ latest \in Minors /\ latest \in Nat /\ FirstMinor \in Nat /\ latest - 1 \in Minors
      /\ \A m \in Minors : m \in Nat
      /\ Sigs \subseteq AllSigs /\ Serial \notin Sigs
      /\ FirstMinor..latest \subseteq Minors
  BY <1>1, MinorsAre, BoundsAssumption DEF Minors
<1>3. Required \in Job /\ BeforeMerge \in Job
  BY DEF Required, BeforeMerge, Job
<1>4. \A m \in Minors, s \in AllSigs :
         presubmits[m, s] = IF m = latest THEN Required
                            ELSE IF m < latest /\ s # Serial THEN BeforeMerge ELSE None
  OBVIOUS
<1>5. presubmits \in [Minors \X AllSigs -> Job \cup {None}]
  BY <1>3
<1> HIDE DEF presubmits
<1>6. main \in Configs /\ main.presubmits = presubmits
  <2>1. (FirstMinor..latest) \X Sigs \in SUBSET (Minors \X Sigs)
    BY <1>2
  <2>2. QED
    BY <1>1, <1>5, <2>1 DEF Configs
<1>7. Runs(Required) /\ Runs(BeforeMerge) /\ Runs(None) /\ Gates(BeforeMerge)
  BY <1>3, NoneAssumption DEF Runs, Gates, Required, BeforeMerge
<1>8. TypeInv
  <2>1. ASSUME NEW m \in Minors, NEW s \in AllSigs, m > latest
        PROVE  presubmits[m, s] = None
    <3>1. m # latest /\ ~(m < latest)
      BY <1>2, <2>1
    <3>2. QED
      BY <1>4, <3>1
  <2>2. edits \in 0..MaxEdits /\ latest >= FirstMinor + 2
    BY <1>1, <1>2, BoundsAssumption
  <2>3. pr \in [Commands -> [base : Configs, result : Configs] \cup {None}]
    BY <1>1
  <2>4. QED
    BY <1>1, <1>2, <1>6, <2>1, <2>2, <2>3 DEF TypeInv
<1>9. PRInv
  BY <1>1 DEF PRInv
<1>10. RunInv
  <2>1. ASSUME NEW m \in Minors, NEW s \in Sigs
        PROVE  Runs(presubmits[m, s])
    BY <1>2, <1>4, <1>7
  <2>2. QED
    BY <1>6, <2>1 DEF RunInv
<1>11. GateInv
  <2>1. ASSUME NEW s \in Sigs
        PROVE  presubmits[latest - 1, s] = BeforeMerge
    <3>1. latest - 1 # latest /\ latest - 1 < latest /\ s # Serial
      BY <1>2
    <3>2. QED
      BY <1>2, <1>4, <3>1
  <2>2. QED
    BY <1>6, <1>7, <2>1 DEF GateInv
<1>12. QED
  BY <1>8, <1>9, <1>10, <1>11 DEF IInv

LEMMA NextIInv ==
    ASSUME IInv, [Next]_vars
    PROVE  IInv'
<1>1. ASSUME NEW c \in Commands, Run(c) \/ Merge(c)
      PROVE  IInv'
  BY <1>1, RunIInv, MergeIInv
<1>2. CASE ReleaseKubernetes
  BY <1>2, ReleaseIInv
<1>3. ASSUME NEW s \in AllSigs, MakeOptional(s)
      PROVE  IInv'
  BY <1>3, MakeOptionalIInv
<1>4. ASSUME NEW from \in Minors, MoveSerial(from)
      PROVE  IInv'
  BY <1>4, MoveSerialIInv
<1>5. CASE UNCHANGED vars
  <2>1. patience' = patience /\ latest' = latest /\ main' = main /\ pr' = pr /\ edits' = edits
    BY <1>5 DEF vars
  <2>2. QED
    BY <2>1 DEF IInv, TypeInv, PRInv, RunInv, GateInv
<1>6. QED
  BY <1>1, <1>2, <1>3, <1>4, <1>5 DEF Next

LEMMA Invariant == Spec => []IInv
<1>1. Init => IInv
  BY InitIInv
<1>2. IInv /\ [Next]_vars => IInv'
  BY NextIInv
<1>3. QED
  BY <1>1, <1>2, PTL DEF Spec

-----------------------------------------------------------------------------
\* No job is there for a minor that is not out, and a proposal changes something.
THEOREM Types == Spec => []TypeOK
<1>1. IInv => TypeOK
  <2> SUFFICES ASSUME IInv
               PROVE  TypeOK
    OBVIOUS
  <2>1. TypeInv /\ PRInv
    BY DEF IInv
  <2>2. ASSUME NEW c \in Commands, pr[c] # None
        PROVE  pr[c].base \in Configs /\ pr[c].result \in Configs /\ pr[c].base # pr[c].result
    BY <2>1, <2>2 DEF PRInv, Sound
  <2>3. QED
    BY <2>1, <2>2 DEF TypeInv, TypeOK
<1>2. QED
  BY <1>1, Invariant, PTL

\* While Kubernetes waits for required jobs, a merge that takes a sig's gate leaves
\* it a gating successor: that of the minor before the latest.
THEOREM GatesHandedOver == Spec => GatesHandOver
<1>1. ASSUME IInv, [Next]_vars, patience = "required", Merging,
             NEW m \in Minors, NEW s \in Sigs, Gates(main.presubmits[m, s]), ~Gates(main'.presubmits[m, s])
      PROVE  \E n \in Minors : n > m /\ Gates(main'.presubmits[n, s])
  <2>1. PICK c \in Commands : Merge(c)
    BY <1>1 DEF Merging
  <2>2. Allowed(main.presubmits[m, s], main'.presubmits[m, s], m, latest)
    BY <1>1, <2>1, MergeKeeps
  <2>3. m <= latest - 3
    BY <1>1, <2>2 DEF Allowed
  <2>4. /\ latest' = latest /\ patience' = patience /\ latest \in Nat /\ m \in Nat
        /\ latest \in Minors /\ latest >= FirstMinor + 2
    BY <1>1, <2>1, MinorsAre DEF Merge, IInv, TypeInv
  <2>5. latest - 1 \in Minors /\ latest - 1 > m
    BY <2>3, <2>4, BoundsAssumption DEF Minors
  <2>6. IInv'
    BY <1>1, NextIInv
  <2>7. Gates(main'.presubmits[latest - 1, s])
    BY <1>1, <2>4, <2>6 DEF IInv, GateInv
  <2>8. QED
    BY <2>5, <2>7
<1>2. IInv /\ [Next]_vars =>
         [patience = "required" /\ Merging =>
            \A m \in Minors, s \in Sigs :
               Gates(main.presubmits[m, s]) /\ ~Gates(main'.presubmits[m, s])
                 => \E n \in Minors : n > m /\ Gates(main'.presubmits[n, s])]_vars
  BY <1>1
<1>3. QED
  BY <1>2, Invariant, PTL DEF Spec, GatesHandOver

\* Edits take no job of the sigs, and a merge only those out of support.
THEOREM SupportedJobsStay == Spec => SupportedStay
<1>1. ASSUME IInv, [Next]_vars, NEW m \in Minors, NEW s \in Sigs,
             main.presubmits[m, s] # None, main'.presubmits[m, s] = None
      PROVE  m <= latest - 3
  <2>1. CASE \E c \in Commands : Merge(c)
    <3>1. PICK c \in Commands : Merge(c)
      BY <2>1
    <3>2. Allowed(main.presubmits[m, s], main'.presubmits[m, s], m, latest)
      BY <1>1, <3>1, MergeKeeps
    <3>3. QED
      BY <1>1, <3>2 DEF Allowed
  <2>2. CASE main' = main
    BY <1>1, <2>2
  <2>3. ASSUME NEW t \in AllSigs, MakeOptional(t)
        PROVE  FALSE
    <3>1. TypeInv /\ s \in AllSigs
      BY <1>1, MinorsAre DEF IInv
    <3>2. main'.presubmits[m, s] \in Job
      BY <1>1, <2>3, <3>1, OptionalShape
    <3>3. QED
      BY <1>1, <3>2, NoneAssumption
  <2>4. ASSUME NEW from \in Minors, MoveSerial(from)
        PROVE  FALSE
    <3>1. TypeInv /\ s \in AllSigs /\ s # Serial
      BY <1>1, MinorsAre DEF IInv
    <3>2. main'.presubmits[m, s] = main.presubmits[m, s]
      BY <2>4, <3>1, SerialShape
    <3>3. QED
      BY <1>1, <3>2
  <2>5. QED
    BY <1>1, <2>1, <2>2, <2>3, <2>4 DEF Next, Run, ReleaseKubernetes, vars
<1>2. IInv /\ [Next]_vars =>
         [\A m \in Minors, s \in Sigs :
            main.presubmits[m, s] # None /\ main'.presubmits[m, s] = None => m <= latest - 3]_vars
  BY <1>1
<1>3. QED
  BY <1>2, Invariant, PTL DEF Spec, SupportedStay

\* A merge makes a job gate only where it ran on every pull request before.
THEOREM TriedFirst == Spec => TriedBeforeRequired
<1>1. ASSUME IInv, Merging, NEW m \in Minors, NEW s \in Sigs,
             Gates(main'.presubmits[m, s]), ~Gates(main.presubmits[m, s])
      PROVE  main.presubmits[m, s] # None /\ main.presubmits[m, s].alwaysRun
  <2>1. PICK c \in Commands : Merge(c)
    BY <1>1 DEF Merging
  <2>2. Allowed(main.presubmits[m, s], main'.presubmits[m, s], m, latest)
    BY <1>1, <2>1, MergeKeeps
  <2>3. QED
    BY <1>1, <2>2 DEF Allowed
<1>2. IInv /\ [Next]_vars =>
         [Merging =>
            \A m \in Minors, s \in Sigs :
               Gates(main'.presubmits[m, s]) /\ ~Gates(main.presubmits[m, s])
                 => main.presubmits[m, s] # None /\ main.presubmits[m, s].alwaysRun]_vars
  BY <1>1
<1>3. QED
  BY <1>2, Invariant, PTL DEF Spec, TriedBeforeRequired
=============================================================================
