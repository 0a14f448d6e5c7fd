-------------------------- MODULE JobPluginsProofs --------------------------
(***************************************************************************)
(* Who may, gets rehearsals; the last head is tested; a closed pull        *)
(* request is not rehearsed on old consent: for any jobs, files, people,   *)
(* settings, pushes, comments and labels.                                  *)
(***************************************************************************)
EXTENDS JobPlugins, SequenceTheorems, TLAPS

Updates == {"opened", "synchronize"}
Events == [action : Updates \cup {"closed", "comment"}, user : Users, comment : Comments \cup {NoComment},
           head : Nat, read : Nat, pc : {"pull", "authorise", "remove", "load", Done},
           consented : BOOLEAN]

\* As TypeOK, with the whole of the records; every head but the first came with
\* a webhook, and a goroutine decides about what it has read.
TypeInv ==
    /\ setting \in Settings /\ Starts(setting)
    /\ heads \in Seq(Contents) /\ last \in 1..MaxEvents
    /\ last = 1 \/ last <= Len(handlers)
    /\ state \in {"open", "closed", "merged"}
    /\ mergeable \in BOOLEAN /\ consent \in BOOLEAN
    /\ handlers \in Seq(Events) /\ Len(handlers) \in 0..MaxEvents
    /\ \A h \in DOMAIN handlers :
          /\ handlers[h].head \in 1..last /\ handlers[h].read \in 0..last
          /\ handlers[h].read # 0 => handlers[h].read >= handlers[h].head
          /\ handlers[h].pc \in {"authorise", "load"} => handlers[h].read # 0
    /\ \A j \in prowjobs :
          /\ j.event \in DOMAIN handlers /\ j.head \in 1..last
          /\ j.threshold \in IF setting.plugin = "coverage" THEN 1..100 ELSE {0}
    /\ failures \in 0..MaxFailures /\ labelChanges \in 0..MaxLabelChanges
    /\ labelledAt \in 0..Len(handlers) /\ closedAt \in 0..Len(handlers)

\* The updates are the author's and ask for nothing; one of them brought the last head;
\* a closing is not rehearsed.
UpdateInv ==
    /\ \A h \in DOMAIN handlers : handlers[h].action # "comment" =>
          handlers[h].user = setting.author /\ handlers[h].comment = NoComment
    /\ handlers # <<>> =>
          \E h \in DOMAIN handlers : handlers[h].action \in Updates /\ handlers[h].head = last
    /\ \A h \in DOMAIN handlers :
          setting.plugin = "rehearse" /\ handlers[h].pc \in {"authorise", "load"} =>
             handlers[h].action # "closed"
    /\ \A h \in DOMAIN handlers : handlers[h].pc = "remove" => handlers[h].action = "closed"

\* While the label is there nobody waits without it, and who is let through may pass.
EntitledInv ==
    /\ \A h \in DOMAIN handlers : consent /\ handlers[h].pc # Done => handlers[h].consented
    /\ \A h \in DOMAIN handlers :
          setting.plugin = "rehearse" /\ handlers[h].pc = "load" =>
             canUserRehearse(handlers[h].user, heads[handlers[h].read].files, handlers[h].consented)

\* Unless a call failed, the webhook of the closing is still to remove an older consent.
ConsentInv ==
    failures = 0 /\ setting.plugin = "rehearse" /\ setting.alwaysRun /\ state # "open" =>
        /\ closedAt \in DOMAIN handlers /\ handlers[closedAt].action = "closed"
        /\ consent /\ labelledAt < closedAt => handlers[closedAt].pc \in {"pull", "remove"}

\* A coverage job of the last head is due, and made once its webhook is handled.
CoverageInv ==
    setting.plugin = "coverage" =>
        /\ \A h \in DOMAIN handlers : handlers[h].action # "comment"
        /\ \A j \in prowjobs : j.head = last => heads[last].files \cap GoFiles # {}
        /\ failures = 0 /\ ~setting.dryRun /\ heads[last].files \cap GoFiles # {} =>
              \A h \in DOMAIN handlers :
                 handlers[h].action \in Updates /\ handlers[h].head = last /\ handlers[h].pc = Done =>
                    \E j \in prowjobs : j.event = h /\ j.head = last

Changed(c) == {p \in Presubmits : ~p.restricted /\ c.version[p] = "changed"}
Names(jobs) == {p.name : p \in jobs}
AuthorMay(c) == setting.author \in Members /\ \A f \in c.files : setting.author \in LeafApprovers[f]

\* The rehearsals for an update are of jobs its head changes, and all of them
\* are made once the webhook of the last head is handled.
RehearsalInv ==
    setting.plugin = "rehearse" =>
        /\ \A j \in prowjobs : handlers[j.event].action # "comment" =>
              j.target.name \in Names(Changed(heads[j.head]))
        /\ failures = 0 /\ setting.alwaysRun /\ AuthorMay(heads[last]) =>
              \A h \in DOMAIN handlers :
                 handlers[h].action \in Updates /\ handlers[h].head = last /\ handlers[h].pc = Done =>
                    \A name \in Names(Changed(heads[last])) :
                       \E j \in prowjobs : j.event = h /\ j.head = last /\ j.target.name = name

IInv ==
    /\ TypeInv /\ UpdateInv /\ EntitledInv /\ RehearsalsAreEntitled
    /\ ConsentInv /\ CoverageInv /\ RehearsalInv

-----------------------------------------------------------------------------
LEMMA Handled ==
    ASSUME TypeInv
    PROVE  /\ DOMAIN handlers = 1..Len(handlers) /\ Len(handlers) \in Nat
           /\ \A h \in DOMAIN handlers : handlers[h] \in Events
           /\ handlers = <<>> <=> DOMAIN handlers = {}
           /\ handlers = <<>> <=> Len(handlers) = 0
BY DEF TypeInv

\* A new webhook.
LEMMA DeliverShape ==
    ASSUME TypeInv, NEW w \in Events, Deliver(w)
    PROVE  /\ handlers' \in Seq(Events) /\ Len(handlers') = Len(handlers) + 1
           /\ DOMAIN handlers' = DOMAIN handlers \cup {Len(handlers) + 1}
           /\ \A h \in DOMAIN handlers : handlers'[h] = handlers[h]
           /\ handlers'[Len(handlers) + 1] = w
           /\ Len(handlers) + 1 \notin DOMAIN handlers
<1>1. handlers \in Seq(Events)
  BY DEF TypeInv
<1>2. QED
  BY <1>1, AppendProperties, LenProperties DEF Deliver

\* A goroutine goes on, perhaps with the pull request as it is.
Goes(h, pc) ==
    /\ handlers' \in Seq(Events) /\ Len(handlers') = Len(handlers)
    /\ DOMAIN handlers' = DOMAIN handlers
    /\ \A i \in DOMAIN handlers \ {h} : handlers'[i] = handlers[i]
    /\ \A f \in {"action", "user", "comment", "head", "consented"} : handlers'[h][f] = handlers[h][f]
    /\ handlers'[h].pc = pc

LEMMA GoToShape ==
    ASSUME TypeInv, NEW h \in DOMAIN handlers,
           NEW pc \in {"pull", "authorise", "remove", "load", Done}, GoTo(h, pc)
    PROVE  Goes(h, pc) /\ handlers'[h].read = handlers[h].read
<1>1. handlers[h] \in Events /\ handlers \in Seq(Events) /\ h \in 1..Len(handlers)
  BY Handled DEF TypeInv
<1> DEFINE e == [handlers[h] EXCEPT !.pc = pc]
<1>2. handlers' = [handlers EXCEPT ![h] = e]
  BY DEF GoTo
<1>3. /\ e \in Events
      /\ \A f \in {"action", "user", "comment", "head", "consented"} : e[f] = handlers[h][f]
      /\ e.pc = pc /\ e.read = handlers[h].read
  BY <1>1 DEF Events
<1> HIDE DEF e
<1>4. /\ handlers' \in Seq(Events) /\ Len(handlers') = Len(handlers)
      /\ \A i \in 1..Len(handlers) : handlers'[i] = IF i = h THEN e ELSE handlers[i]
  BY <1>1, <1>2, <1>3, ExceptSeq
<1>5. QED
  BY <1>1, <1>3, <1>4, LenProperties DEF Goes

LEMMA ReadShape ==
    ASSUME TypeInv, NEW h \in DOMAIN handlers,
           NEW pc \in {"pull", "authorise", "remove", "load", Done}, Read(h, pc)
    PROVE  Goes(h, pc) /\ handlers'[h].read = last
<1>1. handlers[h] \in Events /\ handlers \in Seq(Events) /\ h \in 1..Len(handlers) /\ last \in Nat
  BY Handled DEF TypeInv
<1> DEFINE e == [handlers[h] EXCEPT !.pc = pc, !.read = last]
<1>2. handlers' = [handlers EXCEPT ![h] = e]
  BY <1>1 DEF Read
<1>3. /\ e \in Events
      /\ \A f \in {"action", "user", "comment", "head", "consented"} : e[f] = handlers[h][f]
      /\ e.pc = pc /\ e.read = last
  BY <1>1 DEF Events
<1> HIDE DEF e
<1>4. /\ handlers' \in Seq(Events) /\ Len(handlers') = Len(handlers)
      /\ \A i \in 1..Len(handlers) : handlers'[i] = IF i = h THEN e ELSE handlers[i]
  BY <1>1, <1>2, <1>3, ExceptSeq
<1>5. QED
  BY <1>1, <1>3, <1>4, LenProperties DEF Goes

\* The label is noticed by all who are not done.
LEMMA LabelShape ==
    ASSUME TypeInv, Label
    PROVE  /\ handlers' \in Seq(Events) /\ Len(handlers') = Len(handlers)
           /\ DOMAIN handlers' = DOMAIN handlers
           /\ \A h \in DOMAIN handlers :
                 /\ \A f \in {"action", "user", "comment", "head", "read", "pc"} : handlers'[h][f] = handlers[h][f]
                 /\ handlers'[h].consented = (handlers[h].consented \/ (~consent /\ handlers[h].pc # Done))
<1> DEFINE e(h) == [handlers[h] EXCEPT !.consented = @ \/ (consent' /\ handlers[h].pc # Done)]
<1>1. handlers' = [h \in DOMAIN handlers |-> e(h)] /\ consent' = ~consent /\ consent \in BOOLEAN
  BY DEF Label, TypeInv
<1>2. ASSUME NEW h \in DOMAIN handlers
      PROVE  /\ e(h) \in Events
             /\ \A f \in {"action", "user", "comment", "head", "read", "pc"} : e(h)[f] = handlers[h][f]
             /\ e(h).consented = (handlers[h].consented \/ (~consent /\ handlers[h].pc # Done))
  <2>1. handlers[h] \in Events
    BY Handled
  <2>2. QED
    BY <1>1, <2>1 DEF Events
<1> HIDE DEF e
<1>3. handlers' \in [1..Len(handlers) -> Events] /\ Len(handlers) \in Nat
  BY <1>1, <1>2, Handled
<1>4. handlers' \in Seq(Events) /\ DOMAIN handlers' = 1..Len(handlers)
  BY <1>3, SeqDef
<1>5. Len(handlers') = Len(handlers)
  BY <1>3, <1>4, LenProperties
<1>6. QED
  BY <1>1, <1>2, <1>4, <1>5, Handled

-----------------------------------------------------------------------------
\* The jobs of the changed files that are not as on main are those the head changes.
LEMMA PresubmitsAreChanged ==
    ASSUME NEW c \in Contents
    PROVE  generatePresubmits(c) = Changed(c)
<1> DEFINE files == modifiedJobConfigs(c)
           onMain == [p \in Presubmits |-> p.onBase]
           headConfigs == loadConfigsAtRef(files, c.version)
           baseConfigs == loadConfigsAtRef(files, onMain)
<1>1. ASSUME NEW f \in files
      PROVE  /\ headConfigs[f] = {<<p, c.version[p]>> : p \in {q \in Presubmits : q.file = f /\ c.version[q] # "absent"}}
             /\ baseConfigs[f] = {<<p, p.onBase>> : p \in {q \in Presubmits : q.file = f /\ q.onBase # "absent"}}
  BY DEF loadConfigsAtRef
<1>2. ASSUME NEW p \in Presubmits, NEW f \in files
      PROVE  <<p, c.version[p]>> \in headConfigs[f] \ baseConfigs[f]
                <=> p.file = f /\ c.version[p] = "changed"
  <2>1. <<p, c.version[p]>> \in headConfigs[f] <=> p.file = f /\ c.version[p] # "absent"
    BY <1>1, <1>2
  <2>2. <<p, c.version[p]>> \in baseConfigs[f] <=> p.file = f /\ p.onBase # "absent" /\ c.version[p] = p.onBase
    BY <1>1, <1>2
  <2>3. /\ c.version[p] \in {"absent", "base", "changed"} /\ p.onBase \in {"absent", "base"}
        /\ c.version[p] = "base" => p.onBase = "base"
    BY <1>2, ContentsAssumption
  <2>4. QED
    BY <2>1, <2>2, <2>3
<1>3. ASSUME NEW p \in Presubmits, c.version[p] = "changed"
      PROVE  p.file \in files
  BY <1>3, ContentsAssumption, FilesAssumption DEF modifiedJobConfigs
<1>4. generatePresubmits(c) = {p \in Presubmits : ~p.restricted /\ \E f \in files :
            <<p, c.version[p]>> \in headConfigs[f] \ baseConfigs[f]}
  BY DEF generatePresubmits
<1> HIDE DEF files, headConfigs, baseConfigs
<1>5. QED
  BY <1>2, <1>3, <1>4 DEF Changed

\* Every job to rehearse has a target, and the targets its name.
LEMMA RehearsalNames ==
    ASSUME NEW c \in Contents
    PROVE  /\ \A t \in rehearsals(c, NoComment) : t.name \in Names(Changed(c))
           /\ \A name \in Names(Changed(c)) : \E t \in rehearsals(c, NoComment) : t.name = name
<1>1. rehearsals(c, NoComment) = UNION {targetsOf(p) : p \in Changed(c)}
  BY PresubmitsAreChanged DEF rehearsals, filterProwJobsByJobNames, extractJobNames, NoComment
<1>2. ASSUME NEW p
      PROVE  /\ \A t \in targetsOf(p) : t.name = p.name
             /\ \E t \in targetsOf(p) : t.name = p.name
  <2> DEFINE branches == IF p.branches = {} THEN {HEAD} ELSE p.branches
             target(b) == [name |-> p.name, branch |-> b, refs |-> makeTargetRepoRefs(p)]
  <2>1. targetsOf(p) = {target(b) : b \in branches}
    BY DEF targetsOf
  <2>2. PICK b \in branches : TRUE
    OBVIOUS
  <2>3. \A x : target(x).name = p.name
    OBVIOUS
  <2> HIDE DEF branches, target
  <2>4. QED
    BY <2>1, <2>2, <2>3
<1>3. QED
  BY <1>1, <1>2 DEF Names

\* RepoConfig yields a threshold that is a percentage, of settings the plugin starts with.
LEMMA ThresholdIsPercentage ==
    ASSUME setting \in Settings, Starts(setting), setting.plugin = "coverage"
    PROVE  RepoConfig(setting)["threshold"] \in 1..100
<1>1. setting.defaults["threshold"] \in 0..100 /\ setting.repo["threshold"] \in 0..100
  BY DEF Starts, validConfig
<1>2. Defaulted(setting.defaults)["threshold"] \in 1..100
  BY <1>1 DEF Defaulted, Fields
<1>3. QED
  BY <1>1, <1>2 DEF RepoConfig, Fields

-----------------------------------------------------------------------------
\* A goroutine goes on: its job, if it makes one, is fit, and what it answers last is complete.
Fit(j, h) ==
    /\ j.event = h /\ j.head \in 1..last
    /\ j.threshold \in IF setting.plugin = "coverage" THEN 1..100 ELSE {0}
    /\ setting.plugin = "rehearse" /\ handlers[h].action = "comment" =>
          canUserRehearse(handlers[h].user, heads[j.head].files, handlers[h].consented)
    /\ setting.plugin = "rehearse" /\ handlers[h].action # "comment" =>
          j.target.name \in Names(Changed(heads[j.head]))
    /\ setting.plugin = "coverage" /\ j.head = last => heads[last].files \cap GoFiles # {}

Complete(h) ==
    failures' = 0 /\ handlers[h].action \in Updates /\ handlers[h].head = last =>
        /\ setting.plugin = "coverage" /\ ~setting.dryRun /\ heads[last].files \cap GoFiles # {} =>
              \E j \in prowjobs' : j.event = h /\ j.head = last
        /\ setting.plugin = "rehearse" /\ setting.alwaysRun /\ AuthorMay(heads[last]) =>
              \A name \in Names(Changed(heads[last])) :
                 \E j \in prowjobs' : j.event = h /\ j.head = last /\ j.target.name = name

Proceeds(h, pc) ==
    /\ h \in DOMAIN handlers /\ handlers[h].pc # Done /\ Goes(h, pc)
    /\ UNCHANGED <<setting, heads, state, mergeable, labelChanges, labelledAt, closedAt>>
    /\ consent' = consent \/ consent' = FALSE
    /\ failures' \in 0..MaxFailures /\ failures' >= failures
    /\ handlers'[h].read \in {handlers[h].read, last}
    /\ pc \in {"authorise", "load"} => handlers'[h].read # 0
    /\ setting.plugin = "rehearse" /\ pc \in {"authorise", "load"} => handlers[h].action # "closed"
    /\ pc = "remove" => handlers[h].action = "closed"
    /\ setting.plugin = "rehearse" /\ pc = "load" =>
          canUserRehearse(handlers[h].user, heads[handlers'[h].read].files, handlers[h].consented)
    /\ setting.plugin = "rehearse" /\ handlers[h].action = "closed" /\ failures' = 0 /\ consent' =>
          pc \in {"pull", "remove"}
    /\ prowjobs \subseteq prowjobs' /\ \A j \in prowjobs' \ prowjobs : Fit(j, h)
    /\ pc = Done => Complete(h)

LEMMA MayIsEntitled ==
    ASSUME NEW user, NEW c \in Contents, NEW labelled \in BOOLEAN
    PROVE  canUserRehearse(user, c.files, labelled) <=>
              \/ user \in TopLevel
              \/ /\ {user, setting.author} \subseteq Members
                 /\ labelled \/ c.files \subseteq {f \in ConfigFiles \cup GoFiles : user \in LeafApprovers[f]}
BY ContentsAssumption DEF canUserRehearse

LEMMA ProceedsIInv ==
    ASSUME IInv, NEW h, NEW pc, Proceeds(h, pc)
    PROVE  IInv'
<1> USE DEF IInv
<1>1. /\ DOMAIN handlers' = DOMAIN handlers /\ DOMAIN handlers = 1..Len(handlers)
      /\ \A i \in DOMAIN handlers : /\ handlers[i] \in Events /\ handlers'[i] \in Events
                                    /\ handlers'[i].action = handlers[i].action
                                    /\ handlers'[i].user = handlers[i].user
                                    /\ handlers'[i].comment = handlers[i].comment
                                    /\ handlers'[i].head = handlers[i].head
                                    /\ handlers'[i].consented = handlers[i].consented
                                    /\ i # h => handlers'[i] = handlers[i]
      /\ h \in DOMAIN handlers /\ handlers[h].pc # Done /\ handlers'[h].pc = pc
      /\ handlers' \in Seq(Events) /\ Len(handlers') = Len(handlers)
      /\ handlers = <<>> <=> handlers' = <<>>
  <2>1. handlers' \in Seq(Events) /\ handlers \in Seq(Events)
    BY DEF Proceeds, Goes, TypeInv
  <2>2. QED
    BY <2>1, LenProperties, ElementOfSeq DEF Proceeds, Goes
<1>0. heads \in Seq(Contents) /\ last \in Nat \ {0} /\ \A i \in 1..last : heads[i] \in Contents
  BY ElementOfSeq, BoundsAssumption DEF TypeInv, last
<1>2. /\ setting' = setting /\ heads' = heads /\ state' = state /\ mergeable' = mergeable
      /\ labelChanges' = labelChanges /\ labelledAt' = labelledAt /\ closedAt' = closedAt
      /\ last' = last
      /\ consent \in BOOLEAN /\ (consent' => consent) /\ consent' \in BOOLEAN
      /\ failures \in Nat /\ failures' \in Nat /\ (failures' = 0 => failures = 0)
      /\ prowjobs \subseteq prowjobs' /\ \A j \in prowjobs' \ prowjobs : Fit(j, h)
  <2>1. /\ setting' = setting /\ heads' = heads /\ state' = state /\ mergeable' = mergeable
        /\ labelChanges' = labelChanges /\ labelledAt' = labelledAt /\ closedAt' = closedAt
        /\ prowjobs \subseteq prowjobs' /\ \A j \in prowjobs' \ prowjobs : Fit(j, h)
    BY DEF Proceeds
  <2>2. last' = last
    BY <2>1 DEF last
  <2>3. consent \in BOOLEAN /\ (consent' => consent) /\ consent' \in BOOLEAN
    <3>1. consent' = consent \/ consent' = FALSE
      BY DEF Proceeds
    <3>2. consent \in BOOLEAN
      BY DEF TypeInv
    <3>3. CASE consent' = consent
      BY <3>2, <3>3
    <3>4. CASE consent' = FALSE
      BY <3>2, <3>4
    <3>5. QED
      BY <3>1, <3>3, <3>4
  <2>4. failures \in Nat /\ failures' \in Nat /\ (failures' = 0 => failures = 0)
    BY BoundsAssumption DEF Proceeds, TypeInv
  <2>5. QED
    BY <2>1, <2>2, <2>3, <2>4
<1>3. TypeInv'
  <2>1. ASSUME NEW i \in DOMAIN handlers
        PROVE  /\ handlers'[i].head \in 1..last /\ handlers'[i].read \in 0..last
               /\ handlers'[i].read # 0 => handlers'[i].read >= handlers'[i].head
               /\ handlers'[i].pc \in {"authorise", "load"} => handlers'[i].read # 0
    <3>1. /\ handlers[i].head \in 1..last /\ handlers[i].read \in 0..last
          /\ handlers[i].read # 0 => handlers[i].read >= handlers[i].head
          /\ handlers[i].pc \in {"authorise", "load"} => handlers[i].read # 0
      BY <2>1 DEF TypeInv
    <3>2. handlers'[h].read \in {handlers[h].read, last} /\ (pc \in {"authorise", "load"} => handlers'[h].read # 0)
      BY DEF Proceeds
    <3>3. QED
      BY <1>0, <1>1, <3>1, <3>2
  <2>2. ASSUME NEW j \in prowjobs'
        PROVE  /\ j.event \in DOMAIN handlers /\ j.head \in 1..last
               /\ j.threshold \in IF setting.plugin = "coverage" THEN 1..100 ELSE {0}
    BY <1>0, <1>1, <1>2, <2>2 DEF TypeInv, Fit
  <2>3. Starts(setting)' <=> Starts(setting)
    BY <1>2 DEF Starts, validConfig, Defaulted
  <2>4. QED
    BY <1>0, <1>1, <1>2, <2>1, <2>2, <2>3 DEF TypeInv, Proceeds
<1>4. UpdateInv'
  <2>1. ASSUME NEW i \in DOMAIN handlers, setting.plugin = "rehearse", handlers'[i].pc \in {"authorise", "load"}
        PROVE  handlers[i].action # "closed"
    BY <1>1, <2>1 DEF UpdateInv, Proceeds
  <2>2. ASSUME NEW i \in DOMAIN handlers, handlers'[i].pc = "remove"
        PROVE  handlers[i].action = "closed"
    BY <1>1, <2>2 DEF UpdateInv, Proceeds
  <2>3. QED
    BY <1>1, <1>2, <2>1, <2>2 DEF UpdateInv
<1>5. EntitledInv'
  <2>1. ASSUME NEW i \in DOMAIN handlers, consent', handlers'[i].pc # Done
        PROVE  handlers'[i].consented
    BY <1>0, <1>1, <1>2, <2>1 DEF EntitledInv
  <2>2. ASSUME NEW i \in DOMAIN handlers, setting.plugin = "rehearse", handlers'[i].pc = "load"
        PROVE  canUserRehearse(handlers[i].user, heads[handlers'[i].read].files, handlers[i].consented)
    BY <1>0, <1>1, <1>2, <2>2 DEF EntitledInv, Proceeds
  <2>3. QED
    BY <1>0, <1>1, <1>2, <2>1, <2>2 DEF EntitledInv, canUserRehearse
<1>6. RehearsalsAreEntitled'
  <2>1. ASSUME NEW j \in prowjobs', setting.plugin = "rehearse", handlers[j.event].action = "comment"
        PROVE  /\ j.event \in DOMAIN handlers
               /\ \/ handlers[j.event].user \in TopLevel
                  \/ /\ {handlers[j.event].user, setting.author} \subseteq Members
                     /\ \/ handlers[j.event].consented
                        \/ heads[j.head].files \subseteq {f \in ConfigFiles \cup GoFiles : handlers[j.event].user \in LeafApprovers[f]}
    <3>1. CASE j \in prowjobs
      BY <2>1, <3>1 DEF RehearsalsAreEntitled, TypeInv
    <3>2. CASE j \notin prowjobs
      <4>1. /\ j.event = h /\ j.head \in 1..last
            /\ canUserRehearse(handlers[h].user, heads[j.head].files, handlers[h].consented)
        BY <1>2, <2>1, <3>2 DEF Fit
      <4>2. heads[j.head] \in Contents /\ handlers[h].consented \in BOOLEAN
        BY <1>0, <1>1, <1>2, <4>1 DEF Events
      <4>3. QED
        BY <1>1, <4>1, <4>2, MayIsEntitled
    <3>3. QED
      BY <3>1, <3>2
  <2>2. \A j \in prowjobs' :
           setting'.plugin = "rehearse" /\ handlers'[j.event].action = "comment" =>
              \/ handlers'[j.event].user \in TopLevel
              \/ /\ {handlers'[j.event].user, setting'.author} \subseteq Members
                 /\ \/ handlers'[j.event].consented
                    \/ heads'[j.head].files \subseteq {f \in ConfigFiles \cup GoFiles : handlers'[j.event].user \in LeafApprovers[f]}
    <3> SUFFICES ASSUME NEW j \in prowjobs', setting.plugin = "rehearse", handlers'[j.event].action = "comment"
                 PROVE  \/ handlers'[j.event].user \in TopLevel
                        \/ /\ {handlers'[j.event].user, setting.author} \subseteq Members
                           /\ \/ handlers'[j.event].consented
                              \/ heads[j.head].files \subseteq {f \in ConfigFiles \cup GoFiles : handlers'[j.event].user \in LeafApprovers[f]}
      BY <1>2
    <3>1. j.event \in DOMAIN handlers
      BY <1>1, <1>2, <1>3 DEF TypeInv
    <3>2. QED
      BY <1>1, <2>1, <3>1
  <2>3. QED
    BY <2>2 DEF RehearsalsAreEntitled
<1>7. ConsentInv'
  BY <1>0, <1>1, <1>2 DEF ConsentInv, Proceeds
<1>8. CoverageInv'
  <2> SUFFICES ASSUME setting.plugin = "coverage"
               PROVE  CoverageInv'
    BY <1>2 DEF CoverageInv
  <2>1. \A j \in prowjobs' : j.head = last => heads[last].files \cap GoFiles # {}
    BY <1>2 DEF CoverageInv, Fit
  <2>2. ASSUME failures' = 0, ~setting.dryRun, heads[last].files \cap GoFiles # {}, NEW i \in DOMAIN handlers,
               handlers[i].action \in Updates, handlers[i].head = last, handlers'[i].pc = Done
        PROVE  \E j \in prowjobs' : j.event = i /\ j.head = last
    BY <1>0, <1>1, <1>2, <2>2 DEF CoverageInv, Complete, Proceeds
  <2>3. QED
    BY <1>0, <1>1, <1>2, <2>1, <2>2 DEF CoverageInv
<1>9. RehearsalInv'
  <2> SUFFICES ASSUME setting.plugin = "rehearse"
               PROVE  RehearsalInv'
    BY <1>2 DEF RehearsalInv
  <2>1. ASSUME NEW j \in prowjobs', handlers[j.event].action # "comment"
        PROVE  j.event \in DOMAIN handlers /\ j.target.name \in Names(Changed(heads[j.head]))
    BY <1>0, <1>1, <1>2, <2>1 DEF RehearsalInv, Fit, TypeInv
  <2>2. ASSUME failures' = 0, setting.alwaysRun, AuthorMay(heads[last]), NEW i \in DOMAIN handlers,
               handlers[i].action \in Updates, handlers[i].head = last, handlers'[i].pc = Done,
               NEW name \in Names(Changed(heads[last]))
        PROVE  \E j \in prowjobs' : j.event = i /\ j.head = last /\ j.target.name = name
    <3>1. CASE i = h
      BY <1>0, <1>1, <1>2, <2>2, <3>1 DEF Complete, Proceeds
    <3>2. CASE i # h
      <4>1. handlers[i].pc = Done /\ failures = 0
        BY <1>1, <1>2, <2>2, <3>2
      <4>2. \E j \in prowjobs : j.event = i /\ j.head = last /\ j.target.name = name
        BY <2>2, <4>1 DEF RehearsalInv
      <4>3. QED
        BY <1>2, <4>2
    <3>3. QED
      BY <3>1, <3>2
  <2>3. \A j \in prowjobs' : handlers'[j.event].action # "comment" =>
           j.target.name \in Names(Changed(heads'[j.head]))
    BY <1>1, <1>2, <1>3, <2>1 DEF TypeInv
  <2>4. failures' = 0 /\ setting'.alwaysRun /\ AuthorMay(heads[last])' =>
           \A i \in DOMAIN handlers' :
              handlers'[i].action \in Updates /\ handlers'[i].head = last' /\ handlers'[i].pc = Done =>
                 \A name \in Names(Changed(heads'[last'])) :
                    \E j \in prowjobs' : j.event = i /\ j.head = last' /\ j.target.name = name
    <3>1. AuthorMay(heads[last])' <=> AuthorMay(heads[last])
      BY <1>2 DEF AuthorMay
    <3>2. QED
      BY <1>1, <1>2, <2>2, <3>1
  <2>5. QED
    BY <2>3, <2>4 DEF RehearsalInv
<1>10. QED
  BY <1>3, <1>4, <1>5, <1>6, <1>7, <1>8, <1>9

\* Create makes a job of every target, and no other, or a failure is counted.
LEMMA Creates ==
    ASSUME TypeInv, NEW h \in DOMAIN handlers, NEW head, NEW targets, NEW threshold,
           Create(h, head, targets, threshold)
    PROVE  /\ Goes(h, Done) /\ handlers'[h].read = handlers[h].read
           /\ UNCHANGED <<setting, heads, state, mergeable, consent, labelChanges, labelledAt, closedAt>>
           /\ failures' \in 0..MaxFailures /\ failures' >= failures
           /\ prowjobs \subseteq prowjobs'
           /\ \A j \in prowjobs' \ prowjobs :
                 j.event = h /\ j.head = head /\ j.threshold = threshold /\ j.target \in targets
           /\ failures' = 0 => \A t \in targets : \E j \in prowjobs' : j.event = h /\ j.head = head /\ j.target = t
<1> DEFINE jobOf(t) == [event |-> h, head |-> head, target |-> t, threshold |-> threshold]
<1>1. PICK missing \in SUBSET targets :
         /\ missing # {} => failures < MaxFailures
         /\ failures' = IF missing = {} THEN failures ELSE failures + 1
         /\ prowjobs' = prowjobs \cup {jobOf(t) : t \in targets \ missing}
         /\ GoTo(h, Done) /\ UNCHANGED <<pullRequest, history>>
  BY DEF Create
<1>2. Goes(h, Done) /\ handlers'[h].read = handlers[h].read
  BY <1>1, GoToShape
<1>3. UNCHANGED <<setting, heads, state, mergeable, consent, labelChanges, labelledAt, closedAt>>
  BY <1>1 DEF pullRequest, history
<1>4. failures \in 0..MaxFailures /\ MaxFailures \in Nat
  BY BoundsAssumption DEF TypeInv
<1>5. failures' \in 0..MaxFailures /\ failures' >= failures /\ (failures' = 0 => missing = {})
  BY <1>1, <1>4
<1>6. \A t : /\ jobOf(t).event = h /\ jobOf(t).head = head
             /\ jobOf(t).threshold = threshold /\ jobOf(t).target = t
  OBVIOUS
<1> HIDE DEF jobOf
<1>7. QED
  BY <1>1, <1>2, <1>3, <1>5, <1>6

LEMMA FetchForRehearsalIInv ==
    ASSUME IInv, NEW h, FetchForRehearsal(h)
    PROVE  IInv'
<1>1. /\ h \in DOMAIN handlers /\ handlers[h].pc = "pull" /\ handlers[h].action # "closed"
      /\ Read(h, "authorise") /\ Quietly
  BY DEF FetchForRehearsal, At
<1>2. TypeInv /\ last # 0
  BY DEF IInv, TypeInv
<1>3. Goes(h, "authorise") /\ handlers'[h].read = last
  BY <1>1, <1>2, ReadShape
<1>4. failures \in 0..MaxFailures /\ MaxFailures \in Nat
  BY <1>2, BoundsAssumption DEF TypeInv
<1>5. Proceeds(h, "authorise")
  BY <1>1, <1>2, <1>3, <1>4 DEF Proceeds, Quietly, pullRequest, history, Done
<1>6. QED
  BY <1>5, ProceedsIInv

LEMMA AuthoriseIInv ==
    ASSUME IInv, NEW h, Authorise(h)
    PROVE  IInv'
<1> DEFINE event == handlers[h]
           may == canUserRehearse(event.user, heads[event.read].files, consent)
           pc == IF may THEN "load" ELSE Done
<1>1. /\ setting.plugin = "rehearse" /\ h \in DOMAIN handlers /\ event.pc = "authorise"
      /\ GoTo(h, pc) /\ Quietly
  BY DEF Authorise, At
<1>2. TypeInv /\ pc \in {"pull", "authorise", "remove", "load", Done}
  BY DEF IInv
<1>3. Goes(h, pc) /\ handlers'[h].read = event.read
  BY <1>1, <1>2, GoToShape
<1>4. failures \in 0..MaxFailures /\ MaxFailures \in Nat
  BY <1>2, BoundsAssumption DEF TypeInv
<1>5. event.read \in 0..last /\ event.read # 0 /\ event.read >= event.head /\ event \in Events /\ last \in Nat
  BY <1>1, <1>2, Handled DEF TypeInv
<1>6. consent \in BOOLEAN /\ event.consented \in BOOLEAN /\ (consent => event.consented)
  BY <1>1, <1>2, <1>5 DEF IInv, EntitledInv, TypeInv, Events, Done
<1>7. pc = "load" => canUserRehearse(event.user, heads[event.read].files, event.consented)
  BY <1>6 DEF canUserRehearse, Done
<1>8. ASSUME event.action \in Updates, event.head = last, AuthorMay(heads[last])
      PROVE  pc = "load"
  <2>1. event.read = last
    BY <1>5, <1>8
  <2>2. event.user = setting.author
    BY <1>1, <1>8 DEF IInv, UpdateInv, Updates
  <2>3. QED
    BY <1>8, <2>1, <2>2 DEF AuthorMay, canUserRehearse
<1>9. pc = Done => Complete(h)
  BY <1>1, <1>8 DEF Complete, Done
<1>10. event.action # "closed" /\ pc \in {"load", Done}
  BY <1>1 DEF IInv, UpdateInv
<1> HIDE DEF pc
<1>11. Proceeds(h, pc)
  BY <1>1, <1>2, <1>3, <1>4, <1>5, <1>7, <1>9, <1>10 DEF Proceeds, Quietly, pullRequest, history, Done
<1>12. QED
  BY <1>11, ProceedsIInv

LEMMA RehearseIInv ==
    ASSUME IInv, NEW h, Rehearse(h)
    PROVE  IInv'
<1> DEFINE event == handlers[h]
           s == subject(event)
           targets == rehearsals(heads[s], event.comment)
<1>1. /\ setting.plugin = "rehearse" /\ h \in DOMAIN handlers /\ event.pc = "load"
      /\ \/ extractJobNames(event.comment) = {"?"} /\ GoTo(h, Done) /\ Quietly
         \/ Create(h, s, targets, 0)
  BY DEF Rehearse, At
<1>2. TypeInv /\ heads \in Seq(Contents) /\ last \in Nat /\ event \in Events
      /\ failures \in 0..MaxFailures /\ MaxFailures \in Nat
  BY <1>1, Handled, BoundsAssumption DEF IInv, TypeInv
<1>3. /\ event.read \in 1..last /\ event.head \in 1..last /\ s \in 1..last
      /\ heads[s] \in Contents
  BY <1>1, <1>2, ElementOfSeq DEF TypeInv, subject, last
<1>4. event.action # "closed"
  BY <1>1 DEF IInv, UpdateInv
<1>5. ASSUME event.action # "comment"
      PROVE  s = event.head /\ event.comment = NoComment
  BY <1>1, <1>5 DEF IInv, UpdateInv, subject
<1>6. ASSUME event.action = "comment"
      PROVE  canUserRehearse(event.user, heads[s].files, event.consented)
  BY <1>1, <1>6 DEF IInv, EntitledInv, subject
<1>7. CASE extractJobNames(event.comment) = {"?"} /\ GoTo(h, Done) /\ Quietly
  <2>1. Goes(h, Done) /\ handlers'[h].read = event.read
    BY <1>1, <1>2, <1>7, GoToShape
  <2>2. event.comment # NoComment
    BY <1>7 DEF NoComment, extractJobNames
  <2>3. Complete(h)
    BY <1>5, <2>2 DEF Complete, Updates
  <2>4. Proceeds(h, Done)
    BY <1>1, <1>2, <1>4, <1>7, <2>1, <2>3 DEF Proceeds, Quietly, pullRequest, history, Done
  <2>5. QED
    BY <2>4, ProceedsIInv
<1>8. CASE Create(h, s, targets, 0)
  <2>1. /\ Goes(h, Done) /\ handlers'[h].read = event.read
        /\ UNCHANGED <<setting, heads, state, mergeable, consent, labelChanges, labelledAt, closedAt>>
        /\ failures' \in 0..MaxFailures /\ failures' >= failures
        /\ prowjobs \subseteq prowjobs'
        /\ \A j \in prowjobs' \ prowjobs : j.event = h /\ j.head = s /\ j.threshold = 0 /\ j.target \in targets
        /\ failures' = 0 => \A t \in targets : \E j \in prowjobs' : j.event = h /\ j.head = s /\ j.target = t
    BY <1>1, <1>2, <1>8, Creates
  <2>2. ASSUME event.action # "comment"
        PROVE  /\ \A t \in targets : t.name \in Names(Changed(heads[s]))
               /\ \A name \in Names(Changed(heads[s])) : \E t \in targets : t.name = name
    BY <1>3, <1>5, <2>2, RehearsalNames
  <2> HIDE DEF targets
  <2>3. ASSUME NEW j \in prowjobs' \ prowjobs
        PROVE  Fit(j, h)
    BY <1>1, <1>3, <1>6, <2>1, <2>2 DEF Fit
  <2>4. Complete(h)
    BY <1>1, <1>5, <2>1, <2>2 DEF Complete, Updates
  <2>5. Proceeds(h, Done)
    BY <1>1, <1>2, <1>4, <2>1, <2>3, <2>4 DEF Proceeds, Done
  <2>6. QED
    BY <2>5, ProceedsIInv
<1>9. QED
  BY <1>1, <1>7, <1>8

LEMMA ReadConsentIInv ==
    ASSUME IInv, NEW h, ReadConsent(h)
    PROVE  IInv'
<1> DEFINE pc == IF consent THEN "remove" ELSE Done
<1>1. /\ setting.plugin = "rehearse" /\ h \in DOMAIN handlers /\ handlers[h].pc = "pull"
      /\ handlers[h].action = "closed" /\ GoTo(h, pc) /\ Quietly
  BY DEF ReadConsent, At
<1>2. TypeInv /\ failures \in 0..MaxFailures /\ MaxFailures \in Nat /\ consent \in BOOLEAN
  BY BoundsAssumption DEF IInv, TypeInv
<1>3. Goes(h, pc) /\ handlers'[h].read = handlers[h].read
  BY <1>1, <1>2, GoToShape
<1>4. Complete(h)
  BY <1>1 DEF Complete, Updates
<1>5. (consent => pc = "remove") /\ pc \in {"remove", Done}
  OBVIOUS
<1> HIDE DEF pc
<1>6. Proceeds(h, pc)
  BY <1>1, <1>2, <1>3, <1>4, <1>5 DEF Proceeds, Quietly, pullRequest, history, Done
<1>7. QED
  BY <1>6, ProceedsIInv

LEMMA RemoveConsentIInv ==
    ASSUME IInv, NEW h, RemoveConsent(h)
    PROVE  IInv'
<1>1. /\ setting.plugin = "rehearse" /\ h \in DOMAIN handlers /\ handlers[h].pc = "remove"
      /\ GoTo(h, Done) /\ consent' = FALSE
      /\ UNCHANGED <<setting, heads, state, mergeable, prowjobs, failures, history>>
  BY DEF RemoveConsent, At
<1>2. TypeInv /\ failures \in 0..MaxFailures /\ MaxFailures \in Nat
  BY BoundsAssumption DEF IInv, TypeInv
<1>3. Goes(h, Done) /\ handlers'[h].read = handlers[h].read
  BY <1>1, <1>2, GoToShape
<1>4. handlers[h].action = "closed"
  BY <1>1 DEF IInv, UpdateInv
<1>5. Complete(h)
  BY <1>4 DEF Complete, Updates
<1>6. Proceeds(h, Done)
  BY <1>1, <1>2, <1>3, <1>5 DEF Proceeds, history, Done
<1>7. QED
  BY <1>6, ProceedsIInv

LEMMA FetchForSubsetIInv ==
    ASSUME IInv, NEW h, FetchForSubset(h)
    PROVE  IInv'
<1>1. /\ setting.plugin = "test-subset" /\ h \in DOMAIN handlers /\ handlers[h].pc = "pull" /\ Quietly
      /\ Read(h, "load") \/ GoTo(h, Done)
  BY DEF FetchForSubset, At
<1>2. TypeInv /\ failures \in 0..MaxFailures /\ MaxFailures \in Nat /\ last # 0
  BY BoundsAssumption DEF IInv, TypeInv
<1>3. Complete(h)
  BY <1>1 DEF Complete
<1>4. ASSUME Read(h, "load")
      PROVE  Proceeds(h, "load")
  <2>1. Goes(h, "load") /\ handlers'[h].read = last
    BY <1>1, <1>2, <1>4, ReadShape
  <2>2. QED
    BY <1>1, <1>2, <2>1 DEF Proceeds, Quietly, pullRequest, history, Done
<1>5. ASSUME GoTo(h, Done)
      PROVE  Proceeds(h, Done)
  <2>1. Goes(h, Done) /\ handlers'[h].read = handlers[h].read
    BY <1>1, <1>2, <1>5, GoToShape
  <2>2. QED
    BY <1>1, <1>2, <1>3, <2>1 DEF Proceeds, Quietly, pullRequest, history, Done
<1>6. QED
  BY <1>1, <1>4, <1>5, ProceedsIInv

LEMMA TestSubsetIInv ==
    ASSUME IInv, NEW h, TestSubset(h)
    PROVE  IInv'
<1> DEFINE targets == subset(handlers[h].comment)
<1>1. /\ setting.plugin = "test-subset" /\ h \in DOMAIN handlers /\ handlers[h].pc = "load"
      /\ Create(h, handlers[h].read, targets, 0)
  BY DEF TestSubset, At
<1>2. TypeInv /\ failures \in 0..MaxFailures /\ MaxFailures \in Nat /\ last \in Nat
      /\ handlers[h].read \in 1..last
  BY <1>1, BoundsAssumption DEF IInv, TypeInv
<1> HIDE DEF targets
<1>3. /\ Goes(h, Done) /\ handlers'[h].read = handlers[h].read
      /\ UNCHANGED <<setting, heads, state, mergeable, consent, labelChanges, labelledAt, closedAt>>
      /\ failures' \in 0..MaxFailures /\ failures' >= failures
      /\ prowjobs \subseteq prowjobs'
      /\ \A j \in prowjobs' \ prowjobs : j.event = h /\ j.head = handlers[h].read /\ j.threshold = 0
  BY <1>1, <1>2, Creates
<1>4. \A j \in prowjobs' \ prowjobs : Fit(j, h)
  BY <1>1, <1>2, <1>3 DEF Fit
<1>5. Proceeds(h, Done)
  BY <1>1, <1>2, <1>3, <1>4 DEF Proceeds, Complete, Done
<1>6. QED
  BY <1>5, ProceedsIInv

LEMMA CoverIInv ==
    ASSUME IInv, NEW h, Cover(h)
    PROVE  IInv'
<1> DEFINE event == handlers[h]
           due == heads[last].files \cap GoFiles # {} /\ ~setting.dryRun
           threshold == RepoConfig(setting)["threshold"]
<1>1. /\ setting.plugin = "coverage" /\ h \in DOMAIN handlers /\ event.pc = "pull"
      /\ \/ due /\ Create(h, event.head, {coverageAuto}, threshold)
         \/ ~due /\ GoTo(h, Done) /\ Quietly
  BY DEF Cover, At, changedFiles
<1>2. TypeInv /\ failures \in 0..MaxFailures /\ MaxFailures \in Nat /\ last \in Nat
      /\ event.head \in 1..last
  BY <1>1, BoundsAssumption DEF IInv, TypeInv
<1>3. threshold \in 1..100
  BY <1>1, ThresholdIsPercentage DEF IInv, TypeInv
<1>4. CASE due /\ Create(h, event.head, {coverageAuto}, threshold)
  <2> HIDE DEF threshold
  <2>1. /\ Goes(h, Done) /\ handlers'[h].read = event.read
        /\ UNCHANGED <<setting, heads, state, mergeable, consent, labelChanges, labelledAt, closedAt>>
        /\ failures' \in 0..MaxFailures /\ failures' >= failures
        /\ prowjobs \subseteq prowjobs'
        /\ \A j \in prowjobs' \ prowjobs : j.event = h /\ j.head = event.head /\ j.threshold = threshold
        /\ failures' = 0 => \E j \in prowjobs' : j.event = h /\ j.head = event.head
    BY <1>1, <1>2, <1>4, Creates
  <2>2. \A j \in prowjobs' \ prowjobs : Fit(j, h)
    BY <1>1, <1>2, <1>3, <1>4, <2>1 DEF Fit
  <2>3. Complete(h)
    BY <1>1, <2>1 DEF Complete
  <2>4. Proceeds(h, Done)
    BY <1>1, <1>2, <2>1, <2>2, <2>3 DEF Proceeds, Done
  <2>5. QED
    BY <2>4, ProceedsIInv
<1>5. CASE ~due /\ GoTo(h, Done) /\ Quietly
  <2>1. Goes(h, Done) /\ handlers'[h].read = event.read
    BY <1>1, <1>2, <1>5, GoToShape
  <2>2. Complete(h)
    BY <1>1, <1>5 DEF Complete
  <2>3. Proceeds(h, Done)
    BY <1>1, <1>2, <1>5, <2>1, <2>2 DEF Proceeds, Quietly, pullRequest, history, Done
  <2>4. QED
    BY <2>3, ProceedsIInv
<1>6. QED
  BY <1>1, <1>4, <1>5

LEMMA FailIInv ==
    ASSUME IInv, NEW h, Fail(h)
    PROVE  IInv'
<1>1. /\ h \in DOMAIN handlers /\ handlers[h].pc # Done /\ failures < MaxFailures
      /\ failures' = failures + 1 /\ GoTo(h, Done) /\ UNCHANGED <<pullRequest, prowjobs, history>>
  BY DEF Fail
<1>2. TypeInv /\ failures \in 0..MaxFailures /\ MaxFailures \in Nat
  BY BoundsAssumption DEF IInv, TypeInv
<1>3. Goes(h, Done) /\ handlers'[h].read = handlers[h].read
  BY <1>1, <1>2, GoToShape
<1>4. failures' \in 0..MaxFailures /\ failures' >= failures /\ failures' # 0
  BY <1>1, <1>2
<1>5. Complete(h)
  BY <1>4 DEF Complete
<1>6. Proceeds(h, Done)
  BY <1>1, <1>3, <1>4, <1>5 DEF Proceeds, pullRequest, history, Done
<1>7. QED
  BY <1>6, ProceedsIInv

-----------------------------------------------------------------------------
\* People act: a webhook arrives that nobody has handled, perhaps with a new head.
Arrives(w) ==
    /\ w \in Events /\ Deliver(w) /\ Len(handlers) < MaxEvents
    /\ UNCHANGED <<setting, consent, prowjobs, failures, labelChanges, labelledAt>>
    /\ state' \in {"open", "closed", "merged"} /\ mergeable' \in BOOLEAN
    /\ \/ heads' = heads /\ (handlers = <<>> => last = 1 /\ w.action \in Updates)
       \/ /\ \E c \in Contents : heads' = Append(heads, c)
          /\ handlers # <<>> /\ w.action \in Updates
    /\ w.head = Len(heads') /\ w.read = 0 /\ w.consented = consent
    /\ w.pc \in {"pull", Done}
    /\ w.action # "comment" => w.user = setting.author /\ w.comment = NoComment
    /\ w.action = "comment" => setting.plugin # "coverage"
    /\ w.action \in Updates /\ w.pc = Done =>
          setting.plugin # "coverage" /\ ~(setting.plugin = "rehearse" /\ setting.alwaysRun)
    /\ \/ closedAt' = closedAt /\ (state' = state \/ state' = "open")
       \/ /\ closedAt' = Len(handlers) + 1 /\ w.action = "closed"
          /\ setting.plugin = "rehearse" /\ setting.alwaysRun => w.pc = "pull"

LEMMA ArrivesIInv ==
    ASSUME IInv, NEW w, Arrives(w)
    PROVE  IInv'
<1> DEFINE new == Len(handlers) + 1
<1>0. /\ TypeInv /\ heads \in Seq(Contents) /\ last \in Nat \ {0}
      /\ \A i \in 1..last : heads[i] \in Contents
      /\ Len(handlers) \in Nat /\ MaxEvents \in Nat /\ Len(handlers) < MaxEvents
  BY ElementOfSeq, BoundsAssumption DEF IInv, TypeInv, last, Arrives
<1>1. /\ DOMAIN handlers = 1..Len(handlers) /\ DOMAIN handlers' = 1..new
      /\ DOMAIN handlers' = DOMAIN handlers \cup {new} /\ new \notin DOMAIN handlers
      /\ \A i \in DOMAIN handlers : handlers'[i] = handlers[i] /\ handlers[i] \in Events
      /\ handlers'[new] = w /\ w \in Events
      /\ handlers' \in Seq(Events) /\ Len(handlers') = new
      /\ handlers' # <<>>
  <2>1. w \in Events /\ Deliver(w)
    BY DEF Arrives
  <2>2. /\ handlers' \in Seq(Events) /\ Len(handlers') = new
        /\ DOMAIN handlers' = DOMAIN handlers \cup {new}
        /\ \A h \in DOMAIN handlers : handlers'[h] = handlers[h]
        /\ handlers'[new] = w /\ new \notin DOMAIN handlers
    BY <1>0, <2>1, DeliverShape
  <2>3. DOMAIN handlers = 1..Len(handlers) /\ \A i \in DOMAIN handlers : handlers[i] \in Events
    BY <1>0, Handled
  <2>4. DOMAIN handlers' = 1..new /\ handlers' # <<>>
    BY <1>0, <2>2, LenProperties
  <2>5. QED
    BY <2>1, <2>2, <2>3, <2>4
<1>2. /\ setting' = setting /\ consent' = consent /\ prowjobs' = prowjobs
      /\ failures' = failures /\ labelChanges' = labelChanges /\ labelledAt' = labelledAt
  BY DEF Arrives
<1>3. /\ heads' \in Seq(Contents)
      /\ \A i \in 1..last : heads'[i] = heads[i]
      /\ \/ heads' = heads /\ last' = last /\ (handlers = <<>> => w.action \in Updates)
         \/ last' = last + 1 /\ w.action \in Updates /\ handlers # <<>>
      /\ w.head = last'
  <2>1. CASE heads' = heads
    BY <1>0, <2>1 DEF Arrives, last
  <2>2. ASSUME NEW c \in Contents, heads' = Append(heads, c), handlers # <<>>, w.action \in Updates
        PROVE  /\ heads' \in Seq(Contents)
               /\ \A i \in 1..last : heads'[i] = heads[i]
               /\ last' = last + 1 /\ w.head = last'
    BY <1>0, <2>2, AppendProperties DEF Arrives, last
  <2>3. QED
    BY <2>1, <2>2 DEF Arrives
<1> HIDE DEF new
<1>4. TypeInv'
  <2>1. last' \in 1..MaxEvents /\ (last' = 1 \/ last' <= Len(handlers'))
    BY <1>0, <1>1, <1>3, Handled DEF TypeInv, new
  <2>2. ASSUME NEW i \in DOMAIN handlers'
        PROVE  /\ handlers'[i].head \in 1..last' /\ handlers'[i].read \in 0..last'
               /\ handlers'[i].read # 0 => handlers'[i].read >= handlers'[i].head
               /\ handlers'[i].pc \in {"authorise", "load"} => handlers'[i].read # 0
    <3>1. CASE i = new
      BY <1>0, <1>1, <1>3, <3>1 DEF Arrives, Done
    <3>2. CASE i \in DOMAIN handlers
      BY <1>0, <1>1, <1>3, <3>2 DEF TypeInv
    <3>3. QED
      BY <1>1, <2>2, <3>1, <3>2
  <2>3. ASSUME NEW j \in prowjobs'
        PROVE  /\ j.event \in DOMAIN handlers' /\ j.head \in 1..last'
               /\ j.threshold \in IF setting.plugin = "coverage" THEN 1..100 ELSE {0}
    BY <1>0, <1>1, <1>2, <1>3, <2>3 DEF TypeInv
  <2>4. Starts(setting)' <=> Starts(setting)
    BY <1>2 DEF Starts, validConfig, Defaulted
  <2>5. /\ labelledAt' \in 0..Len(handlers') /\ closedAt' \in 0..Len(handlers')
        /\ Len(handlers') \in 0..MaxEvents
    BY <1>0, <1>1, <1>2 DEF TypeInv, Arrives, new
  <2>6. state' \in {"open", "closed", "merged"} /\ mergeable' \in BOOLEAN
    BY DEF Arrives
  <2>7. /\ setting \in Settings /\ Starts(setting) /\ consent \in BOOLEAN
        /\ failures \in 0..MaxFailures /\ labelChanges \in 0..MaxLabelChanges
    BY <1>0 DEF TypeInv
  <2>8. QED
    BY <1>1, <1>2, <1>3, <2>1, <2>2, <2>3, <2>4, <2>5, <2>6, <2>7 DEF TypeInv
<1>5. UpdateInv'
  <2>1. ASSUME NEW i \in DOMAIN handlers', handlers'[i].action # "comment"
        PROVE  handlers'[i].user = setting.author /\ handlers'[i].comment = NoComment
    BY <1>1, <2>1 DEF IInv, UpdateInv, Arrives
  <2>2. \E i \in DOMAIN handlers' : handlers'[i].action \in Updates /\ handlers'[i].head = last'
    BY <1>1, <1>3 DEF IInv, UpdateInv
  <2>3. ASSUME NEW i \in DOMAIN handlers'
        PROVE  /\ setting.plugin = "rehearse" /\ handlers'[i].pc \in {"authorise", "load"} =>
                     handlers'[i].action # "closed"
               /\ handlers'[i].pc = "remove" => handlers'[i].action = "closed"
    BY <1>1, <2>3 DEF IInv, UpdateInv, Arrives, Done
  <2>4. QED
    BY <1>2, <2>1, <2>2, <2>3 DEF UpdateInv
<1>6. EntitledInv'
  <2>1. ASSUME NEW i \in DOMAIN handlers'
        PROVE  /\ consent /\ handlers'[i].pc # Done => handlers'[i].consented
               /\ setting.plugin = "rehearse" /\ handlers'[i].pc = "load" =>
                     canUserRehearse(handlers'[i].user, heads'[handlers'[i].read].files, handlers'[i].consented)
    <3>1. CASE i = new
      BY <1>1, <3>1 DEF Arrives, Done
    <3>2. CASE i \in DOMAIN handlers
      <4>1. handlers[i].pc = "load" => handlers[i].read \in 1..last
        BY <1>0, <3>2 DEF TypeInv
      <4>2. QED
        BY <1>1, <1>3, <3>2, <4>1 DEF IInv, EntitledInv
    <3>3. QED
      BY <1>1, <2>1, <3>1, <3>2
  <2>2. QED
    BY <1>2, <2>1 DEF EntitledInv, canUserRehearse
<1>7. ASSUME NEW j \in prowjobs
      PROVE  /\ j.event \in DOMAIN handlers /\ handlers'[j.event] = handlers[j.event]
             /\ j.head \in 1..last /\ heads'[j.head] = heads[j.head]
  BY <1>0, <1>1, <1>3, <1>7 DEF TypeInv
<1>8. RehearsalsAreEntitled'
  BY <1>2, <1>7 DEF IInv, RehearsalsAreEntitled
<1>9. ConsentInv'
  <2>1. CASE closedAt' = closedAt
    BY <1>1, <1>2, <2>1 DEF IInv, ConsentInv, Arrives
  <2>2. CASE closedAt' # closedAt
    BY <1>1, <1>2, <2>2 DEF ConsentInv, Arrives, new
  <2>3. QED
    BY <2>1, <2>2
<1>10. CoverageInv'
  <2> SUFFICES ASSUME setting.plugin = "coverage"
               PROVE  CoverageInv'
    BY <1>2 DEF CoverageInv
  <2>1. \A i \in DOMAIN handlers' : handlers'[i].action # "comment"
    BY <1>1 DEF IInv, CoverageInv, Arrives
  <2>2. ASSUME NEW i \in DOMAIN handlers', handlers'[i].action \in Updates, handlers'[i].head = last',
               handlers'[i].pc = Done
        PROVE  i \in DOMAIN handlers /\ last' = last /\ heads'[last'] = heads[last]
    <3>1. i \in DOMAIN handlers
      BY <1>1, <2>2 DEF Arrives
    <3>2. handlers[i].head \in 1..last
      BY <1>0, <3>1 DEF TypeInv
    <3>3. QED
      BY <1>0, <1>1, <1>3, <2>2, <3>1, <3>2
  <2>3. ASSUME NEW j \in prowjobs, j.head = last'
        PROVE  heads'[last'].files \cap GoFiles # {}
    <3>1. last' = last /\ heads'[last'] = heads[last]
      BY <1>0, <1>3, <1>7, <2>3
    <3>2. QED
      BY <2>3, <3>1 DEF IInv, CoverageInv
  <2>4. ASSUME failures = 0, ~setting.dryRun, heads'[last'].files \cap GoFiles # {},
               NEW i \in DOMAIN handlers', handlers'[i].action \in Updates, handlers'[i].head = last',
               handlers'[i].pc = Done
        PROVE  \E j \in prowjobs : j.event = i /\ j.head = last'
    <3>1. i \in DOMAIN handlers /\ last' = last /\ heads'[last'] = heads[last]
      BY <2>2, <2>4
    <3>2. handlers'[i] = handlers[i]
      BY <1>1, <3>1
    <3>3. QED
      BY <2>4, <3>1, <3>2 DEF IInv, CoverageInv
  <2>5. QED
    BY <1>2, <2>1, <2>3, <2>4 DEF CoverageInv
<1>11. RehearsalInv'
  <2> SUFFICES ASSUME setting.plugin = "rehearse"
               PROVE  RehearsalInv'
    BY <1>2 DEF RehearsalInv
  <2>1. ASSUME NEW j \in prowjobs, handlers'[j.event].action # "comment"
        PROVE  j.target.name \in Names(Changed(heads'[j.head]))
    BY <1>7, <2>1 DEF IInv, RehearsalInv
  <2>2. ASSUME failures = 0, setting.alwaysRun, AuthorMay(heads'[last']),
               NEW i \in DOMAIN handlers', handlers'[i].action \in Updates, handlers'[i].head = last',
               handlers'[i].pc = Done, NEW name \in Names(Changed(heads'[last']))
        PROVE  \E j \in prowjobs : j.event = i /\ j.head = last' /\ j.target.name = name
    <3>1. i \in DOMAIN handlers
      BY <1>1, <2>2 DEF Arrives
    <3>2. handlers[i].head \in 1..last
      BY <1>0, <3>1 DEF TypeInv
    <3>3. last' = last /\ heads'[last'] = heads[last] /\ handlers'[i] = handlers[i]
      BY <1>0, <1>1, <1>3, <2>2, <3>1, <3>2
    <3>4. QED
      BY <2>2, <3>1, <3>3 DEF IInv, RehearsalInv
  <2>3. AuthorMay(heads[last])' <=> AuthorMay(heads'[last'])
    BY <1>2 DEF AuthorMay
  <2>4. QED
    BY <1>2, <2>1, <2>2, <2>3 DEF RehearsalInv
<1>12. QED
  BY <1>4, <1>5, <1>6, <1>8, <1>9, <1>10, <1>11 DEF IInv

\* What a webhook of the model is.
Says(w, action, user, comment, head) ==
    /\ w.action = action /\ w.user = user /\ w.comment = comment /\ w.head = head
    /\ w.read = 0 /\ w.consented = consent

LEMMA WebhookIsEvent ==
    ASSUME TypeInv, NEW action \in Updates \cup {"closed", "comment"}, NEW user \in Users,
           NEW comment \in Comments \cup {NoComment}, NEW head \in Nat
    PROVE  /\ Webhook(action, user, comment, head) \in Events
           /\ Says(Webhook(action, user, comment, head), action, user, comment, head)
           /\ Webhook(action, user, comment, head).pc = "pull"
BY DEF Webhook, Events, TypeInv, Says

\* What it is if the plugin does not act on it.
LEMMA IgnoredEvent ==
    ASSUME NEW w \in Events
    PROVE  LET done == [w EXCEPT !.pc = Done]
           IN  /\ done \in Events /\ done.action = w.action /\ done.user = w.user
               /\ done.comment = w.comment /\ done.head = w.head
               /\ done.read = w.read /\ done.consented = w.consented /\ done.pc = Done
BY DEF Events, Done

LEMMA ArrivalIInv ==
    ASSUME IInv, Open \/ Push \/ (\E new \in {"open", "closed", "merged"} : ChangeState(new))
                      \/ (\E user \in Users, comment \in Comments : Comment(user, comment))
    PROVE  IInv'
<1>0. /\ TypeInv /\ setting.author \in Users /\ setting.plugin \in Plugins /\ last \in 1..MaxEvents
      /\ MaxEvents \in Nat \ {0} /\ Len(handlers) \in Nat /\ (handlers = <<>> <=> Len(handlers) = 0)
      /\ state \in {"open", "closed", "merged"} /\ mergeable \in BOOLEAN
      /\ handlers = <<>> => last = 1
  BY SettingsAssumption, BoundsAssumption, Handled DEF IInv, TypeInv
<1>1. CASE Open
  <2> DEFINE full == Webhook("opened", setting.author, NoComment, 1)
             w == IF shouldActOnPREvent("opened") THEN full ELSE [full EXCEPT !.pc = Done]
  <2>1. /\ handlers = <<>> /\ Deliver(w) /\ UNCHANGED <<pullRequest, prowjobs, failures, history>>
    BY <1>1 DEF Open
  <2>2. /\ w \in Events /\ w.action = "opened" /\ w.user = setting.author /\ w.comment = NoComment
        /\ w.head = 1 /\ w.read = 0 /\ w.consented = consent /\ w.pc \in {"pull", Done}
        /\ w.pc = Done => ~shouldActOnPREvent("opened")
    <3>1. "opened" \in Updates \cup {"closed", "comment"} /\ NoComment \in Comments \cup {NoComment}
      BY DEF Updates
    <3>2. 1 \in Nat
      BY <1>0
    <3>3. full \in Events /\ Says(full, "opened", setting.author, NoComment, 1) /\ full.pc = "pull"
      BY <1>0, <3>1, <3>2, WebhookIsEvent
    <3> HIDE DEF full
    <3>4. QED
      BY <3>3, IgnoredEvent DEF Done, Says
  <2> HIDE DEF w
  <2>3. Arrives(w)
    BY <1>0, <2>1, <2>2 DEF Arrives, pullRequest, history, Updates, shouldActOnPREvent, last
  <2>4. QED
    BY <2>3, ArrivesIInv
<1>2. CASE Push
  <2> DEFINE full == Webhook("synchronize", setting.author, NoComment, last + 1)
             w == IF shouldActOnPREvent("synchronize") THEN full ELSE [full EXCEPT !.pc = Done]
  <2>1. /\ handlers # <<>> /\ Room /\ Deliver(w)
        /\ UNCHANGED <<setting, state, consent, prowjobs, failures, history>>
        /\ \E c \in Contents : heads' = Append(heads, c)
        /\ mergeable' \in BOOLEAN
    BY <1>2 DEF Push
  <2>2. /\ w \in Events /\ w.action = "synchronize" /\ w.user = setting.author /\ w.comment = NoComment
        /\ w.head = last + 1 /\ w.read = 0 /\ w.consented = consent /\ w.pc \in {"pull", Done}
        /\ w.pc = Done => ~shouldActOnPREvent("synchronize")
    <3>1. "synchronize" \in Updates \cup {"closed", "comment"} /\ NoComment \in Comments \cup {NoComment}
      BY DEF Updates
    <3>2. last + 1 \in Nat
      BY <1>0
    <3>3. full \in Events /\ Says(full, "synchronize", setting.author, NoComment, last + 1) /\ full.pc = "pull"
      BY <1>0, <3>1, <3>2, WebhookIsEvent
    <3> HIDE DEF full
    <3>4. QED
      BY <3>3, IgnoredEvent DEF Done, Says
  <2>3. Len(heads') = last + 1
    BY <1>0, <2>1, AppendProperties DEF TypeInv, last
  <2> HIDE DEF w
  <2>4. Arrives(w)
    BY <1>0, <2>1, <2>2, <2>3 DEF Arrives, Room, history, Updates, shouldActOnPREvent
  <2>5. QED
    BY <2>4, ArrivesIInv
<1>3. ASSUME NEW new \in {"open", "closed", "merged"}, ChangeState(new)
      PROVE  IInv'
  <2> DEFINE full == Webhook("closed", setting.author, NoComment, last)
             w == IF new # "open" /\ shouldActOnPREvent("closed") THEN full ELSE [full EXCEPT !.pc = Done]
  <2>1. /\ handlers # <<>> /\ Room /\ Deliver(w) /\ state' = new
        /\ UNCHANGED <<setting, heads, mergeable, consent, prowjobs, failures, labelChanges, labelledAt>>
        /\ closedAt' = IF new = "open" THEN closedAt ELSE Len(handlers) + 1
    BY <1>3 DEF ChangeState
  <2>2. /\ w \in Events /\ w.action = "closed" /\ w.user = setting.author /\ w.comment = NoComment
        /\ w.head = last /\ w.read = 0 /\ w.consented = consent /\ w.pc \in {"pull", Done}
        /\ w.pc = Done => ~(new # "open" /\ shouldActOnPREvent("closed"))
    <3>1. "closed" \in Updates \cup {"closed", "comment"} /\ NoComment \in Comments \cup {NoComment}
      BY DEF Updates
    <3>2. last \in Nat
      BY <1>0
    <3>3. full \in Events /\ Says(full, "closed", setting.author, NoComment, last) /\ full.pc = "pull"
      BY <1>0, <3>1, <3>2, WebhookIsEvent
    <3> HIDE DEF full
    <3>4. QED
      BY <3>3, IgnoredEvent DEF Done, Says
  <2>3. Len(heads') = last
    BY <2>1 DEF last
  <2> HIDE DEF w
  <2>4. new = "open" \/ (setting.plugin = "rehearse" /\ setting.alwaysRun => w.pc = "pull")
    BY <2>2 DEF shouldActOnPREvent
  <2>5. Arrives(w)
    BY <1>0, <2>1, <2>2, <2>3, <2>4 DEF Arrives, Room, Updates
  <2>6. QED
    BY <2>5, ArrivesIInv
<1>4. ASSUME NEW user \in Users, NEW comment \in Comments, Comment(user, comment)
      PROVE  IInv'
  <2> DEFINE w == Webhook("comment", user, comment, last)
  <2>1. /\ setting.plugin \in {"rehearse", "test-subset"}
        /\ handlers # <<>> /\ Room /\ Deliver(w)
        /\ UNCHANGED <<pullRequest, prowjobs, failures, history>>
    BY <1>4 DEF Comment
  <2>2. /\ w \in Events /\ w.action = "comment"
        /\ w.head = last /\ w.read = 0 /\ w.consented = consent /\ w.pc = "pull"
    <3>1. comment \in Comments \cup {NoComment} /\ last \in Nat
      BY <1>0
    <3>2. w \in Events /\ Says(w, "comment", user, comment, last) /\ w.pc = "pull"
      BY <1>0, <3>1, WebhookIsEvent
    <3> HIDE DEF w
    <3>3. QED
      BY <3>2 DEF Says
  <2> HIDE DEF w
  <2>3. Arrives(w)
    BY <1>0, <2>1, <2>2 DEF Arrives, Room, pullRequest, history, Updates, last, Done
  <2>4. QED
    BY <2>3, ArrivesIInv
<1>5. QED
  BY <1>1, <1>2, <1>3, <1>4

LEMMA LabelIInv ==
    ASSUME IInv, Label
    PROVE  IInv'
<1>1. /\ TypeInv /\ handlers' \in Seq(Events) /\ Len(handlers') = Len(handlers)
      /\ DOMAIN handlers' = DOMAIN handlers
      /\ \A h \in DOMAIN handlers :
            /\ handlers'[h].action = handlers[h].action /\ handlers'[h].user = handlers[h].user
            /\ handlers'[h].comment = handlers[h].comment /\ handlers'[h].head = handlers[h].head
            /\ handlers'[h].read = handlers[h].read /\ handlers'[h].pc = handlers[h].pc
            /\ handlers'[h].consented = (handlers[h].consented \/ (~consent /\ handlers[h].pc # Done))
      /\ handlers # <<>> /\ handlers' # <<>>
      /\ \A h \in DOMAIN handlers : handlers[h].consented \in BOOLEAN
  <2>1. TypeInv /\ handlers # <<>> /\ \A h \in DOMAIN handlers : handlers[h].consented \in BOOLEAN
    BY Handled DEF IInv, Label, Events
  <2>2. QED
    BY <2>1, LabelShape, Handled
<1>2. /\ setting' = setting /\ heads' = heads /\ state' = state /\ mergeable' = mergeable
      /\ prowjobs' = prowjobs /\ failures' = failures /\ closedAt' = closedAt
      /\ labelChanges < MaxLabelChanges /\ labelChanges' = labelChanges + 1
      /\ consent' = ~consent /\ labelledAt' = IF consent THEN labelledAt ELSE Len(handlers)
  BY DEF Label
<1>3. last' = last /\ consent \in BOOLEAN /\ consent' \in BOOLEAN
  BY <1>1, <1>2 DEF last, TypeInv
<1>4. TypeInv'
  <2>1. Starts(setting)' <=> Starts(setting)
    BY <1>2 DEF Starts, validConfig, Defaulted
  <2>2. labelChanges' \in 0..MaxLabelChanges /\ labelledAt' \in 0..Len(handlers)
    BY <1>1, <1>2, BoundsAssumption, Handled DEF TypeInv
  <2>3. QED
    BY <1>1, <1>2, <1>3, <2>1, <2>2 DEF TypeInv
<1>5. UpdateInv'
  BY <1>1, <1>2, <1>3 DEF IInv, UpdateInv
<1>6. EntitledInv'
  <2>1. ASSUME NEW h \in DOMAIN handlers
        PROVE  /\ consent' /\ handlers[h].pc # Done => handlers'[h].consented
               /\ setting.plugin = "rehearse" /\ handlers[h].pc = "load" =>
                     canUserRehearse(handlers[h].user, heads[handlers[h].read].files, handlers'[h].consented)
    BY <1>1, <1>2, <1>3, <2>1 DEF IInv, EntitledInv, canUserRehearse
  <2>2. QED
    BY <1>1, <1>2, <2>1 DEF EntitledInv, canUserRehearse
<1>7. \A j \in prowjobs : j.event \in DOMAIN handlers
  BY <1>1 DEF TypeInv
<1>8. RehearsalsAreEntitled'
  BY <1>1, <1>2, <1>7 DEF IInv, RehearsalsAreEntitled
<1>9. ConsentInv'
  <2>1. Len(handlers) \in Nat /\ closedAt \in 0..Len(handlers) /\ labelledAt \in Nat
    BY <1>1, Handled DEF TypeInv
  <2>2. QED
    BY <1>1, <1>2, <1>3, <2>1 DEF IInv, ConsentInv
<1>10. CoverageInv'
  BY <1>1, <1>2, <1>3, <1>7 DEF IInv, CoverageInv
<1>11. RehearsalInv'
  <2>1. AuthorMay(heads[last])' <=> AuthorMay(heads[last])
    BY <1>2, <1>3 DEF AuthorMay
  <2>2. QED
    BY <1>1, <1>2, <1>3, <1>7, <2>1 DEF IInv, RehearsalInv
<1>12. QED
  BY <1>4, <1>5, <1>6, <1>8, <1>9, <1>10, <1>11 DEF IInv

LEMMA InitIInv == Init => IInv
<1> SUFFICES ASSUME Init
             PROVE  IInv
  OBVIOUS
<1>1. PICK c \in Contents : heads = <<c>>
  BY DEF Init
<1>2. heads \in Seq(Contents) /\ last = 1
  BY <1>1 DEF last
<1>3. TypeInv
  <2>1. /\ setting \in Settings /\ Starts(setting) /\ state = "open" /\ mergeable = TRUE
        /\ consent = FALSE /\ handlers = <<>> /\ prowjobs = {} /\ failures = 0
        /\ labelChanges = 0 /\ labelledAt = 0 /\ closedAt = 0
    BY DEF Init
  <2>2. handlers \in Seq(Events) /\ Len(handlers) = 0 /\ DOMAIN handlers = {}
    BY <2>1
  <2>3. MaxEvents \in Nat \ {0} /\ MaxLabelChanges \in Nat /\ MaxFailures \in Nat
    BY BoundsAssumption
  <2>4. /\ mergeable \in BOOLEAN /\ consent \in BOOLEAN
        /\ last \in 1..MaxEvents
        /\ failures \in 0..MaxFailures /\ labelChanges \in 0..MaxLabelChanges
    <3>1. mergeable \in BOOLEAN /\ consent \in BOOLEAN
      BY <2>1
    <3>2. QED
      BY <1>2, <2>1, <2>3, <3>1
  <2>5. /\ labelledAt \in 0..Len(handlers) /\ closedAt \in 0..Len(handlers)
        /\ Len(handlers) \in 0..MaxEvents
    BY <2>1, <2>2, <2>3
  <2>6. QED
    BY <1>2, <2>1, <2>2, <2>4, <2>5 DEF TypeInv
<1>4. UpdateInv /\ EntitledInv /\ RehearsalsAreEntitled /\ ConsentInv /\ CoverageInv /\ RehearsalInv
  BY DEF Init, UpdateInv, EntitledInv, RehearsalsAreEntitled, ConsentInv, CoverageInv, RehearsalInv
<1>5. QED
  BY <1>3, <1>4 DEF IInv

LEMMA StutterIInv == IInv /\ UNCHANGED vars => IInv'
<1> SUFFICES ASSUME IInv, UNCHANGED vars
             PROVE  IInv'
  OBVIOUS
<1> USE DEF IInv
<1>1. /\ setting' = setting /\ heads' = heads /\ state' = state /\ mergeable' = mergeable
      /\ consent' = consent /\ handlers' = handlers /\ prowjobs' = prowjobs /\ failures' = failures
      /\ labelChanges' = labelChanges /\ labelledAt' = labelledAt /\ closedAt' = closedAt
      /\ last' = last
  BY DEF vars, last
<1>2. TypeInv'
  BY <1>1 DEF TypeInv, Starts, validConfig, Defaulted
<1>3. UpdateInv' /\ ConsentInv' /\ CoverageInv'
  BY <1>1 DEF UpdateInv, ConsentInv, CoverageInv
<1>4. EntitledInv'
  BY <1>1 DEF EntitledInv, canUserRehearse
<1>5. RehearsalsAreEntitled'
  BY <1>1 DEF RehearsalsAreEntitled
<1>6. RehearsalInv'
  BY <1>1 DEF RehearsalInv, AuthorMay
<1>7. QED
  BY <1>2, <1>3, <1>4, <1>5, <1>6

LEMMA NextIInv == IInv /\ [Next]_vars => IInv'
<1>1. IInv /\ (Open \/ Push \/ (\E new \in {"open", "closed", "merged"} : ChangeState(new))
                   \/ (\E user \in Users, comment \in Comments : Comment(user, comment)))
         => IInv'
  BY ArrivalIInv
<1>2. ASSUME IInv, NEW h,
             \/ FetchForRehearsal(h) \/ Authorise(h) \/ Rehearse(h)
             \/ ReadConsent(h) \/ RemoveConsent(h)
             \/ FetchForSubset(h) \/ TestSubset(h) \/ Cover(h) \/ Fail(h)
      PROVE  IInv'
  BY <1>2, FetchForRehearsalIInv, AuthoriseIInv, RehearseIInv, ReadConsentIInv, RemoveConsentIInv,
     FetchForSubsetIInv, TestSubsetIInv, CoverIInv, FailIInv
<1>3. QED
  BY <1>1, <1>2, LabelIInv, StutterIInv DEF Next

LEMMA Invariant == Spec => []IInv
BY InitIInv, NextIInv, PTL DEF Spec

-----------------------------------------------------------------------------
\* The state of the plugins is as its type says, of any deployment: the threshold of
\* a coverage job is a percentage that is not zero whatever is set, and a webhook
\* is never newer than the head its goroutine reads.
THEOREM Types == Spec => []TypeOK
<1>1. TypeInv => TypeOK
  <2> SUFFICES ASSUME TypeInv
               PROVE  TypeOK
    OBVIOUS
  <2>1. \A h \in DOMAIN handlers : handlers[h].pc \in {"pull", "authorise", "remove", "load", Done}
    BY Handled DEF Events
  <2>2. {labelledAt, closedAt} \subseteq 0..MaxEvents
    BY BoundsAssumption DEF TypeInv
  <2>3. Len(heads) \in 1..MaxEvents
    BY DEF TypeInv, last
  <2>4. QED
    BY <2>1, <2>2, <2>3 DEF TypeInv, TypeOK
<1>2. QED
  BY <1>1, Invariant, PTL DEF IInv

\* Whoever gets rehearsals by a comment may have them, however pushes, labels and
\* comments interleave with the reads of their goroutines.
THEOREM RehearsalsEntitled == Spec => []RehearsalsAreEntitled
BY Invariant, PTL DEF IInv

\* When all is handled and nothing failed the last head has the jobs it asks for.
THEOREM LastHeadTested == Spec => []LastHeadIsTested
<1>1. IInv => LastHeadIsTested
  <2> SUFFICES ASSUME IInv, AtRest, failures = 0, handlers # <<>>
               PROVE  LastHeadIsTested
    BY DEF LastHeadIsTested
  <2> DEFINE created == {k \in prowjobs : k.head = last /\ handlers[k.event].action # "comment"}
             made == {j.target.name : j \in created}
             files == heads[last].files
             wanted == {p.name : p \in {q \in Presubmits : ~q.restricted /\ heads[last].version[q] = "changed"}}
  <2>1. PICK h \in DOMAIN handlers : handlers[h].action \in Updates /\ handlers[h].head = last
    BY DEF IInv, UpdateInv
  <2>2. handlers[h].pc = Done /\ handlers[h].action # "comment"
    BY <2>1 DEF AtRest, Updates
  <2>3. wanted = Names(Changed(heads[last]))
    BY DEF Names, Changed
  <2>4. ASSUME setting.plugin = "coverage", ~setting.dryRun
        PROVE  made # {} <=> files \cap GoFiles # {}
    <3>1. \A j \in created : files \cap GoFiles # {}
      BY <2>4 DEF IInv, CoverageInv
    <3>2. files \cap GoFiles # {} => \E j \in prowjobs : j.event = h /\ j.head = last
      BY <2>1, <2>2, <2>4 DEF IInv, CoverageInv
    <3>3. QED
      BY <2>2, <3>1, <3>2
  <2>5. ASSUME setting.plugin = "rehearse", setting.alwaysRun, AuthorMay(heads[last])
        PROVE  made = wanted
    <3>1. \A j \in created : j.target.name \in wanted
      BY <2>3, <2>5 DEF IInv, RehearsalInv
    <3>2. \A name \in wanted : \E j \in prowjobs : j.event = h /\ j.head = last /\ j.target.name = name
      <4>1. \A name \in Names(Changed(heads[last])) :
               \E j \in prowjobs : j.event = h /\ j.head = last /\ j.target.name = name
        BY <2>1, <2>2, <2>5 DEF IInv, RehearsalInv
      <4>2. QED
        BY <2>3, <4>1
    <3> HIDE DEF wanted
    <3>3. QED
      BY <2>2, <3>1, <3>2
  <2>6. QED
    BY <2>4, <2>5 DEF LastHeadIsTested, AuthorMay
<1>2. QED
  BY <1>1, Invariant, PTL

\* When all is handled and nothing failed, no closed pull request has an old consent.
THEOREM ConsentEnds == Spec => []ConsentEndsWithClose
<1>1. IInv => ConsentEndsWithClose
  <2> SUFFICES ASSUME IInv, AtRest, failures = 0, setting.plugin = "rehearse", setting.alwaysRun,
                      state # "open", consent
               PROVE  labelledAt >= closedAt
    BY DEF ConsentEndsWithClose
  <2>1. closedAt \in DOMAIN handlers /\ (labelledAt < closedAt => handlers[closedAt].pc \in {"pull", "remove"})
    BY DEF IInv, ConsentInv
  <2>2. handlers[closedAt].pc = Done
    BY <2>1 DEF AtRest
  <2>3. labelledAt \in Nat /\ closedAt \in Nat
    BY Handled DEF IInv, TypeInv
  <2>4. QED
    BY <2>1, <2>2, <2>3 DEF Done
<1>2. QED
  BY <1>1, Invariant, PTL
=============================================================================
