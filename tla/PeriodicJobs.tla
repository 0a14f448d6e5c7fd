----------------------------- MODULE PeriodicJobs -----------------------------
(***************************************************************************)
(* cmd/periodic-jobs: spread rewrites the schedules of periodic jobs so    *)
(* that those of the same frequency start one after the other, gantt draws *)
(* the schedules.  People add jobs and edit schedules in between.          *)
(***************************************************************************)
EXTENDS Integers, Sequences, FiniteSets, SequencesExt

CONSTANTS
    Jobs,           \* jobs that may be in the file; names are numbers, in their order
    Crons,          \* schedules people write
    MaxPeriodics    \* bound on the jobs of the file

\* A schedule: a minute and hours in order, or no schedule spread can read.
NoCron == [minute |-> -1, hours |-> <<>>]
ReadableCrons == [minute : 0..59, hours : Seq(0..23) \ {<<>>}]
PeriodicsAssumption ==
    /\ \A j \in Jobs : j.name \in Nat /\ {j.matches, j.prefixed} \subseteq BOOLEAN
    /\ Crons \subseteq {NoCron} \cup ReadableCrons
    /\ MaxPeriodics \in Nat

VARIABLES periodics,    \* the jobs of the file, each with a cron
          spreaded      \* whether the file is as spread has left it

periodicsVars == <<periodics, spreaded>>

PeriodicsTypeOK ==
    /\ Len(periodics) <= MaxPeriodics
    /\ \A j \in ToSet(periodics) : j.cron \in {NoCron} \cup ReadableCrons

PeriodicsInit == periodics = <<>> /\ spreaded = FALSE

-----------------------------------------------------------------------------
\* spread

\* The jobs whose name contains the pattern and whose cron is a minute and a
\* list of hours; the name is looked for anywhere in it.
findMatchingJobs(file) == {i \in DOMAIN file : file[i].matches /\ file[i].cron # NoCron}

frequency(cron) == Len(cron.hours)

groupByFrequency(file, freq) ==
    {i \in findMatchingJobs(file) : frequency(file[i].cron) = freq}

\* The place of a job in its group, by name.
place(file, i) ==
    LET group == groupByFrequency(file, frequency(file[i].cron))
    IN  Cardinality({k \in group : file[k].name < file[i].name})

hoursFrom(start, period) ==
    [n \in 1..((23 - start) \div period) + 1 |-> start + (n - 1) * period]

periodHours(freq) == 24 \div freq

\* --- faulty variant of staggerMinutes
staggerMinutesRounded(freq, numJobs) == (periodHours(freq) \div numJobs) * 60
\* ---

staggerMinutes(freq, numJobs) == (periodHours(freq) * 60) \div numJobs

\* The schedule of job i by its group.
spreadCron(file, i) ==
    LET freq == frequency(file[i].cron)
        offset == place(file, i) * staggerMinutes(freq, Cardinality(groupByFrequency(file, freq)))
    IN  [minute |-> offset % 60, hours |-> hoursFrom(offset \div 60, periodHours(freq))]

\* Schedules are handed over by name.
jobMap(file, name) ==
    spreadCron(file, CHOOSE i \in findMatchingJobs(file) : file[i].name = name)

updateCronNodes(file) ==
    [i \in DOMAIN file |->
        IF i \in findMatchingJobs(file) THEN [file[i] EXCEPT !.cron = jobMap(file, file[i].name)]
        ELSE file[i]]

\* With --dry-run nothing is written.  Above 24 hours, in a list that repeats some, the
\* period is zero and the loop over the hours does not end.
Spread ==
    /\ findMatchingJobs(periodics) # {}
    /\ \A i \in findMatchingJobs(periodics) : frequency(periodics[i].cron) <= 24
    /\ periodics' = updateCronNodes(periodics)
    /\ spreaded' = TRUE

-----------------------------------------------------------------------------
\* gantt

\* The starts of the jobs whose name has the prefix, as <<job, minute of the day>>.
ganttRuns(file) ==
    UNION {{<<i, h * 60 + file[i].cron.minute>> : h \in ToSet(file[i].cron.hours)} :
              i \in {k \in DOMAIN file : file[k].prefixed}}

\* What the chart shows of a section: sorted by start, runs of a job are numbered.
chart(file, section) ==
    LET runs == {r \in ganttRuns(file) : file[r[1]].section = section}
    IN  {[start |-> r[2], version |-> file[r[1]].version,
          number |-> Cardinality({q \in runs : file[q[1]].version = file[r[1]].version /\ q[2] <= r[2]})] :
            r \in runs}

-----------------------------------------------------------------------------
\* People.  Prow accepts a name once only.

AddJob ==
    /\ Len(periodics) < MaxPeriodics
    /\ \E j \in Jobs, c \in Crons :
          /\ \A k \in DOMAIN periodics : periodics[k].name # j.name
          /\ periodics' = Append(periodics, [name |-> j.name, matches |-> j.matches, prefixed |-> j.prefixed,
                                             section |-> j.section, version |-> j.version, cron |-> c])
    /\ spreaded' = FALSE

EditCron ==
    /\ \E i \in DOMAIN periodics, c \in Crons :
          periodics' = [periodics EXCEPT ![i].cron = c]
    /\ spreaded' = FALSE

PeriodicsNext == Spread \/ AddJob \/ EditCron
PeriodicsSpec == PeriodicsInit /\ [][PeriodicsNext]_periodicsVars

-----------------------------------------------------------------------------
Divides(freq) == 24 % freq = 0

\* Jobs of one frequency start at different minutes, if these are enough, a
\* frequency the day is a multiple of is kept, and the starts of a job are evenly
\* spread over the day.
SpreadWell ==
    \A i \in findMatchingJobs(periodics) :
        LET cron == periodics'[i].cron
            freq == frequency(periodics[i].cron)
            group == groupByFrequency(periodics, freq)
        IN  /\ \A k \in group \ {i} :
                  Cardinality(group) <= periodHours(freq) * 60 =>
                    \/ cron.minute # periodics'[k].cron.minute
                    \/ ToSet(cron.hours) \cap ToSet(periodics'[k].cron.hours) = {}
            /\ Divides(freq) => /\ frequency(cron) = freq
                                /\ \A n \in 2..freq : cron.hours[n] - cron.hours[n - 1] = 24 \div freq

\* The chart shows every start under a label of its own.
ChartIsComplete(file) ==
    \A i \in DOMAIN file :
        file[i].prefixed => frequency(file[i].cron) =
            Cardinality({r \in chart(file, file[i].section) : r.version = file[i].version})
=============================================================================
