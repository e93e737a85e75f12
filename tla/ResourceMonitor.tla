---------------------------- MODULE ResourceMonitor ----------------------------
(***************************************************************************)
(* The loop of src/src/resource_monitor/main.py: it reads the statistics   *)
(* of the containers (collector.py), and for each container and metric     *)
(* updates a baseline kept per hour of the day (baseline.py), judges the   *)
(* value against it (detector.py), and posts what stands out to Slack, at  *)
(* most once per cooldown (alerter.py).                                    *)
(*                                                                         *)
(* External: the containers, whose statistics may not be readable; Slack,  *)
(* where a post may arrive although it raises; SQLite; Docker's restarts.  *)
(*                                                                         *)
(* The mean and the sum of squares are exact: with a smoothing factor of   *)
(* AlphaNum / AlphaDen, after n samples the mean is ema / AlphaDen^(n-1)   *)
(* and the sum m2 / AlphaDen^(2n-3).                                       *)
(*                                                                         *)
(* Left out: rounding, how the percentages are computed, the rows written  *)
(* to QuestDB (nothing depends on them), the texts, and a webhook that is  *)
(* not set.  A cycle of the loop takes one tick.                           *)
(***************************************************************************)
EXTENDS Integers, SequencesExt, Arithmetic

CONSTANTS
  Targets,        \* settings.targets, in order
  Metrics,        \* the ones of _METRICS that are followed, in order
  Values,         \* the values of a percentage
  Transfers,      \* what a container may add to its block I/O in a cycle
  AlphaNum, AlphaDen,   \* ema_alpha
  MinSamples,     \* min_samples
  ThresholdSq,    \* the square of anomaly_threshold
  CriticalSq,     \* the square of critical_z_score
  AbsThreshold,   \* abs_threshold_*, by metric: smaller values are noise
  CriticalAbs,    \* critical_abs_*, by metric: larger ones are critical
  Cooldown,       \* alert_cooldown_seconds, in ticks
  CyclesPerHour, HoursPerDay,
  MaxTime         \* bound on the clock

Hours == 0..(HoursPerDay - 1)
TargetSet == ToSet(Targets)
MetricSet == ToSet(Metrics)
KeySet == TargetSet \X MetricSet

BlockIo == "block_io_mb"

ASSUME ResourceMonitorAssumption ==
  /\ IsInjective(Targets) /\ Targets \in Seq(TargetSet)
  /\ IsInjective(Metrics) /\ Metrics \in Seq({"cpu_pct", "mem_pct", BlockIo})
  /\ Values \subseteq Nat /\ Transfers \subseteq Nat
  /\ AlphaNum \in Nat \ {0} /\ AlphaDen \in Nat \ {0} /\ AlphaNum <= AlphaDen
  /\ MinSamples \in Nat
  /\ ThresholdSq \in Nat /\ CriticalSq \in Nat
  /\ AbsThreshold \in [MetricSet -> Nat] /\ CriticalAbs \in [MetricSet -> Nat]
  /\ Cooldown \in Nat
  /\ CyclesPerHour \in Nat \ {0} /\ HoursPerDay \in Nat \ {0}
  /\ MaxTime \in Nat

VARIABLES
  now,         \* the clock
  total,       \* the block I/O counter of each container
  phase,          \* "collect", "judge", "post" or "down"
  todo,        \* the samples of this cycle that are not judged yet
  current,     \* the sample judged last
  prev,        \* _prev_blkio, Never without an entry
  baseline,    \* the table baseline, on a volume
  lastAlert,   \* _last_alert, Never without an entry
  seen,        \* history: the values of each key and hour
  told,        \* history: when a post about each key last arrived, or Never
  forgotten,   \* history: the keys whose last post arrived and is not in _last_alert
  pending,     \* history: the I/O done since the first reading that no delta has covered
  replaced     \* history: the containers restarted since the process last started

ioVars == <<total, prev, pending, replaced>>
storeVars == <<baseline, seen>>
alertVars == <<lastAlert, told, forgotten>>
monitorVars == <<now, phase, todo, current, ioVars, storeVars, alertVars>>

Never == -1

NoRecord == [count |-> 0, ema |-> 0, m2 |-> 0]

Hour == (now \div CyclesPerHour) % HoursPerDay

Phases == {"collect", "judge", "post", "down"}
Severities == {"none", "warning", "critical"}

NoSample == [key |-> <<>>, value |-> 0, severity |-> "none"]

MonitorInit ==
  /\ now = 0
  /\ total \in [TargetSet -> Transfers]
  /\ phase = "collect"
  /\ todo = <<>>
  /\ current = NoSample
  /\ prev = [t \in TargetSet |-> Never]
  /\ baseline = [k \in KeySet |-> [h \in Hours |-> NoRecord]]
  /\ lastAlert = [k \in KeySet |-> Never]
  /\ seen = [k \in KeySet |-> [h \in Hours |-> <<>>]]
  /\ told = [k \in KeySet |-> Never]
  /\ forgotten = {}
  /\ pending = [t \in TargetSet |-> 0]
  /\ replaced = {}

-----------------------------------------------------------------------------
(* collector.py. *)

\* Faulty: without an earlier reading, everything since the container started.
DeltaFromZero(t) == IF prev[t] = Never THEN total[t] ELSE total[t] - prev[t]

\* Faulty: a counter that went back counts downwards.
DeltaSigned(t) == IF prev[t] = Never THEN 0 ELSE total[t] - prev[t]

\* The block I/O since the last reading; nothing after the first one, or when the
\* container's counter went back.
Delta(t) == IF prev[t] = Never \/ total[t] < prev[t] THEN 0 ELSE total[t] - prev[t]

\* The samples of the containers got, by container and metric.
SamplesOf(t, got, gauge) ==
  IF t \in got
  THEN [j \in DOMAIN Metrics |->
         [key |-> <<t, Metrics[j]>>,
          value |-> IF Metrics[j] = BlockIo THEN Delta(t) ELSE gauge[t][Metrics[j]]]]
  ELSE <<>>

Samples(got, gauge) ==
  LET upTo[i \in 0..Len(Targets)] ==
        IF i = 0 THEN <<>> ELSE upTo[i - 1] \o SamplesOf(Targets[i], got, gauge)
  IN upTo[Len(Targets)]

\* collect_all: a container that is gone, or whose statistics cannot be read or parsed,
\* is left out, and its counter is compared with the older reading next time.
Collect ==
  /\ phase = "collect"
  /\ now < MaxTime
  /\ \E got \in SUBSET TargetSet, gauge \in [TargetSet -> [MetricSet \ {BlockIo} -> Values]] :
       /\ todo' = Samples(got, gauge)
       /\ prev' = [t \in TargetSet |-> IF t \in got THEN total[t] ELSE prev[t]]
       /\ pending' = [t \in TargetSet |-> IF t \in got THEN pending[t] - Delta(t) ELSE pending[t]]
  /\ phase' = "judge"
  /\ UNCHANGED <<now, current, total, replaced, storeVars, alertVars>>

-----------------------------------------------------------------------------
(* BaselineStore.update and detect. *)

\* How far value is from the mean of record, times AlphaDen^(count - 1).
Deviation(record, value) == value * Power(AlphaDen, record.count - 1) - record.ema

\* Faulty: the second distance is taken the other way round.
UpdateSwapped(record, value) ==
  IF record.count = 0
  THEN [count |-> 1, ema |-> value, m2 |-> 0]
  ELSE LET delta == Deviation(record, value)
           ema == AlphaDen * record.ema + AlphaNum * delta
       IN [count |-> record.count + 1, ema |-> ema,
           m2 |-> AlphaDen * AlphaDen * record.m2 + delta * (ema - value * Power(AlphaDen, record.count))]

\* The first sample is the mean; a later one moves it by AlphaNum / AlphaDen of the
\* distance, and adds to the sum the product of the distances before and after.
Update(record, value) ==
  IF record.count = 0
  THEN [count |-> 1, ema |-> value, m2 |-> 0]
  ELSE LET delta == Deviation(record, value)
           ema == AlphaDen * record.ema + AlphaNum * delta
           delta2 == value * Power(AlphaDen, record.count) - ema
       IN [count |-> record.count + 1,
           ema |-> ema,
           m2 |-> AlphaDen * AlphaDen * record.m2 + delta * delta2]

\* Faulty: the variance is the sum over count.
BeyondPopulation(record, value, limit) ==
  Deviation(record, value) * Deviation(record, value) * record.count
    > limit * record.m2 * AlphaDen

\* The z-score's square is above limit: the variance is the sum over count - 1.
Beyond(record, value, limit) ==
  Deviation(record, value) * Deviation(record, value) * (record.count - 1)
    > limit * record.m2 * AlphaDen

IsAnomaly(record, metric, value) ==
  /\ record.count >= MinSamples
  /\ record.m2 > 0
  /\ Beyond(record, value, ThresholdSq)
  /\ value >= AbsThreshold[metric]

Severity(record, metric, value) ==
  IF Beyond(record, value, CriticalSq) \/ value > CriticalAbs[metric] THEN "critical" ELSE "warning"

Detect(record, metric, value) ==
  IF IsAnomaly(record, metric, value) THEN Severity(record, metric, value) ELSE "none"

\* The baseline that a value is judged against: the value is in it already.
Judged(record, value) == Update(record, value)

-----------------------------------------------------------------------------
(* The loop. *)

\* Faulty: the cooldown is over as soon as it is asked about.
CooledDownAlways(k) == TRUE

CooledDown(k) == lastAlert[k] = Never \/ now - lastAlert[k] >= Cooldown

\* The next sample; an anomaly is posted unless its cooldown runs.
JudgeSample ==
  /\ phase = "judge"
  /\ todo # <<>>
  /\ LET key == Head(todo).key
         value == Head(todo).value
         old == baseline[key][Hour]
     IN /\ baseline' = [baseline EXCEPT ![key][Hour] = Update(old, value)]
        /\ seen' = [seen EXCEPT ![key][Hour] = Append(@, value)]
        /\ current' = [key |-> key, value |-> value,
                       severity |-> Detect(Judged(old, value), key[2], value)]
        /\ phase' = IF current'.severity # "none" /\ CooledDown(key) THEN "post" ELSE "judge"
  /\ todo' = Tail(todo)
  /\ UNCHANGED <<now, ioVars, alertVars>>

\* Slack accepts the post.
PostAccepted ==
  /\ phase = "post"
  /\ lastAlert' = [lastAlert EXCEPT ![current.key] = now]
  /\ told' = [told EXCEPT ![current.key] = now]
  /\ forgotten' = forgotten \ {current.key}
  /\ phase' = "judge"
  /\ UNCHANGED <<now, todo, current, ioVars, storeVars>>

\* The post raises, which is logged; it may have arrived.
PostRaises ==
  /\ phase = "post"
  /\ \/ UNCHANGED <<told, forgotten>>
     \/ /\ told' = [told EXCEPT ![current.key] = now]
        /\ forgotten' = forgotten \cup {current.key}
  /\ phase' = "judge"
  /\ UNCHANGED <<now, todo, current, ioVars, storeVars, lastAlert>>

\* What the containers do in the meantime: they add to their counters, or start again
\* from a counter of zero.
ContainersGoOn ==
  \E again \in SUBSET TargetSet, more \in [TargetSet -> Transfers] :
    /\ total' = [t \in TargetSet |-> more[t] + IF t \in again THEN 0 ELSE total[t]]
    /\ pending' = [t \in TargetSet |-> IF prev[t] = Never THEN 0 ELSE pending[t] + more[t]]
    /\ replaced' = replaced \cup again

\* The loop sleeps and goes round.
Sleep ==
  /\ phase = "judge"
  /\ todo = <<>>
  /\ now < MaxTime
  /\ now' = now + 1
  /\ phase' = "collect"
  /\ current' = NoSample
  /\ ContainersGoOn
  /\ UNCHANGED <<todo, prev, storeVars, alertVars>>

\* SQLite raises in update, which nothing catches, or the process is killed.
MonitorCrash ==
  /\ phase # "down"
  /\ phase' = "down"
  /\ todo' = <<>>
  /\ current' = NoSample
  /\ prev' = [t \in TargetSet |-> Never]
  /\ lastAlert' = [k \in KeySet |-> Never]
  /\ forgotten' = {k \in KeySet : told[k] # Never}
  /\ pending' = [t \in TargetSet |-> 0]
  /\ replaced' = {}
  /\ UNCHANGED <<now, total, storeVars, told>>

\* Docker starts the process again, in a later cycle while the clock has one.
Restart ==
  /\ phase = "down"
  /\ \/ now' \in (now + 1)..MaxTime /\ ContainersGoOn
     \/ now = MaxTime /\ UNCHANGED <<now, ioVars>>
  /\ phase' = "collect"
  /\ UNCHANGED <<todo, current, prev, storeVars, alertVars>>

-----------------------------------------------------------------------------
MonitorNext ==
  \/ Collect
  \/ JudgeSample
  \/ PostAccepted
  \/ PostRaises
  \/ Sleep
  \/ MonitorCrash
  \/ Restart

MonitorSpec == MonitorInit /\ [][MonitorNext]_monitorVars

-----------------------------------------------------------------------------
(* Properties. *)

\* Types, and what goes with each place: a post is about an anomaly.
MonitorTypeOK ==
  /\ now \in 0..MaxTime
  /\ total \in [TargetSet -> Nat]
  /\ phase \in Phases
  /\ todo \in Seq([key : KeySet, value : Nat])
  /\ phase # "judge" /\ phase # "post" => todo = <<>>
  /\ \/ current = NoSample
     \/ current \in [key : KeySet, value : Nat, severity : Severities]
  /\ phase = "post" => current.severity # "none"
  /\ prev \in [TargetSet -> Nat \cup {Never}]
  /\ baseline \in [KeySet -> [Hours -> [count : Nat, ema : Nat, m2 : Nat]]]
  /\ lastAlert \in [KeySet -> Never..now]
  /\ seen \in [KeySet -> [Hours -> Seq(Nat)]]
  /\ told \in [KeySet -> Never..now]
  /\ forgotten \subseteq KeySet
  /\ pending \in [TargetSet -> Int]
  /\ replaced \subseteq TargetSet

\* The weight of the i-th of n samples in their mean, times AlphaDen^(n - 1): the newest
\* weighs most, and the oldest has the weight that is left.
Weight(i, n) ==
  IF i = 1
  THEN Power(AlphaDen - AlphaNum, n - 1)
  ELSE AlphaNum * Power(AlphaDen - AlphaNum, n - i) * Power(AlphaDen, i - 2)

\* The weighted mean of the first n samples, scaled.
ReferenceMean(s, n) == SumTo([i \in 1..n |-> Weight(i, n) * s[i]], n)

\* The distance of a sample from the mean of those before it, scaled.
Distance(s, i) ==
  IF i = 1 THEN 0 ELSE s[i] * Power(AlphaDen, i - 2) - ReferenceMean(s, i - 1)

\* The sum of the squares of these distances, scaled.
ReferenceSum(s, n) ==
  SumTo([i \in 1..n |-> (AlphaDen - AlphaNum) * Distance(s, i) * Distance(s, i)
                          * Power(AlphaDen, 2 * (n - i))], n)

\* A row is what its definition says of all the samples of its key and hour, although it
\* is updated one sample at a time and outlives the process.
BaselineIsReference ==
  \A k \in KeySet, h \in Hours :
    LET s == seen[k][h]
    IN baseline[k][h] =
         IF s = <<>> THEN NoRecord
         ELSE [count |-> Len(s), ema |-> ReferenceMean(s, Len(s)), m2 |-> ReferenceSum(s, Len(s))]

\* Since a value is in the baseline that it is judged against, its z-score is at most the
\* square root of (1 - alpha)(count - 1): no value, however extreme, is an anomaly before
\* there are enough samples for the threshold, whatever min_samples is.  And after equal
\* samples, the first different one is an anomaly whatever the distance, as soon as there
\* are enough of them and unless it is below the absolute guard, and critical when there are
\* more; against the baseline before it, whose variance is zero, it could not be one.
AlarmsAreOfCount ==
  current # NoSample =>
    LET s == seen[current.key][Hour]
        n == Len(s)
        Reaches(limit) == (AlphaDen - AlphaNum) * (n - 1) > limit * AlphaDen
    IN /\ current.severity # "none" => Reaches(ThresholdSq)
       /\ (n >= 2 /\ s[n] # s[1] /\ \A i \in 1..(n - 1) : s[i] = s[1]) =>
            /\ current.severity # "none"
                 <=> /\ n >= MinSamples /\ Reaches(ThresholdSq)
                     /\ s[n] >= AbsThreshold[current.key[2]]
            /\ current.severity = "critical"
                 <=> /\ current.severity # "none"
                     /\ Reaches(CriticalSq) \/ s[n] > CriticalAbs[current.key[2]]

\* Nothing is suppressed for an alert that nobody received: a running cooldown began with
\* a post that arrived.
CooldownMeansTold ==
  \A k \in KeySet : told[k] >= lastAlert[k]

\* A cooldown suppresses what it should and nothing else: it begins with a post that
\* arrived, and two posts about a key arrive within one only if the process could not know
\* of the first: its post had raised, or the process restarted in between.
OneAlertPerCooldown ==
  /\ []CooldownMeansTold
  /\ [][\A k \in KeySet :
          (told'[k] # told[k] /\ told[k] # Never) =>
            told'[k] - told[k] >= Cooldown \/ k \in forgotten]_monitorVars

\* Block I/O is reported once: while a container is not replaced, a reading that fails
\* moves what it would have covered into the next delta and loses none of it, and no
\* replacement makes a delta report what was not done.
IoReportedOnce ==
  \A t \in TargetSet :
    prev[t] # Never =>
      /\ pending[t] >= 0
      /\ t \notin replaced => pending[t] = total[t] - prev[t]

-----------------------------------------------------------------------------
(* The inductive invariant. *)

\* The sample judged last is the newest of this hour's, and was judged against its row.
CurrentIsNewest ==
  /\ phase \in {"collect", "down"} => current = NoSample
  /\ current # NoSample =>
       LET s == seen[current.key][Hour]
       IN /\ s # <<>> /\ s[Len(s)] = current.value
          /\ current.severity = Detect(baseline[current.key][Hour], current.key[2], current.value)

\* The I/O that is not reported yet is at least what the counter shows.
IoCovered ==
  \A t \in TargetSet :
    IF prev[t] = Never
    THEN pending[t] = 0
    ELSE total[t] - prev[t] <= pending[t]

\* _last_alert is behind only where a post arrived unknown, and nothing is posted while a
\* cooldown runs.
AlertsAreKnown ==
  /\ CooldownMeansTold
  /\ \A k \in KeySet : k \notin forgotten => told[k] = lastAlert[k]
  /\ phase = "post" => CooledDown(current.key)

MonitorIInv ==
  /\ MonitorTypeOK
  /\ BaselineIsReference
  /\ CurrentIsNewest
  /\ IoReportedOnce
  /\ IoCovered
  /\ AlertsAreKnown
=============================================================================
