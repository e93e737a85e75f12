------------------------------ MODULE S3Exporter ------------------------------
(***************************************************************************)
(* The daily export of src/src/s3_exporter/main.py: at 01:00 UTC the       *)
(* daemon reads yesterday from QuestDB, hour by hour, and puts one Parquet *)
(* object on S3.  An operator may run "main.py --once" in the daemon's     *)
(* container, for any date, with or without --force; the daemon is the     *)
(* container's first process, so that the operator's run ends with it.     *)
(*                                                                         *)
(* External: QuestDB, to which rows come during the hour of their          *)
(* timestamp or later and which drops a day when its TTL is over; S3,      *)
(* which may fail a call before or after it stored the object; and Docker, *)
(* which restarts the container.                                           *)
(*                                                                         *)
(* Left out: the columns and their conversion, and the check of S3_BUCKET. *)
(* The container has no TZ, so date.today() is the day in UTC.             *)
(***************************************************************************)
EXTENDS Integers

CONSTANTS
  Rows,           \* the rows that ever reach wikimedia_events
  RowDay,         \* the day of each row's timestamp
  RowHour,        \* the hour of each row's timestamp
  HoursPerDay,    \* the chunks of a day: 24
  RunHour,        \* when the daemon runs: 1
  TtlDays,        \* days that QuestDB keeps after a row's own: 5
  LastDay         \* bound on the clock

Days == 0..LastDay
Hours == 0..(HoursPerDay - 1)

ASSUME S3ExporterAssumption ==
  /\ HoursPerDay \in Nat \ {0}
  /\ RunHour \in Hours \ {0}
  /\ TtlDays \in Nat /\ TtlDays >= 2
  /\ LastDay \in Nat
  /\ RowDay \in [Rows -> Days]
  /\ RowHour \in [Rows -> Hours]

VARIABLES
  day, hour,   \* the clock, in UTC
  stored,      \* QuestDB: the rows of wikimedia_events
  inTime,      \* history: the rows stored before their own day was over
  excused,     \* history: the days that were exported before they were over, or that
               \* QuestDB dropped while an export read them
  files,       \* S3: the rows of each day's object; there is no empty object
  pc,          \* where each process is, see Places
  target,      \* target of export, per process
  force,       \* force of export, per process
  chunk,       \* hour of the loop of export, per process
  buf,         \* buf of export: the rows read so far, per process
  nextRun,     \* next_run: the day of the daemon's next run
  firstRun     \* history: the first next_run of this daemon

clockVars == <<day, hour>>
questVars == <<stored, inTime>>
exportVars == <<pc, target, force, chunk, buf>>
runVars == <<nextRun, firstRun>>
vars == <<clockVars, questVars, excused, files, exportVars, runVars>>

Procs == {"daemon", "manual"}
Places == {"down", "asleep", "check", "fetch", "upload"}
Exporting(p) == pc[p] \in {"check", "fetch", "upload"}

RowsOf(d) == {r \in Rows : RowDay[r] = d}

\* Faulty: always tomorrow.
NextRunTomorrow == day + 1

\* _next_run_utc: today, unless it is RunHour already.
NextRun == IF hour >= RunHour THEN day + 1 ELSE day

RunIsDue == day = nextRun /\ hour >= RunHour

\* Process p runs nothing: its locals are gone.
Clear(p) ==
  /\ target' = [target EXCEPT ![p] = 0]
  /\ force' = [force EXCEPT ![p] = FALSE]
  /\ chunk' = [chunk EXCEPT ![p] = 0]
  /\ buf' = [buf EXCEPT ![p] = {}]

Init ==
  /\ day = 0
  /\ hour = 0
  /\ stored = {}
  /\ inTime = {}
  /\ excused = {}
  /\ files = [d \in Days |-> {}]
  /\ pc = [p \in Procs |-> IF p = "daemon" THEN "asleep" ELSE "down"]
  /\ target = [p \in Procs |-> 0]
  /\ force = [p \in Procs |-> FALSE]
  /\ chunk = [p \in Procs |-> 0]
  /\ buf = [p \in Procs |-> {}]
  /\ nextRun = NextRun
  /\ firstRun = nextRun

-----------------------------------------------------------------------------
(* Time and QuestDB. *)

\* time.sleep ends on time, and an export is over before the next run is due: 24
\* queries and one upload take less than a day.
Tick ==
  /\ ~(pc["daemon"] = "asleep" /\ RunIsDue)
  /\ ~(Exporting("daemon") /\ day > nextRun)
  /\ \/ hour + 1 \in Hours /\ hour' = hour + 1 /\ UNCHANGED day
     \/ hour + 1 \notin Hours /\ day < LastDay /\ hour' = 0 /\ day' = day + 1
  /\ UNCHANGED <<questVars, excused, files, exportVars, runVars>>

\* A row is stored, in its hour or later; one whose day has expired is not kept.
RowStored ==
  \E r \in Rows \ stored :
    /\ RowDay[r] < day \/ (RowDay[r] = day /\ RowHour[r] <= hour)
    /\ day <= RowDay[r] + TtlDays
    /\ stored' = stored \cup {r}
    /\ inTime' = IF RowDay[r] = day THEN inTime \cup {r} ELSE inTime
    /\ UNCHANGED <<clockVars, excused, files, exportVars, runVars>>

DayDropped ==
  \E d \in Days :
    /\ day > d + TtlDays
    /\ RowsOf(d) \cap stored # {}
    /\ stored' = stored \ RowsOf(d)
    /\ excused' = IF \E p \in Procs : pc[p] = "fetch" /\ target[p] = d
                  THEN excused \cup {d} ELSE excused
    /\ UNCHANGED <<clockVars, inTime, files, exportVars, runVars>>

-----------------------------------------------------------------------------
(* Starting an export. *)

\* Faulty: the target is computed before the sleep.
YesterdayBeforeSleep == nextRun - 2

\* What the daemon exports once it is awake: date.today() - timedelta(days=1).
Yesterday == day - 1

\* The daemon wakes up at RunHour.
Wake ==
  /\ pc["daemon"] = "asleep"
  /\ RunIsDue
  /\ IF Yesterday \in Days
     THEN /\ pc' = [pc EXCEPT !["daemon"] = "check"]
          /\ target' = [target EXCEPT !["daemon"] = Yesterday]
          /\ UNCHANGED nextRun
     ELSE /\ nextRun' = NextRun   \* the days before the model's have no rows
          /\ UNCHANGED <<pc, target>>
  /\ UNCHANGED <<clockVars, questVars, excused, files, force, chunk, buf, firstRun>>

\* An operator runs main.py --once, with any EXPORT_DATE.
RunOnce ==
  /\ pc["daemon"] # "down"
  /\ pc["manual"] = "down"
  /\ \E d \in 0..day, f \in BOOLEAN :
       /\ target' = [target EXCEPT !["manual"] = d]
       /\ force' = [force EXCEPT !["manual"] = f]
       /\ excused' = IF d = day THEN excused \cup {d} ELSE excused
  /\ pc' = [pc EXCEPT !["manual"] = "check"]
  /\ UNCHANGED <<clockVars, questVars, files, chunk, buf, runVars>>

-----------------------------------------------------------------------------
(* export. *)

\* export returns: the daemon computes its next run, the operator's process ends.
Return(p) ==
  /\ Clear(p)
  /\ pc' = [pc EXCEPT ![p] = IF p = "daemon" THEN "asleep" ELSE "down"]
  /\ nextRun' = IF p = "daemon" THEN NextRun ELSE nextRun
  /\ UNCHANGED firstRun

\* An object that exists is left alone, unless forced.
Check(p) ==
  /\ pc[p] = "check"
  /\ IF ~force[p] /\ files[target[p]] # {}
     THEN Return(p)
     ELSE /\ pc' = [pc EXCEPT ![p] = "fetch"]
          /\ UNCHANGED <<target, force, chunk, buf, runVars>>
  /\ UNCHANGED <<clockVars, questVars, excused, files>>

Got(p) == {r \in stored : RowDay[r] = target[p] /\ RowHour[r] = chunk[p]}

\* Faulty: the writer is made anew for every hour.
ReadLast(p) == IF Got(p) = {} THEN buf[p] ELSE Got(p)

\* The writer is made for the first hour with rows and goes on with the later ones.
Read(p) == buf[p] \cup Got(p)

IsLastChunk(p) == chunk[p] + 1 \notin Hours

\* One hour is read; after the last one, a day without rows makes no object.
FetchHour(p) ==
  /\ pc[p] = "fetch"
  /\ IF IsLastChunk(p) /\ Read(p) = {}
     THEN Return(p)
     ELSE /\ buf' = [buf EXCEPT ![p] = Read(p)]
          /\ IF IsLastChunk(p)
             THEN pc' = [pc EXCEPT ![p] = "upload"] /\ UNCHANGED chunk
             ELSE chunk' = [chunk EXCEPT ![p] = chunk[p] + 1] /\ UNCHANGED pc
          /\ UNCHANGED <<target, force, runVars>>
  /\ UNCHANGED <<clockVars, questVars, excused, files>>

\* put_object replaces whatever is there, also what was put since the check.
Upload(p) ==
  /\ pc[p] = "upload"
  /\ files' = [files EXCEPT ![target[p]] = buf[p]]
  /\ Return(p)
  /\ UNCHANGED <<clockVars, questVars, excused>>

-----------------------------------------------------------------------------
(* Failures: only a missing object is caught. *)

\* The daemon ends, and with it the container.
Down ==
  /\ pc' = [p \in Procs |-> "down"]
  /\ target' = [p \in Procs |-> 0]
  /\ force' = [p \in Procs |-> FALSE]
  /\ chunk' = [p \in Procs |-> 0]
  /\ buf' = [p \in Procs |-> {}]

\* S3 or QuestDB makes a call raise; put_object may have stored the object all the same.
Raises(p) ==
  /\ Exporting(p)
  /\ \/ UNCHANGED files
     \/ pc[p] = "upload" /\ files' = [files EXCEPT ![target[p]] = buf[p]]
  /\ IF p = "daemon" THEN Down ELSE Clear(p) /\ pc' = [pc EXCEPT ![p] = "down"]
  /\ UNCHANGED <<clockVars, questVars, excused, runVars>>

Crash ==
  /\ pc["daemon"] # "down"
  /\ Down
  /\ UNCHANGED <<clockVars, questVars, excused, files, runVars>>

\* Docker starts the container again: restart: always.
Restart ==
  /\ pc["daemon"] = "down"
  /\ pc' = [pc EXCEPT !["daemon"] = "asleep"]
  /\ nextRun' = NextRun
  /\ firstRun' = nextRun'
  /\ UNCHANGED <<clockVars, questVars, excused, files, target, force, chunk, buf>>

-----------------------------------------------------------------------------
Next ==
  \/ Tick
  \/ RowStored
  \/ DayDropped
  \/ Wake
  \/ RunOnce
  \/ \E p \in Procs : Check(p) \/ FetchHour(p) \/ Upload(p) \/ Raises(p)
  \/ Crash
  \/ Restart

Spec == Init /\ [][Next]_vars

-----------------------------------------------------------------------------
(* Properties. *)

\* The types; and the daemon never sleeps for more than a day.
TypeOK ==
  /\ day \in Days /\ hour \in Hours
  /\ stored \subseteq Rows /\ inTime \subseteq Rows
  /\ excused \subseteq Days
  /\ files \in [Days -> SUBSET Rows]
  /\ pc \in [Procs -> Places] /\ pc["manual"] # "asleep"
  /\ target \in [Procs -> Days]
  /\ force \in [Procs -> BOOLEAN]
  /\ chunk \in [Procs -> Hours]
  /\ buf \in [Procs -> SUBSET Rows]
  /\ nextRun \in 0..(LastDay + 1) /\ firstRun \in 0..nextRun
  /\ pc["daemon"] = "asleep" => nextRun - day \in {0, 1} /\ ~(nextRun > day /\ hour < RunHour)

\* An object holds every row of its day that was stored before the day was over, however
\* the daemon's export, the operator's and the expiry of the day interleave; the day must
\* not have been exported while it lasted, or dropped while an export read it.
FileHoldsItsDay ==
  \A d \in Days \ excused : files[d] # {} => RowsOf(d) \cap inTime \subseteq files[d]

\* While the daemon lives it misses no day: once a run is over, the day before it has an
\* object if it had rows, also when an operator's export was in the way.
EveryRunExports ==
  pc["daemon"] = "asleep" =>
    \A d \in Days :
      firstRun <= d + 1 /\ d + 1 < nextRun /\ RowsOf(d) \cap inTime # {} => files[d] # {}

\* docs/NFR.md, NFR-RC4: the daily backup loses at most one day.  What was stored in time
\* of a day is on S3 at the latest when the daemon has completed the second run after the
\* end of that day.
RpoOneDay ==
  pc["daemon"] = "asleep" =>
    \A r \in inTime :
      firstRun <= RowDay[r] + 2 /\ RowDay[r] + 2 < nextRun => r \in files[RowDay[r]]
=============================================================================
