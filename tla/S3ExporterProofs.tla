--------------------------- MODULE S3ExporterProofs ---------------------------
(***************************************************************************)
(* Proofs about S3Exporter, for any rows, days of any number of hours, any *)
(* hour of the run and any TTL of two days or more: whatever the daemon's  *)
(* export, the operator's, the clock and QuestDB do in between, an object  *)
(* has what was stored of its day in time, and the daemon misses no day.   *)
(***************************************************************************)
EXTENDS S3Exporter, TLAPS

-----------------------------------------------------------------------------
(* The invariant. *)

InTimeOf(d) == RowsOf(d) \cap inTime

\* QuestDB dropped the day, and takes no row of it any more.
Gone(d) == RowsOf(d) \cap stored = {} /\ day > d + TtlDays

\* A day is dropped as a whole.
Kept == \A d \in Days : InTimeOf(d) \subseteq stored \/ Gone(d)

\* A process that reads and uploads nothing has nothing read.
NothingReadYet(p) == pc[p] \notin {"fetch", "upload"} => chunk[p] = 0 /\ buf[p] = {}

NoEmptyUpload(p) == pc[p] = "upload" => buf[p] # {}

DayIsOver(p) == Exporting(p) /\ target[p] \notin excused => target[p] < day

\* buf has the rows of the target whose hour was read.
HasRead(p) == \A r \in InTimeOf(target[p]) : RowHour[r] < chunk[p] => r \in buf[p]

\* An export reads all of its day, or comes after the day was dropped and reads nothing.
ReadsItsDay(p) ==
  target[p] \notin excused =>
    /\ pc[p] = "fetch" => \/ InTimeOf(target[p]) \subseteq stored /\ HasRead(p)
                          \/ Gone(target[p]) /\ buf[p] = {}
    /\ pc[p] = "upload" => InTimeOf(target[p]) \subseteq buf[p]

ExportOK(p) == NothingReadYet(p) /\ NoEmptyUpload(p) /\ DayIsOver(p) /\ ReadsItsDay(p)

FilesAreOver == \A d \in Days \ excused : files[d] # {} => d < day

\* The daemon runs on the day it waited for, from RunHour on, or at midnight after it.
RunOnTime ==
  /\ Exporting("daemon") =>
       /\ target["daemon"] = nextRun - 1
       /\ (day = nextRun /\ hour >= RunHour) \/ (day = nextRun + 1 /\ hour = 0)
  /\ pc["daemon"] = "asleep" =>
       (nextRun = day + 1 /\ hour >= RunHour) \/ nextRun = day

\* The daemon comes before its day is dropped.
DaemonReads == pc["daemon"] = "fetch" => HasRead("daemon")

RunsExported ==
  pc["daemon"] # "down" =>
    \A d \in Days :
      firstRun <= d + 1 /\ d + 1 < nextRun /\ InTimeOf(d) # {} => files[d] # {}

DaemonOK == RunOnTime /\ DaemonReads /\ RunsExported

IInv ==
  /\ TypeOK
  /\ Kept
  /\ \A p \in Procs : ExportOK(p)
  /\ FilesAreOver
  /\ FileHoldsItsDay
  /\ DaemonOK

-----------------------------------------------------------------------------
(* Time, days and what leaves them alone. *)

\* The clock, the runs and the places of an export are numbers within their bounds.
LEMMA Numbers ==
  ASSUME TypeOK
  PROVE  /\ day \in Nat /\ day <= LastDay /\ hour \in Nat /\ hour < HoursPerDay
         /\ nextRun \in Nat /\ nextRun <= LastDay + 1 /\ firstRun \in Nat /\ firstRun <= nextRun
         /\ \A p \in Procs : target[p] \in Nat /\ target[p] \in Days /\ chunk[p] \in Nat
                             /\ chunk[p] \in Hours
         /\ \A d \in Days : d \in Nat /\ d <= LastDay
         /\ \A h \in Hours : h \in Nat /\ h < HoursPerDay
         /\ RunHour \in Nat /\ RunHour > 0 /\ RunHour < HoursPerDay /\ HoursPerDay \in Nat
         /\ TtlDays \in Nat /\ TtlDays >= 2 /\ LastDay \in Nat
  BY S3ExporterAssumption DEF TypeOK, Days, Hours

\* A row has a day and an hour.
LEMMA RowFacts ==
  \A r \in Rows : RowDay[r] \in Days /\ RowDay[r] \in Nat /\ RowHour[r] \in Hours /\ RowHour[r] \in Nat
  BY S3ExporterAssumption DEF Days, Hours

\* An export that stands still while excused grows.
LEMMA ExportKept ==
  ASSUME NEW p, ExportOK(p), UNCHANGED <<clockVars, questVars>>, excused \subseteq excused',
         pc'[p] = pc[p], target'[p] = target[p], chunk'[p] = chunk[p], buf'[p] = buf[p]
  PROVE  ExportOK(p)'
<1>1. UNCHANGED <<day, hour, stored, inTime>>
  BY DEF clockVars, questVars
<1>2. NothingReadYet(p)' /\ NoEmptyUpload(p)' /\ DayIsOver(p)'
  BY <1>1 DEF ExportOK, NothingReadYet, NoEmptyUpload, DayIsOver, Exporting
<1>3. ReadsItsDay(p)'
  BY <1>1 DEF ExportOK, ReadsItsDay, InTimeOf, RowsOf, HasRead, Gone
<1> QED BY <1>2, <1>3 DEF ExportOK

\* A process without an export.
LEMMA ExportIdle ==
  ASSUME NEW p, pc'[p] \in {"down", "asleep"}, chunk'[p] = 0, buf'[p] = {}
  PROVE  ExportOK(p)'
  BY DEF ExportOK, NothingReadYet, NoEmptyUpload, DayIsOver, Exporting, ReadsItsDay

\* What leaves the clock and QuestDB alone keeps the days whole.
LEMMA KeptKept == ASSUME Kept, UNCHANGED <<clockVars, questVars>> PROVE Kept'
  BY DEF Kept, InTimeOf, RowsOf, Gone, clockVars, questVars

\* What leaves QuestDB and S3 alone keeps the objects whole.
LEMMA FilesKept ==
  ASSUME FilesAreOver, FileHoldsItsDay, UNCHANGED <<clockVars, questVars, files>>,
         excused \subseteq excused'
  PROVE  FilesAreOver' /\ FileHoldsItsDay'
  BY DEF FilesAreOver, FileHoldsItsDay, RowsOf, clockVars, questVars

\* The daemon stands still, and no object is lost.
LEMMA DaemonKept ==
  ASSUME DaemonOK, UNCHANGED <<clockVars, questVars, runVars>>,
         pc'["daemon"] = pc["daemon"], target'["daemon"] = target["daemon"],
         chunk'["daemon"] = chunk["daemon"], buf'["daemon"] = buf["daemon"],
         \A d \in Days : files[d] # {} => files'[d] # {}
  PROVE  DaemonOK'
<1>1. UNCHANGED <<day, hour, stored, inTime, nextRun, firstRun>>
  BY DEF clockVars, questVars, runVars
<1>2. RunOnTime'
  BY <1>1 DEF DaemonOK, RunOnTime, Exporting
<1>3. DaemonReads'
  BY <1>1 DEF DaemonOK, DaemonReads, HasRead, InTimeOf, RowsOf
<1>4. RunsExported'
  BY <1>1 DEF DaemonOK, RunsExported, InTimeOf, RowsOf
<1> QED BY <1>2, <1>3, <1>4 DEF DaemonOK

\* Nothing is asked of a daemon that is down.
LEMMA DaemonDown == ASSUME pc'["daemon"] = "down" PROVE DaemonOK'
  BY DEF DaemonOK, RunOnTime, DaemonReads, RunsExported, Exporting

-----------------------------------------------------------------------------
(* Time and QuestDB. *)

\* No rows, no objects and no export at the start.
LEMMA InitIInv == Init => IInv
<1> SUFFICES ASSUME Init PROVE IInv
  OBVIOUS
<1>1. 0 \in Days /\ 0 \in Hours /\ RunHour > 0
  BY S3ExporterAssumption DEF Days, Hours
<1>2. nextRun = 0 /\ firstRun = 0
  BY <1>1, S3ExporterAssumption DEF Init, NextRun, Hours
<1>3. "daemon" \in Procs /\ "manual" \in Procs
      /\ pc["daemon"] = "asleep" /\ \A p \in Procs : pc[p] \in {"down", "asleep"}
  BY DEF Init, Procs
<1>4. TypeOK
  BY <1>1, <1>2, <1>3, S3ExporterAssumption DEF Init, TypeOK, Places, Procs
<1>5. Kept /\ FilesAreOver /\ FileHoldsItsDay
  BY DEF Init, Kept, InTimeOf, FilesAreOver, FileHoldsItsDay
<1>6. \A p \in Procs : ExportOK(p)
  BY <1>3 DEF Init, ExportOK, NothingReadYet, NoEmptyUpload, DayIsOver, Exporting, ReadsItsDay
<1>7. DaemonOK
  BY <1>2, <1>3 DEF Init, DaemonOK, RunOnTime, DaemonReads, RunsExported, Exporting, InTimeOf
<1> QED BY <1>4, <1>5, <1>6, <1>7 DEF IInv

\* The clock moves neither past a run that is due nor past the end of an export of the daemon.
LEMMA TickStep == ASSUME IInv, Tick PROVE IInv'
<1>1. /\ UNCHANGED <<stored, inTime, excused, files, pc, target, force, chunk, buf, nextRun, firstRun>>
      /\ ~(pc["daemon"] = "asleep" /\ RunIsDue) /\ ~(Exporting("daemon") /\ day > nextRun)
  BY DEF Tick, questVars, exportVars, runVars
<1>0. PICK d1, h1 : d1 = day' /\ h1 = hour'
  OBVIOUS
<1>2. /\ day \in Nat /\ hour \in Nat /\ nextRun \in Nat /\ RunHour \in Nat /\ HoursPerDay \in Nat
      /\ RunHour < HoursPerDay /\ TtlDays \in Nat
      /\ d1 \in Nat /\ h1 \in Nat /\ d1 >= day
      /\ \/ d1 = day /\ h1 = hour + 1
         \/ d1 = day + 1 /\ h1 = 0 /\ hour + 1 >= HoursPerDay
  BY <1>0, Numbers DEF IInv, Tick, Days, Hours
<1>3. /\ d1 \in Days /\ h1 \in Hours
      /\ \A p \in Procs : target[p] \in Nat
      /\ \A d \in Days : d \in Nat
  BY <1>0, Numbers DEF IInv, Tick, Days, Hours
<1>4. RunOnTime'
  <2>1. Exporting("daemon")' <=> Exporting("daemon")
    BY <1>1 DEF Exporting
  <2>2. CASE Exporting("daemon")
    <3>1. target["daemon"] = nextRun - 1 /\ day = nextRun /\ hour >= RunHour /\ pc["daemon"] # "asleep"
      BY <1>1, <1>2, <2>2 DEF IInv, DaemonOK, RunOnTime, Exporting
    <3>2. (d1 = nextRun /\ h1 >= RunHour) \/ (d1 = nextRun + 1 /\ h1 = 0)
      BY <1>2, <3>1
    <3> QED BY <1>0, <1>1, <2>1, <3>1, <3>2 DEF RunOnTime
  <2>3. CASE pc["daemon"] = "asleep"
    <3>1. (nextRun = day + 1 /\ hour >= RunHour) \/ (nextRun = day /\ hour < RunHour)
      BY <1>1, <1>2, <2>3 DEF IInv, DaemonOK, RunOnTime, RunIsDue
    <3>2. (nextRun = d1 + 1 /\ h1 >= RunHour) \/ nextRun = d1
      BY <1>2, <3>1
    <3> QED BY <1>0, <1>1, <2>1, <2>3, <3>2 DEF RunOnTime, Exporting
  <2> QED BY <1>1, <2>1, <2>2, <2>3 DEF RunOnTime
<1>5. TypeOK'
  <2>1. pc'["daemon"] = "asleep" =>
          nextRun' - day' \in {0, 1} /\ ~(nextRun' > day' /\ hour' < RunHour)
    <3> SUFFICES ASSUME pc'["daemon"] = "asleep"
                 PROVE  nextRun - d1 \in {0, 1} /\ ~(nextRun > d1 /\ h1 < RunHour)
      BY <1>0, <1>1
    <3>1. (nextRun = d1 + 1 /\ h1 >= RunHour) \/ nextRun = d1
      BY <1>0, <1>1, <1>4 DEF RunOnTime
    <3>2. CASE nextRun = d1 + 1 /\ h1 >= RunHour
      BY <1>2, <3>2
    <3>3. CASE nextRun = d1
      BY <1>2, <3>3
    <3> QED BY <3>1, <3>2, <3>3
  <2> QED BY <1>0, <1>1, <1>3, <2>1 DEF IInv, TypeOK
<1>6. \A d \in Days : Gone(d) => Gone(d)'
  BY <1>0, <1>1, <1>2, <1>3 DEF Gone, RowsOf
<1>7. Kept'
  BY <1>1, <1>6 DEF IInv, Kept, InTimeOf, RowsOf
<1>8. \A p \in Procs : ExportOK(p)'
  <2> TAKE p \in Procs
  <2>1. ExportOK(p) /\ target[p] \in Days
    BY Numbers DEF IInv
  <2>2. NothingReadYet(p)' /\ NoEmptyUpload(p)'
    BY <1>1, <2>1 DEF ExportOK, NothingReadYet, NoEmptyUpload
  <2>3. DayIsOver(p)'
    BY <1>0, <1>1, <1>2, <1>3, <2>1 DEF ExportOK, DayIsOver, Exporting
  <2>4. ReadsItsDay(p)'
    BY <1>1, <1>6, <2>1 DEF ExportOK, ReadsItsDay, HasRead, InTimeOf, RowsOf
  <2> QED BY <2>2, <2>3, <2>4 DEF ExportOK
<1>9. FilesAreOver' /\ FileHoldsItsDay'
  <2>1. \A d \in Days : d < day => d < d1
    BY <1>2, <1>3
  <2>2. FilesAreOver'
    BY <1>0, <1>1, <2>1 DEF IInv, FilesAreOver
  <2>3. FileHoldsItsDay'
    BY <1>1 DEF IInv, FileHoldsItsDay, RowsOf
  <2> QED BY <2>2, <2>3
<1>10. DaemonReads' /\ RunsExported'
  BY <1>1 DEF IInv, DaemonOK, DaemonReads, RunsExported, HasRead, InTimeOf, RowsOf
<1> QED BY <1>4, <1>5, <1>7, <1>8, <1>9, <1>10 DEF IInv, DaemonOK

\* A row that comes late is not in time, and one in time is of the day that lasts.
LEMMA RowStoredStep == ASSUME IInv, RowStored PROVE IInv'
<1>1. PICK r \in Rows \ stored :
        /\ RowDay[r] < day \/ (RowDay[r] = day /\ RowHour[r] <= hour)
        /\ day <= RowDay[r] + TtlDays
        /\ stored' = stored \cup {r}
        /\ inTime' = IF RowDay[r] = day THEN inTime \cup {r} ELSE inTime
        /\ UNCHANGED <<clockVars, excused, files, exportVars, runVars>>
  BY DEF RowStored
<1>2. UNCHANGED <<day, hour, excused, files, pc, target, force, chunk, buf, nextRun, firstRun>>
  BY <1>1 DEF clockVars, exportVars, runVars
<1>3. TypeOK'
  BY <1>1, <1>2 DEF IInv, TypeOK
<1>4. /\ day \in Nat /\ TtlDays \in Nat /\ nextRun \in Nat
      /\ \A p \in Procs : target[p] \in Days
      /\ \A d \in Days : d \in Nat
      /\ RowDay[r] \in Nat
  BY <1>1, Numbers, RowFacts DEF IInv
<1>5. \A d \in Days : d < day => InTimeOf(d)' = InTimeOf(d)
  BY <1>1, <1>4 DEF InTimeOf, RowsOf
<1>6. \A d \in Days : Gone(d) => Gone(d)'
  BY <1>1, <1>2, <1>4 DEF Gone, RowsOf
<1>7. Kept'
  <2> SUFFICES ASSUME NEW d \in Days, ~Gone(d)' PROVE InTimeOf(d)' \subseteq stored'
    BY DEF Kept
  <2>1. InTimeOf(d) \subseteq stored
    BY <1>6 DEF IInv, Kept
  <2> QED BY <1>1, <2>1 DEF InTimeOf, RowsOf
<1>8. \A p \in Procs : ExportOK(p)'
  <2> TAKE p \in Procs
  <2>1. ExportOK(p) /\ target[p] \in Days
    BY <1>4 DEF IInv
  <2>2. NothingReadYet(p)' /\ NoEmptyUpload(p)' /\ DayIsOver(p)'
    BY <1>2, <2>1 DEF ExportOK, NothingReadYet, NoEmptyUpload, DayIsOver, Exporting
  <2>3. ReadsItsDay(p)'
    <3> SUFFICES ASSUME target[p] \notin excused, Exporting(p) PROVE ReadsItsDay(p)'
      BY <1>2 DEF ReadsItsDay, Exporting
    <3>1. InTimeOf(target[p])' = InTimeOf(target[p])
      BY <1>2, <1>5, <2>1 DEF ExportOK, DayIsOver, InTimeOf
    <3>2. HasRead(p) => HasRead(p)'
      BY <1>2, <3>1 DEF HasRead
    <3>3. /\ Gone(target[p]) => Gone(target[p])'
          /\ stored \subseteq stored'
      BY <1>1, <1>2, <1>6, <2>1 DEF Gone
    <3> QED BY <1>2, <2>1, <3>1, <3>2, <3>3 DEF ExportOK, ReadsItsDay
  <2> QED BY <2>2, <2>3 DEF ExportOK
<1>9. FilesAreOver' /\ FileHoldsItsDay'
  <2>1. FilesAreOver'
    BY <1>2 DEF IInv, FilesAreOver
  <2>2. FileHoldsItsDay'
    BY <1>2, <1>5 DEF IInv, FilesAreOver, FileHoldsItsDay, InTimeOf, RowsOf
  <2> QED BY <2>1, <2>2
<1>10. RunOnTime'
  BY <1>2 DEF IInv, DaemonOK, RunOnTime, Exporting
<1>11. DaemonReads'
  <2> SUFFICES ASSUME pc["daemon"] = "fetch" PROVE HasRead("daemon")'
    BY <1>2 DEF DaemonReads
  <2>1. "daemon" \in Procs /\ target["daemon"] \in Days /\ target["daemon"] < day
    BY <1>4 DEF IInv, DaemonOK, RunOnTime, Exporting, Procs
  <2>2. InTimeOf(target["daemon"])' = InTimeOf(target["daemon"])
    BY <1>2, <1>5, <2>1 DEF InTimeOf
  <2> QED BY <1>2, <2>2 DEF IInv, DaemonOK, DaemonReads, HasRead
<1>12. RunsExported'
  <2>1. pc["daemon"] # "down" => nextRun <= day + 1
    BY <1>4 DEF IInv, TypeOK, Places, Procs, DaemonOK, RunOnTime, Exporting
  <2>2. \A d \in Days : pc["daemon"] # "down" /\ d + 1 < nextRun => d < day
    BY <1>4, <2>1
  <2> QED BY <1>2, <1>5, <2>2 DEF IInv, DaemonOK, RunsExported
<1> QED BY <1>3, <1>7, <1>8, <1>9, <1>10, <1>11, <1>12 DEF IInv, DaemonOK

\* QuestDB drops a day that no run of the daemon is to read any more; an export that reads
\* it is excused.
LEMMA DayDroppedStep == ASSUME IInv, DayDropped PROVE IInv'
<1>1. PICK e \in Days :
        /\ day > e + TtlDays
        /\ stored' = stored \ RowsOf(e)
        /\ excused' = IF \E p \in Procs : pc[p] = "fetch" /\ target[p] = e
                      THEN excused \cup {e} ELSE excused
        /\ UNCHANGED <<clockVars, inTime, files, exportVars, runVars>>
  BY DEF DayDropped
<1>2. /\ UNCHANGED <<day, hour, inTime, files, pc, target, force, chunk, buf, nextRun, firstRun>>
      /\ excused \subseteq excused' /\ stored' \subseteq stored
      /\ \A p \in Procs : pc[p] = "fetch" /\ target[p] \notin excused' => target[p] # e
  BY <1>1 DEF clockVars, exportVars, runVars
<1>3. TypeOK'
  BY <1>1, <1>2 DEF IInv, TypeOK
<1>4. \A d \in Days : /\ InTimeOf(d)' = InTimeOf(d)
                      /\ Gone(d) => Gone(d)'
                      /\ d # e /\ InTimeOf(d) \subseteq stored => InTimeOf(d) \subseteq stored'
  BY <1>1, <1>2 DEF InTimeOf, RowsOf, Gone
<1>5. Kept'
  <2>1. Gone(e)'
    BY <1>1, <1>2 DEF Gone, RowsOf
  <2> QED BY <1>4, <2>1 DEF IInv, Kept
<1>6. \A p \in Procs : ExportOK(p)'
  <2> TAKE p \in Procs
  <2>1. ExportOK(p) /\ target[p] \in Days
    BY Numbers DEF IInv
  <2>2. NothingReadYet(p)' /\ NoEmptyUpload(p)' /\ DayIsOver(p)'
    BY <1>2, <2>1 DEF ExportOK, NothingReadYet, NoEmptyUpload, DayIsOver, Exporting
  <2>3. /\ HasRead(p) => HasRead(p)'
        /\ InTimeOf(target[p])' = InTimeOf(target[p])
        /\ Gone(target[p]) => Gone(target[p])'
    BY <1>2, <1>4, <2>1 DEF HasRead, Gone, InTimeOf
  <2>4. ReadsItsDay(p)'
    BY <1>2, <1>4, <2>1, <2>3 DEF ExportOK, ReadsItsDay
  <2> QED BY <2>2, <2>4 DEF ExportOK
<1>7. FilesAreOver' /\ FileHoldsItsDay'
  BY <1>2 DEF IInv, FilesAreOver, FileHoldsItsDay, RowsOf
<1>8. DaemonOK'
  BY <1>2 DEF IInv, DaemonOK, RunOnTime, DaemonReads, RunsExported, Exporting, HasRead,
              InTimeOf, RowsOf
<1> QED BY <1>3, <1>5, <1>6, <1>7, <1>8 DEF IInv

-----------------------------------------------------------------------------
(* Starting an export. *)

\* The daemon wakes at its hour and exports the day before.
LEMMA WakeStep == ASSUME IInv, Wake PROVE IInv'
<1>1. /\ pc["daemon"] = "asleep" /\ day = nextRun /\ hour >= RunHour
      /\ UNCHANGED <<clockVars, questVars, excused, files, force, chunk, buf, firstRun>>
      /\ "daemon" \in Procs
  BY DEF Wake, RunIsDue, Procs
<1>2. Kept' /\ FilesAreOver' /\ FileHoldsItsDay'
  BY <1>1, KeptKept, FilesKept DEF IInv
<1>3. /\ day \in Nat /\ hour \in Nat /\ RunHour \in Nat /\ LastDay \in Nat /\ day <= LastDay
      /\ nextRun \in Nat
  BY Numbers DEF IInv
<1>4. CASE /\ Yesterday \in Days
           /\ pc' = [pc EXCEPT !["daemon"] = "check"]
           /\ target' = [target EXCEPT !["daemon"] = Yesterday]
           /\ UNCHANGED nextRun
  <2>1. /\ pc'["daemon"] = "check" /\ target'["daemon"] = day - 1
        /\ \A p \in Procs \ {"daemon"} : pc'[p] = pc[p] /\ target'[p] = target[p]
    BY <1>1, <1>4 DEF IInv, TypeOK, Yesterday
  <2>2. TypeOK'
    BY <1>1, <1>4, <2>1 DEF IInv, TypeOK, Places, Procs, clockVars, questVars
  <2>3. \A p \in Procs \ {"daemon"} : ExportOK(p)'
    BY <1>1, <2>1, ExportKept DEF IInv
  <2>4. ExportOK("daemon")'
    <3>1. chunk["daemon"] = 0 /\ buf["daemon"] = {}
      BY <1>1 DEF IInv, ExportOK, NothingReadYet
    <3>2. DayIsOver("daemon")'
      BY <1>1, <1>3, <2>1 DEF DayIsOver, clockVars
    <3> QED BY <1>1, <2>1, <3>1, <3>2 DEF ExportOK, NothingReadYet, NoEmptyUpload, ReadsItsDay
  <2>5. DaemonOK'
    BY <1>1, <1>4, <2>1 DEF IInv, DaemonOK, RunOnTime, DaemonReads, RunsExported, Exporting,
                            InTimeOf, RowsOf, clockVars, questVars
  <2> QED BY <1>2, <2>2, <2>3, <2>4, <2>5 DEF IInv
<1>5. CASE /\ Yesterday \notin Days
           /\ nextRun' = NextRun
           /\ UNCHANGED <<pc, target>>
  <2>1. day = 0 /\ nextRun' = 1
    BY <1>1, <1>3, <1>5 DEF Yesterday, Days, NextRun
  <2>2. TypeOK'
    BY <1>1, <1>3, <1>5, <2>1 DEF IInv, TypeOK, clockVars, questVars
  <2>3. \A p \in Procs : ExportOK(p)'
    BY <1>1, <1>5, ExportKept DEF IInv
  <2>4. DaemonOK'
    <3>1. RunOnTime'
      BY <1>1, <1>5, <2>1 DEF RunOnTime, Exporting, clockVars
    <3>2. DaemonReads'
      BY <1>1, <1>5 DEF DaemonReads
    <3>3. RunsExported'
      BY <2>1, Numbers DEF IInv, RunsExported
    <3> QED BY <3>1, <3>2, <3>3 DEF DaemonOK
  <2> QED BY <1>2, <2>2, <2>3, <2>4 DEF IInv
<1> QED BY <1>4, <1>5 DEF Wake

\* An operator may export the day that lasts, which excuses it.
LEMMA RunOnceStep == ASSUME IInv, RunOnce PROVE IInv'
<1>1. PICK d \in 0..day, f \in BOOLEAN :
        /\ target' = [target EXCEPT !["manual"] = d]
        /\ force' = [force EXCEPT !["manual"] = f]
        /\ excused' = IF d = day THEN excused \cup {d} ELSE excused
  BY DEF RunOnce
<1>2. /\ pc["manual"] = "down" /\ pc' = [pc EXCEPT !["manual"] = "check"]
      /\ UNCHANGED <<clockVars, questVars, files, chunk, buf, runVars>>
      /\ excused \subseteq excused'
      /\ "manual" \in Procs /\ "daemon" \in Procs
  BY <1>1 DEF RunOnce, Procs
<1>3. day \in Nat /\ day <= LastDay /\ LastDay \in Nat /\ d \in Days /\ day \in Days
  BY <1>1, Numbers DEF IInv, TypeOK, Days
<1>4. /\ pc'["manual"] = "check" /\ target'["manual"] = d
      /\ \A p \in Procs \ {"manual"} : pc'[p] = pc[p] /\ target'[p] = target[p]
  BY <1>1, <1>2 DEF IInv, TypeOK
<1>5. TypeOK'
  BY <1>1, <1>2, <1>3, <1>4 DEF IInv, TypeOK, Places, Procs, clockVars, questVars, runVars
<1>6. Kept' /\ FilesAreOver' /\ FileHoldsItsDay'
  BY <1>2, KeptKept, FilesKept DEF IInv
<1>7. \A p \in Procs \ {"manual"} : ExportOK(p)'
  BY <1>2, <1>4, ExportKept DEF IInv
<1>8. ExportOK("manual")'
  <2>1. chunk["manual"] = 0 /\ buf["manual"] = {}
    BY <1>2 DEF IInv, ExportOK, NothingReadYet
  <2>2. DayIsOver("manual")'
    BY <1>1, <1>2, <1>3, <1>4 DEF DayIsOver, clockVars
  <2> QED BY <1>2, <1>4, <2>1, <2>2 DEF ExportOK, NothingReadYet, NoEmptyUpload, ReadsItsDay
<1>9. DaemonOK'
  BY <1>2, <1>4, DaemonKept DEF IInv
<1> QED BY <1>5, <1>6, <1>7, <1>8, <1>9 DEF IInv

-----------------------------------------------------------------------------
(* export. *)

\* The process p is cleared, and the other one stands still.
LEMMA ClearEffect ==
  ASSUME TypeOK, NEW p \in Procs, Clear(p)
  PROVE  /\ chunk'[p] = 0 /\ buf'[p] = {}
         /\ \A q \in Procs \ {p} : target'[q] = target[q] /\ chunk'[q] = chunk[q] /\ buf'[q] = buf[q]
         /\ target' \in [Procs -> Days] /\ force' \in [Procs -> BOOLEAN]
         /\ chunk' \in [Procs -> Hours] /\ buf' \in [Procs -> SUBSET Rows]
<1>1. 0 \in Days /\ 0 \in Hours
  BY S3ExporterAssumption DEF Days, Hours
<1> QED BY <1>1 DEF TypeOK, Clear

\* The next run after one that began on time is a day later.
LEMMA NextRunIsTomorrow ==
  ASSUME IInv, Exporting("daemon")
  PROVE  /\ NextRun = nextRun + 1 /\ NextRun \in Nat /\ NextRun <= LastDay + 1
         /\ \/ NextRun = day + 1 /\ hour >= RunHour
            \/ NextRun = day
<1>1. /\ day \in Nat /\ hour \in Nat /\ RunHour \in Nat /\ RunHour > 0 /\ nextRun \in Nat
      /\ day <= LastDay /\ LastDay \in Nat
  BY Numbers DEF IInv
<1>2. (day = nextRun /\ hour >= RunHour) \/ (day = nextRun + 1 /\ hour = 0)
  BY DEF IInv, DaemonOK, RunOnTime
<1>3. CASE day = nextRun /\ hour >= RunHour
  BY <1>1, <1>3 DEF NextRun
<1>4. CASE day = nextRun + 1 /\ hour = 0
  BY <1>1, <1>4 DEF NextRun
<1> QED BY <1>2, <1>3, <1>4

\* The end of an export that leaves the objects in order.
LEMMA ReturnStep ==
  ASSUME IInv, NEW p \in Procs, Exporting(p), Return(p), UNCHANGED <<clockVars, questVars, excused>>,
         files' \in [Days -> SUBSET Rows], FilesAreOver', FileHoldsItsDay',
         \A d \in Days : files[d] # {} => files'[d] # {},
         p = "daemon" /\ InTimeOf(target[p]) # {} => files'[target[p]] # {}
  PROVE  IInv'
<1>1. /\ Clear(p) /\ UNCHANGED firstRun
      /\ pc' = [pc EXCEPT ![p] = IF p = "daemon" THEN "asleep" ELSE "down"]
      /\ nextRun' = IF p = "daemon" THEN NextRun ELSE nextRun
      /\ UNCHANGED <<day, hour, stored, inTime, excused>>
  BY DEF Return, clockVars, questVars
<1>2. /\ pc'[p] = (IF p = "daemon" THEN "asleep" ELSE "down")
      /\ \A q \in Procs \ {p} : pc'[q] = pc[q]
  BY <1>1 DEF IInv, TypeOK
<1>3. /\ chunk'[p] = 0 /\ buf'[p] = {}
      /\ \A q \in Procs \ {p} : target'[q] = target[q] /\ chunk'[q] = chunk[q] /\ buf'[q] = buf[q]
      /\ target' \in [Procs -> Days] /\ force' \in [Procs -> BOOLEAN]
      /\ chunk' \in [Procs -> Hours] /\ buf' \in [Procs -> SUBSET Rows]
  BY <1>1, ClearEffect DEF IInv
<1>4. Kept'
  BY KeptKept DEF IInv
<1>5. \A q \in Procs : ExportOK(q)'
  <2>1. ExportOK(p)'
    BY <1>2, <1>3, ExportIdle
  <2>2. \A q \in Procs \ {p} : ExportOK(q)'
    BY <1>1, <1>2, <1>3, ExportKept DEF IInv
  <2> QED BY <2>1, <2>2
<1>6. /\ pc' \in [Procs -> Places] /\ pc'["manual"] # "asleep"
  BY <1>1, <1>2 DEF IInv, TypeOK, Places, Procs
<1>7. CASE p = "daemon"
  <2>1. /\ nextRun' = NextRun /\ firstRun' = firstRun
        /\ NextRun = nextRun + 1 /\ NextRun \in Nat /\ NextRun <= LastDay + 1
        /\ (NextRun = day + 1 /\ hour >= RunHour) \/ NextRun = day
        /\ pc'["daemon"] = "asleep"
    BY <1>1, <1>2, <1>7, NextRunIsTomorrow
  <2>2. /\ day \in Nat /\ hour \in Nat /\ RunHour \in Nat /\ nextRun \in Nat /\ firstRun \in Nat
        /\ firstRun <= nextRun /\ LastDay \in Nat
    BY Numbers DEF IInv
  <2>3. NextRun - day \in {0, 1} /\ ~(NextRun > day /\ hour < RunHour)
        /\ NextRun \in 0..(LastDay + 1) /\ firstRun \in 0..NextRun
    BY <2>1, <2>2
  <2>4. TypeOK'
    BY <1>1, <1>3, <1>6, <2>1, <2>3 DEF IInv, TypeOK
  <2>5. RunOnTime' /\ DaemonReads'
    BY <1>1, <2>1 DEF RunOnTime, DaemonReads, Exporting
  <2>6. RunsExported'
    <3> SUFFICES ASSUME NEW d \in Days, firstRun <= d + 1, d + 1 < nextRun + 1, InTimeOf(d) # {}
                 PROVE  files'[d] # {}
      BY <1>1, <2>1 DEF RunsExported, InTimeOf, RowsOf
    <3>1. d \in Nat
      BY Numbers DEF IInv
    <3>2. CASE d + 1 < nextRun
      <4>1. pc["daemon"] # "down"
        BY <1>7 DEF Exporting
      <4> QED BY <3>2, <4>1 DEF IInv, DaemonOK, RunsExported
    <3>3. CASE d = nextRun - 1
      <4>1. target["daemon"] = d
        BY <1>7, <3>3 DEF IInv, DaemonOK, RunOnTime
      <4> QED BY <1>7, <4>1
    <3> QED BY <2>2, <3>1, <3>2, <3>3
  <2> QED BY <1>4, <1>5, <2>4, <2>5, <2>6 DEF IInv, DaemonOK
<1>8. CASE p # "daemon"
  <2>1. "daemon" \in Procs \ {p} /\ UNCHANGED <<nextRun, firstRun>>
    BY <1>1, <1>8 DEF Procs
  <2>2. TypeOK'
    BY <1>1, <1>2, <1>3, <1>6, <2>1 DEF IInv, TypeOK
  <2>3. DaemonOK'
    BY <1>1, <1>2, <1>3, <2>1, DaemonKept DEF IInv, runVars
  <2> QED BY <1>4, <1>5, <2>2, <2>3 DEF IInv
<1> QED BY <1>7, <1>8

\* An export goes on unless its object exists and it is not forced.
LEMMA CheckStep == ASSUME IInv, NEW p \in Procs, Check(p) PROVE IInv'
<1>1. pc[p] = "check" /\ UNCHANGED <<clockVars, questVars, excused, files>> /\ Exporting(p)
  BY DEF Check, Exporting
<1>2. FilesAreOver' /\ FileHoldsItsDay' /\ files' \in [Days -> SUBSET Rows]
  BY <1>1, FilesKept DEF IInv, TypeOK
<1>3. CASE files[target[p]] # {} /\ Return(p)
  BY <1>1, <1>2, <1>3, ReturnStep DEF IInv
<1>4. CASE pc' = [pc EXCEPT ![p] = "fetch"] /\ UNCHANGED <<target, force, chunk, buf, runVars>>
  <2>1. pc'[p] = "fetch" /\ \A q \in Procs \ {p} : pc'[q] = pc[q]
    BY <1>4 DEF IInv, TypeOK
  <2>2. TypeOK'
    BY <1>1, <1>4, <2>1 DEF IInv, TypeOK, Places, Procs, clockVars, questVars, runVars
  <2>3. Kept'
    BY <1>1, KeptKept DEF IInv
  <2>4. \A q \in Procs \ {p} : ExportOK(q)'
    BY <1>1, <1>4, <2>1, ExportKept DEF IInv
  <2>5. target[p] \in Days /\ chunk[p] = 0 /\ buf[p] = {}
    BY <1>1, Numbers DEF IInv, ExportOK, NothingReadYet
  <2>6. HasRead(p)'
    BY <1>4, <2>5, RowFacts DEF HasRead, InTimeOf, RowsOf
  <2>7. ExportOK(p)'
    <3>1. DayIsOver(p)'
      BY <1>1, <1>4, <2>1 DEF IInv, ExportOK, DayIsOver, Exporting, clockVars
    <3>2. ReadsItsDay(p)'
      BY <1>4, <2>1, <2>3, <2>5, <2>6 DEF ReadsItsDay, Kept
    <3> QED BY <2>1, <3>1, <3>2 DEF ExportOK, NothingReadYet, NoEmptyUpload
  <2>8. DaemonOK'
    <3>1. CASE p = "daemon"
      <4>1. UNCHANGED <<day, hour, inTime, files, nextRun, firstRun, target>>
        BY <1>1, <1>4 DEF clockVars, questVars, runVars
      <4>2. RunOnTime'
        BY <1>1, <2>1, <3>1, <4>1 DEF IInv, DaemonOK, RunOnTime, Exporting
      <4>3. DaemonReads'
        BY <2>6, <3>1 DEF DaemonReads
      <4>4. RunsExported'
        BY <1>1, <2>1, <3>1, <4>1 DEF IInv, DaemonOK, RunsExported, InTimeOf, RowsOf
      <4> QED BY <4>2, <4>3, <4>4 DEF DaemonOK
    <3>2. CASE p # "daemon"
      <4>1. "daemon" \in Procs \ {p}
        BY <3>2 DEF Procs
      <4> QED BY <1>1, <1>4, <2>1, <4>1, DaemonKept DEF IInv
    <3> QED BY <3>1, <3>2
  <2> QED BY <1>2, <2>2, <2>3, <2>4, <2>7, <2>8 DEF IInv
<1> QED BY <1>3, <1>4 DEF Check

\* Reading one more hour.
LEMMA ReadMore ==
  ASSUME IInv, NEW p \in Procs, pc[p] = "fetch"
  PROVE  /\ InTimeOf(target[p]) \subseteq stored /\ HasRead(p) =>
              \A r \in InTimeOf(target[p]) : RowHour[r] < chunk[p] + 1 => r \in Read(p)
         /\ Gone(target[p]) /\ buf[p] = {} => Read(p) = {}
         /\ IsLastChunk(p) => \A r \in InTimeOf(target[p]) : RowHour[r] < chunk[p] + 1
         /\ Read(p) \in SUBSET Rows
<1>1. chunk[p] \in Nat /\ chunk[p] \in Hours /\ HoursPerDay \in Nat
      /\ \A h \in Hours : h \in Nat /\ h < HoursPerDay
  BY Numbers DEF IInv
<1>2. \A r \in InTimeOf(target[p]) : /\ r \in Rows /\ RowDay[r] = target[p] /\ RowHour[r] \in Nat
                                     /\ RowHour[r] \in Hours
  BY RowFacts DEF InTimeOf, RowsOf
<1>3. ASSUME InTimeOf(target[p]) \subseteq stored, HasRead(p), NEW r \in InTimeOf(target[p]),
             RowHour[r] < chunk[p] + 1
      PROVE  r \in Read(p)
  <2>1. CASE RowHour[r] < chunk[p]
    BY <1>3, <2>1 DEF HasRead, Read
  <2>2. CASE RowHour[r] = chunk[p]
    BY <1>2, <1>3, <2>2 DEF Read, Got
  <2> QED BY <1>1, <1>2, <1>3, <2>1, <2>2
<1>4. Gone(target[p]) /\ buf[p] = {} => Read(p) = {}
  BY DEF Gone, RowsOf, Read, Got, IInv, TypeOK
<1>5. ASSUME IsLastChunk(p), NEW r \in InTimeOf(target[p]) PROVE RowHour[r] < chunk[p] + 1
  <2>1. chunk[p] + 1 >= HoursPerDay
    BY <1>1, <1>5 DEF IsLastChunk, Hours
  <2> QED BY <1>1, <1>2, <2>1
<1>6. Read(p) \in SUBSET Rows
  BY DEF Read, Got, IInv, TypeOK
<1> QED BY <1>3, <1>4, <1>5, <1>6

\* The daemon finds what was stored of its day.
LEMMA DaemonInTime ==
  ASSUME IInv, pc["daemon"] = "fetch"
  PROVE  InTimeOf(target["daemon"]) \subseteq stored /\ HasRead("daemon")
<1>1. "daemon" \in Procs
  BY DEF Procs
<1>2. /\ target["daemon"] \in Nat /\ target["daemon"] \in Days /\ nextRun \in Nat /\ day \in Nat
      /\ TtlDays \in Nat /\ TtlDays >= 2
  BY <1>1, Numbers DEF IInv
<1>3. target["daemon"] = nextRun - 1 /\ (day = nextRun \/ day = nextRun + 1)
  BY DEF IInv, DaemonOK, RunOnTime, Exporting
<1>4. day <= target["daemon"] + TtlDays
  BY <1>2, <1>3
<1>5. ~Gone(target["daemon"])
  BY <1>2, <1>4 DEF Gone
<1> QED BY <1>2, <1>5 DEF IInv, Kept, DaemonOK, DaemonReads

\* An export reads one more hour of its day, and after the last one has read the day.
LEMMA FetchHourStep == ASSUME IInv, NEW p \in Procs, FetchHour(p) PROVE IInv'
<1>1. pc[p] = "fetch" /\ UNCHANGED <<clockVars, questVars, excused, files>> /\ Exporting(p)
  BY DEF FetchHour, Exporting
<1>2. FilesAreOver' /\ FileHoldsItsDay' /\ files' \in [Days -> SUBSET Rows]
  BY <1>1, FilesKept DEF IInv, TypeOK
<1>3. CASE IsLastChunk(p) /\ Read(p) = {} /\ Return(p)
  <2>1. p = "daemon" => InTimeOf(target[p]) = {}
    BY <1>1, <1>3, ReadMore, DaemonInTime
  <2> QED BY <1>1, <1>2, <1>3, <2>1, ReturnStep
<1>4. CASE /\ ~(IsLastChunk(p) /\ Read(p) = {})
           /\ buf' = [buf EXCEPT ![p] = Read(p)]
           /\ IF IsLastChunk(p)
              THEN pc' = [pc EXCEPT ![p] = "upload"] /\ UNCHANGED chunk
              ELSE chunk' = [chunk EXCEPT ![p] = chunk[p] + 1] /\ UNCHANGED pc
           /\ UNCHANGED <<target, force, runVars>>
  <2>1. /\ buf'[p] = Read(p)
        /\ \A q \in Procs \ {p} : pc'[q] = pc[q] /\ chunk'[q] = chunk[q] /\ buf'[q] = buf[q]
        /\ \/ pc'[p] = "upload" /\ IsLastChunk(p) /\ Read(p) # {} /\ chunk'[p] = chunk[p]
           \/ pc'[p] = "fetch" /\ chunk'[p] = chunk[p] + 1 /\ chunk[p] + 1 \in Hours
        /\ pc' \in [Procs -> Places] /\ pc'["manual"] # "asleep"
        /\ pc'["daemon"] = "asleep" <=> pc["daemon"] = "asleep"
    <3>1. /\ buf \in [Procs -> SUBSET Rows] /\ chunk \in [Procs -> Hours] /\ pc \in [Procs -> Places]
          /\ pc["manual"] # "asleep" /\ "upload" \in Places
      BY DEF IInv, TypeOK, Places
    <3>2. CASE IsLastChunk(p)
      <4>1. /\ pc' = [pc EXCEPT ![p] = "upload"] /\ chunk' = chunk /\ Read(p) # {}
            /\ buf' = [buf EXCEPT ![p] = Read(p)]
        BY <1>4, <3>2
      <4>2. pc' \in [Procs -> Places] /\ pc'[p] = "upload" /\ \A q \in Procs \ {p} : pc'[q] = pc[q]
        BY <3>1, <4>1
      <4>3. pc'["manual"] # "asleep" /\ (pc'["daemon"] = "asleep" <=> pc["daemon"] = "asleep")
        BY <1>1, <3>1, <4>2 DEF Procs
      <4> QED BY <3>1, <3>2, <4>1, <4>2, <4>3
    <3>3. CASE ~IsLastChunk(p)
      <4>1. chunk[p] + 1 \in Hours
        BY <3>3 DEF IsLastChunk
      <4> QED BY <1>1, <1>4, <3>1, <3>3, <4>1
    <3> QED BY <3>2, <3>3
  <2>2. /\ InTimeOf(target[p]) \subseteq stored /\ HasRead(p) =>
              \A r \in InTimeOf(target[p]) : RowHour[r] < chunk[p] + 1 => r \in Read(p)
        /\ Gone(target[p]) /\ buf[p] = {} => Read(p) = {}
        /\ IsLastChunk(p) => \A r \in InTimeOf(target[p]) : RowHour[r] < chunk[p] + 1
        /\ Read(p) \in SUBSET Rows
    BY <1>1, ReadMore
  <2>3. TypeOK'
    <3>1. chunk' \in [Procs -> Hours] /\ buf' \in [Procs -> SUBSET Rows]
      BY <1>4, <2>2 DEF IInv, TypeOK, IsLastChunk
    <3> QED BY <1>1, <1>4, <2>1, <3>1 DEF IInv, TypeOK, clockVars, questVars, runVars
  <2>4. Kept'
    BY <1>1, KeptKept DEF IInv
  <2>5. \A q \in Procs \ {p} : ExportOK(q)'
    BY <1>1, <1>4, <2>1, ExportKept DEF IInv
  <2>6. /\ InTimeOf(target[p])' = InTimeOf(target[p])
        /\ Gone(target[p])' <=> Gone(target[p])
        /\ UNCHANGED <<day, hour, stored, inTime, excused, target, nextRun, firstRun, files>>
    BY <1>1, <1>4 DEF InTimeOf, RowsOf, Gone, clockVars, questVars, runVars
  <2>7. InTimeOf(target[p]) \subseteq stored /\ HasRead(p) =>
          /\ pc'[p] = "fetch" => HasRead(p)'
          /\ pc'[p] = "upload" => InTimeOf(target[p]) \subseteq Read(p)
    BY <2>1, <2>2, <2>6 DEF HasRead
  <2>8. ExportOK(p)'
    <3>1. NothingReadYet(p)' /\ NoEmptyUpload(p)'
      BY <2>1 DEF NothingReadYet, NoEmptyUpload
    <3>2. DayIsOver(p)'
      BY <1>1, <2>6 DEF IInv, ExportOK, DayIsOver
    <3>3. ReadsItsDay(p)'
      <4>1. CASE InTimeOf(target[p]) \subseteq stored /\ HasRead(p)
        BY <2>1, <2>6, <2>7, <4>1 DEF ReadsItsDay
      <4>2. CASE Gone(target[p]) /\ buf[p] = {}
        BY <2>1, <2>2, <2>6, <4>2 DEF ReadsItsDay
      <4>3. CASE target[p] \in excused
        BY <2>6, <4>3 DEF ReadsItsDay
      <4> QED BY <1>1, <4>1, <4>2, <4>3 DEF IInv, ExportOK, ReadsItsDay
    <3> QED BY <3>1, <3>2, <3>3 DEF ExportOK
  <2>9. DaemonOK'
    <3>1. CASE p = "daemon"
      <4>1. RunOnTime'
        BY <1>1, <2>1, <2>6, <3>1 DEF IInv, DaemonOK, RunOnTime, Exporting
      <4>2. DaemonReads'
        BY <1>1, <2>7, <3>1, DaemonInTime DEF DaemonReads
      <4>3. RunsExported'
        BY <1>1, <2>1, <2>6, <3>1 DEF IInv, DaemonOK, RunsExported, InTimeOf, RowsOf
      <4> QED BY <4>1, <4>2, <4>3 DEF DaemonOK
    <3>2. CASE p # "daemon"
      <4>1. "daemon" \in Procs \ {p}
        BY <3>2 DEF Procs
      <4> QED BY <1>1, <1>4, <2>1, <4>1, DaemonKept DEF IInv
    <3> QED BY <3>1, <3>2
  <2> QED BY <1>2, <2>3, <2>4, <2>5, <2>8, <2>9 DEF IInv
<1> QED BY <1>1, <1>3, <1>4 DEF FetchHour

\* An object that is put is of a day that is over, and whole.
LEMMA PutObject ==
  ASSUME IInv, NEW p \in Procs, pc[p] = "upload", UNCHANGED <<clockVars, questVars, excused>>,
         files' = [files EXCEPT ![target[p]] = buf[p]]
  PROVE  /\ files' \in [Days -> SUBSET Rows] /\ FilesAreOver' /\ FileHoldsItsDay'
         /\ \A d \in Days : files[d] # {} => files'[d] # {}
         /\ files'[target[p]] # {}
<1>1. /\ target[p] \in Days /\ buf[p] \in SUBSET Rows /\ buf[p] # {} /\ Exporting(p)
      /\ UNCHANGED <<day, hour, stored, inTime, excused>>
  BY Numbers DEF IInv, TypeOK, ExportOK, NoEmptyUpload, Exporting, clockVars, questVars
<1>2. /\ files' \in [Days -> SUBSET Rows] /\ files'[target[p]] = buf[p]
      /\ \A d \in Days : d # target[p] => files'[d] = files[d]
  BY <1>1 DEF IInv, TypeOK
<1>3. FilesAreOver'
  BY <1>1, <1>2 DEF IInv, FilesAreOver, ExportOK, DayIsOver
<1>4. FileHoldsItsDay'
  <2>1. target[p] \notin excused => RowsOf(target[p]) \cap inTime \subseteq buf[p]
    BY DEF IInv, ExportOK, ReadsItsDay, InTimeOf
  <2>2. \A d \in Days : RowsOf(d)' = RowsOf(d)
    BY DEF RowsOf
  <2> QED BY <1>1, <1>2, <2>1, <2>2 DEF IInv, FileHoldsItsDay
<1> QED BY <1>1, <1>2, <1>3, <1>4

\* The object becomes what was read.
LEMMA UploadStep == ASSUME IInv, NEW p \in Procs, Upload(p) PROVE IInv'
<1>1. /\ pc[p] = "upload" /\ UNCHANGED <<clockVars, questVars, excused>> /\ Exporting(p)
      /\ files' = [files EXCEPT ![target[p]] = buf[p]] /\ Return(p)
  BY DEF Upload, Exporting
<1> QED BY <1>1, PutObject, ReturnStep

\* Both processes are cleared.
LEMMA DownStep ==
  ASSUME IInv, Down, UNCHANGED <<clockVars, questVars, excused, runVars>>,
         files' \in [Days -> SUBSET Rows], FilesAreOver', FileHoldsItsDay'
  PROVE  IInv'
<1>1. 0 \in Days /\ 0 \in Hours /\ "daemon" \in Procs /\ "manual" \in Procs
  BY S3ExporterAssumption DEF Days, Hours, Procs
<1>2. \A p \in Procs : pc'[p] = "down" /\ chunk'[p] = 0 /\ buf'[p] = {}
  BY DEF Down
<1>3. TypeOK'
  BY <1>1, <1>2 DEF IInv, TypeOK, Down, Places, clockVars, questVars, runVars
<1>4. Kept' /\ DaemonOK'
  BY <1>1, <1>2, KeptKept, DaemonDown DEF IInv
<1>5. \A p \in Procs : ExportOK(p)'
  BY <1>2, ExportIdle
<1> QED BY <1>3, <1>4, <1>5 DEF IInv

\* An exception ends the daemon, or the operator's run, with the object put or not.
LEMMA RaisesStep == ASSUME IInv, NEW p \in Procs, Raises(p) PROVE IInv'
<1>1. /\ UNCHANGED <<clockVars, questVars, excused, runVars>> /\ Exporting(p)
      /\ \/ UNCHANGED files
         \/ pc[p] = "upload" /\ files' = [files EXCEPT ![target[p]] = buf[p]]
  BY DEF Raises
<1>2. /\ FilesAreOver' /\ FileHoldsItsDay' /\ files' \in [Days -> SUBSET Rows]
      /\ \A d \in Days : files[d] # {} => files'[d] # {}
  <2>1. CASE UNCHANGED files
    BY <1>1, <2>1, FilesKept DEF IInv, TypeOK
  <2>2. CASE pc[p] = "upload" /\ files' = [files EXCEPT ![target[p]] = buf[p]]
    BY <1>1, <2>2, PutObject
  <2> QED BY <1>1, <2>1, <2>2
<1>3. CASE p = "daemon"
  <2>1. Down
    BY <1>3 DEF Raises
  <2> QED BY <1>1, <1>2, <2>1, DownStep
<1>4. CASE p # "daemon"
  <2>1. Clear(p) /\ pc' = [pc EXCEPT ![p] = "down"] /\ p = "manual" /\ "daemon" \in Procs \ {p}
    BY <1>4 DEF Raises, Procs
  <2>2. pc'[p] = "down" /\ \A q \in Procs \ {p} : pc'[q] = pc[q]
    BY <2>1 DEF IInv, TypeOK
  <2>3. /\ chunk'[p] = 0 /\ buf'[p] = {}
        /\ \A q \in Procs \ {p} : target'[q] = target[q] /\ chunk'[q] = chunk[q] /\ buf'[q] = buf[q]
        /\ target' \in [Procs -> Days] /\ force' \in [Procs -> BOOLEAN]
        /\ chunk' \in [Procs -> Hours] /\ buf' \in [Procs -> SUBSET Rows]
    BY <2>1, ClearEffect DEF IInv
  <2>4. TypeOK'
    BY <1>1, <1>2, <2>1, <2>2, <2>3 DEF IInv, TypeOK, Places, clockVars, questVars, runVars
  <2>5. ExportOK(p)'
    BY <2>2, <2>3, ExportIdle
  <2>6. \A q \in Procs \ {p} : ExportOK(q)'
    BY <1>1, <2>2, <2>3, ExportKept DEF IInv
  <2>7. Kept' /\ DaemonOK'
    BY <1>1, <1>2, <2>1, <2>2, <2>3, KeptKept, DaemonKept DEF IInv
  <2> QED BY <1>2, <2>4, <2>5, <2>6, <2>7 DEF IInv
<1> QED BY <1>3, <1>4

\* The container takes both processes down and leaves QuestDB and S3.
LEMMA CrashStep == ASSUME IInv, Crash PROVE IInv'
<1>1. Down /\ UNCHANGED <<clockVars, questVars, excused, files, runVars>>
  BY DEF Crash
<1>2. FilesAreOver' /\ FileHoldsItsDay' /\ files' \in [Days -> SUBSET Rows]
  BY <1>1, FilesKept DEF IInv, TypeOK
<1> QED BY <1>1, <1>2, DownStep

\* The daemon that begins owes no run of an earlier one.
LEMMA RestartStep == ASSUME IInv, Restart PROVE IInv'
<1>1. /\ pc["daemon"] = "down" /\ pc' = [pc EXCEPT !["daemon"] = "asleep"]
      /\ nextRun' = NextRun /\ firstRun' = nextRun'
      /\ UNCHANGED <<clockVars, questVars, excused, files, target, force, chunk, buf>>
      /\ "daemon" \in Procs
  BY DEF Restart, Procs
<1>2. pc'["daemon"] = "asleep" /\ \A p \in Procs \ {"daemon"} : pc'[p] = pc[p]
  BY <1>1 DEF IInv, TypeOK
<1>3. /\ day \in Nat /\ day <= LastDay /\ LastDay \in Nat /\ hour \in Nat /\ RunHour \in Nat
  BY Numbers DEF IInv
<1>4. /\ NextRun \in Nat /\ NextRun \in 0..(LastDay + 1) /\ NextRun \in 0..NextRun
      /\ NextRun - day \in {0, 1} /\ ~(NextRun > day /\ hour < RunHour)
      /\ (NextRun = day + 1 /\ hour >= RunHour) \/ NextRun = day
  <2>1. CASE hour >= RunHour
    BY <1>3, <2>1 DEF NextRun
  <2>2. CASE ~(hour >= RunHour)
    BY <1>3, <2>2 DEF NextRun
  <2> QED BY <2>1, <2>2
<1>5. TypeOK'
  BY <1>1, <1>2, <1>4 DEF IInv, TypeOK, Places, Procs, clockVars, questVars
<1>6. Kept' /\ FilesAreOver' /\ FileHoldsItsDay'
  BY <1>1, KeptKept, FilesKept DEF IInv
<1>7. \A p \in Procs : ExportOK(p)'
  <2>1. chunk["daemon"] = 0 /\ buf["daemon"] = {}
    BY <1>1 DEF IInv, ExportOK, NothingReadYet
  <2>2. ExportOK("daemon")'
    BY <1>1, <1>2, <2>1, ExportIdle
  <2>3. \A p \in Procs \ {"daemon"} : ExportOK(p)'
    BY <1>1, <1>2, ExportKept DEF IInv
  <2> QED BY <2>2, <2>3
<1>8. DaemonOK'
  <2>1. RunOnTime' /\ DaemonReads'
    BY <1>1, <1>2, <1>4 DEF RunOnTime, DaemonReads, Exporting, clockVars
  <2>2. RunsExported'
    <3>1. \A d \in Days : ~(NextRun <= d + 1 /\ d + 1 < NextRun)
      BY <1>4, Numbers DEF IInv
    <3> QED BY <1>1, <3>1 DEF RunsExported
  <2> QED BY <2>1, <2>2 DEF DaemonOK
<1> QED BY <1>5, <1>6, <1>7, <1>8 DEF IInv

-----------------------------------------------------------------------------
(* The theorems. *)

\* The invariant is about the variables only.
LEMMA StutterStep == ASSUME IInv, UNCHANGED vars PROVE IInv'
<1>1. UNCHANGED <<clockVars, questVars, excused, files, pc, target, force, chunk, buf, runVars>>
  BY DEF vars, exportVars
<1>2. TypeOK'
  BY <1>1 DEF IInv, TypeOK, clockVars, questVars, runVars
<1>3. Kept' /\ FilesAreOver' /\ FileHoldsItsDay' /\ DaemonOK'
  BY <1>1, KeptKept, FilesKept, DaemonKept DEF IInv
<1>4. \A p \in Procs : ExportOK(p)'
  BY <1>1, ExportKept DEF IInv
<1> QED BY <1>2, <1>3, <1>4 DEF IInv

\* Every step keeps the invariant.
LEMMA NextIInv == IInv /\ [Next]_vars => IInv'
<1> SUFFICES ASSUME IInv, [Next]_vars PROVE IInv'
  OBVIOUS
<1>1. CASE Tick \/ RowStored \/ DayDropped \/ Wake \/ RunOnce
  BY <1>1, TickStep, RowStoredStep, DayDroppedStep, WakeStep, RunOnceStep
<1>2. ASSUME NEW p \in Procs, Check(p) \/ FetchHour(p) \/ Upload(p) \/ Raises(p) PROVE IInv'
  BY <1>2, CheckStep, FetchHourStep, UploadStep, RaisesStep
<1>3. CASE Crash \/ Restart \/ UNCHANGED vars
  BY <1>3, CrashStep, RestartStep, StutterStep
<1> QED BY <1>1, <1>2, <1>3 DEF Next

\* The clock, QuestDB, the objects and what each process has read fit together.
THEOREM Inductive == Spec => []IInv
  BY InitIInv, NextIInv, PTL DEF Spec

\* The types; and the daemon never sleeps past its hour of the next day.
THEOREM TypeCorrect == Spec => []TypeOK
<1>1. IInv => TypeOK
  BY DEF IInv
<1> QED BY <1>1, Inductive, PTL

\* The object of a day has every row of it that was stored while it lasted, although the
\* daemon and an operator may export it at once and QuestDB drops it in the end.
THEOREM ObjectsAreWhole == Spec => []FileHoldsItsDay
<1>1. IInv => FileHoldsItsDay
  BY DEF IInv
<1> QED BY <1>1, Inductive, PTL

\* Each run of a daemon that lives leaves an object of the day before, if it had rows.
THEOREM NoRunIsMissed == Spec => []EveryRunExports
<1>1. IInv => EveryRunExports
  BY DEF IInv, DaemonOK, RunsExported, EveryRunExports, InTimeOf
<1> QED BY <1>1, Inductive, PTL

===============================================================================
