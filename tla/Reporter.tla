-------------------------------- MODULE Reporter --------------------------------
(***************************************************************************)
(* The daily report of src/src/reporter: fetch_report_data, build_report   *)
(* and fetch_news_with_keywords make a report, save_report writes it to    *)
(* the file of the day, load_report reads a file, publish_report posts it. *)
(*                                                                         *)
(* "scheduler" runs all of it once a day; "operator" is someone who runs   *)
(* build_and_save or publish_saved in the same container (docker exec).    *)
(*                                                                         *)
(* External: what the building of a report asks, Slack, midnight in Korea, *)
(* and the container's end.                                                *)
(*                                                                         *)
(* What a report says is in ReportContent: here it is the number of its    *)
(* save.                                                                   *)
(***************************************************************************)
EXTENDS Integers, Sequences

CONSTANTS
  NoFile,
  Chunks,        \* the writes that a report takes at most
  LastDay, MaxSaves   \* bounds on the days and on the saves

Procs == {"scheduler", "operator"}
Days == 1..LastDay

ASSUME ReporterAssumption ==
  /\ Chunks \in Nat \ {0}
  /\ LastDay \in Nat \ {0} /\ MaxSaves \in Nat
  /\ NoFile \notin Seq([save : Nat, last : BOOLEAN])

VARIABLES
  day,         \* the date in Korea
  pc,          \* what each process does
  fired,       \* the day of the scheduler's last run
  file,        \* REPORT_STORAGE_DIR/<day>.json, NoFile when there is none
  handle,      \* the file that each process writes or wrote in this run: its day, the number
               \* of the save, the report's chunks, and the next one to write
  loaded,      \* what each process read
  saves,       \* how many saves were begun
  finished,    \* history: the save whose end is the last thing that happened to a file, or 0
  contended    \* history: the saves that wrote a file which another had open

fileVars == <<file, handle, saves, finished, contended>>
vars == <<day, pc, fired, loaded, fileVars>>

NoHandle == [day |-> 0, save |-> 0, size |-> 0, next |-> 0]

Places == {"idle", "building", "writing", "saved", "posting"}

Init ==
  /\ day = 1
  /\ pc = [p \in Procs |-> "idle"]
  /\ fired = 0
  /\ file = [d \in Days |-> NoFile]
  /\ handle = [p \in Procs |-> NoHandle]
  /\ loaded = [p \in Procs |-> <<>>]
  /\ saves = 0
  /\ finished = [d \in Days |-> 0]
  /\ contended = {}

Goes(p, from, to) == pc[p] = from /\ pc' = [pc EXCEPT ![p] = to]

-----------------------------------------------------------------------------
(* build_and_save. *)

\* The cron trigger, once a day; a run that is not over yet lets it pass.
Fire ==
  /\ fired < day
  /\ Goes("scheduler", "idle", "building")
  /\ fired' = day
  /\ UNCHANGED <<day, loaded, fileVars>>

\* An operator runs build_and_save.
BuildByHand ==
  /\ Goes("operator", "idle", "building")
  /\ UNCHANGED <<day, fired, loaded, fileVars>>

\* Faulty: run_report goes on to publish after a build that raised.
BuildRaisesAndPublishes(p) ==
  /\ Goes(p, "building", "saved")
  /\ UNCHANGED <<day, fired, loaded, fileVars>>

\* Claude's API, the answer's JSON or anything else up to the open raises: the run is
\* over; the scheduler logs it and waits for the next day.
BuildRaises(p) ==
  /\ Goes(p, "building", "idle")
  /\ UNCHANGED <<day, fired, loaded, fileVars>>

Writers(d) == {p \in Procs : pc[p] = "writing" /\ handle[p].day = d}

\* Faulty: the file is opened without being cut.
OpenedUncut(content) == IF content = NoFile THEN <<>> ELSE content

\* What open(..., "w") makes of a file.
Opened(content) == <<>>

\* save_report opens the file of today.
Open(p) ==
  /\ Goes(p, "building", "writing")
  /\ saves < MaxSaves
  /\ saves' = saves + 1
  /\ \E n \in 1..Chunks :
       handle' = [handle EXCEPT ![p] = [day |-> day, save |-> saves', size |-> n, next |-> 1]]
  /\ file' = [file EXCEPT ![day] = Opened(@)]
  /\ finished' = [finished EXCEPT ![day] = 0]
  /\ contended' = contended \cup
       IF Writers(day) = {} THEN {} ELSE {saves'} \cup {handle[q].save : q \in Writers(day)}
  /\ UNCHANGED <<day, fired, loaded>>

\* A chunk of a report; the last one closes its JSON.  0 is a hole.
Chunk(n, last) == [save |-> n, last |-> last]
Hole == Chunk(0, FALSE)

\* Faulty: a write goes to the end of the file, whoever put it there.
PutAtEnd(content, i, chunk) == Append(content, chunk)

\* A write at position i of a file.
Put(content, i, chunk) ==
  [j \in 1..(IF Len(content) < i THEN i ELSE Len(content)) |->
    IF j = i THEN chunk ELSE IF j \in DOMAIN content THEN content[j] ELSE Hole]

\* One write, at the process's own position in the file.
Write(p) ==
  LET h == handle[p]
  IN /\ pc[p] = "writing"
     /\ h.next <= h.size
     /\ file' = [file EXCEPT ![h.day] = Put(@, h.next, Chunk(h.save, h.next = h.size))]
     /\ handle' = [handle EXCEPT ![p].next = @ + 1]
     /\ UNCHANGED <<day, pc, fired, loaded, saves, finished, contended>>

\* A run is over: nothing is left of it but the file.
Over(p, from) ==
  /\ Goes(p, from, "idle")
  /\ handle' = [handle EXCEPT ![p] = NoHandle]
  /\ loaded' = [loaded EXCEPT ![p] = <<>>]

\* The file is closed; the operator's command is over.
Close(p) ==
  /\ handle[p].next > handle[p].size
  /\ finished' = [finished EXCEPT ![handle[p].day] = handle[p].save]
  /\ IF p = "scheduler"
     THEN Goes(p, "writing", "saved") /\ UNCHANGED <<handle, loaded>>
     ELSE Over(p, "writing")
  /\ UNCHANGED <<day, fired, file, saves, contended>>

\* json.dump or a write raises; what was written stays.
WriteRaises(p) ==
  /\ Over(p, "writing")
  /\ UNCHANGED <<day, fired, file, saves, finished, contended>>

-----------------------------------------------------------------------------
(* publish_saved. *)

\* Faulty: a file that was cut is read as far as it goes.
CompletePrefix(content) == content # NoFile /\ content # <<>>

\* What json.load accepts.  A mixture of two reports may be accepted by accident.
Complete(content) ==
  /\ content # NoFile
  /\ content # <<>>
  /\ \A i \in DOMAIN content : content[i] # Hole /\ (content[i].last <=> i = Len(content))

\* All of one report.
Whole(content) ==
  /\ content # NoFile
  /\ content # <<>>
  /\ content = [i \in DOMAIN content |-> Chunk(content[1].save, i = Len(content))]

Load(p, from, d) ==
  /\ Complete(file[d])
  /\ Goes(p, from, "posting")
  /\ loaded' = [loaded EXCEPT ![p] = file[d]]
  /\ UNCHANGED <<day, fired, fileVars>>

\* The scheduler's run goes on with the file of today.
LoadToday == Load("scheduler", "saved", day)

\* There is no such file, or it is no JSON.
LoadRaises ==
  /\ ~Whole(file[day])
  /\ Over("scheduler", "saved")
  /\ UNCHANGED <<day, fired, file, saves, finished, contended>>

\* An operator runs publish_saved for today or for another day; a command that raises
\* changes nothing.
PublishByHand == \E d \in Days : Load("operator", "idle", d)

\* The post arrives, raises, or both: nothing here depends on it.
Post(p) ==
  /\ Over(p, "posting")
  /\ UNCHANGED <<day, fired, file, saves, finished, contended>>

-----------------------------------------------------------------------------
Midnight ==
  /\ day < LastDay
  /\ day' = day + 1
  /\ UNCHANGED <<pc, fired, loaded, fileVars>>

\* The container ends, with the commands that run in it, and Docker starts it again; the
\* hour of the report may have passed.
Crash ==
  /\ pc' = [p \in Procs |-> "idle"]
  /\ loaded' = [p \in Procs |-> <<>>]
  /\ handle' = [p \in Procs |-> NoHandle]
  /\ fired' \in {fired, day}
  /\ UNCHANGED <<day, file, saves, finished, contended>>

Next ==
  \/ Fire
  \/ BuildByHand
  \/ \E p \in Procs :
       \/ BuildRaises(p)
       \/ Open(p)
       \/ Write(p)
       \/ Close(p)
       \/ WriteRaises(p)
       \/ Post(p)
  \/ LoadToday
  \/ LoadRaises
  \/ PublishByHand
  \/ Midnight
  \/ Crash

Spec == Init /\ [][Next]_vars

-----------------------------------------------------------------------------
(* Properties. *)

Contents == {content \in Seq([save : 0..saves, last : BOOLEAN]) : Len(content) <= Chunks}

Handles ==
  {NoHandle} \cup [day : 1..day, save : 1..saves, size : 1..Chunks, next : 1..(Chunks + 1)]

\* Types, and what goes with each place: only a writer's handle may be behind its end.
TypeOK ==
  /\ day \in Days /\ fired \in 0..day
  /\ pc \in [Procs -> Places]
  /\ file \in [Days -> Contents \cup {NoFile}]
  /\ handle \in [Procs -> Handles]
  /\ loaded \in [Procs -> Contents]
  /\ \A p \in Procs :
       /\ handle[p].next <= handle[p].size + 1
       /\ pc[p] = "writing" => handle[p] # NoHandle
       /\ pc[p] = "saved" => handle[p].next = handle[p].size + 1
       /\ pc[p] = "posting" <=> loaded[p] # <<>>
  /\ saves \in 0..MaxSaves
  /\ finished \in [Days -> 0..saves]
  /\ contended \subseteq 1..saves

\* A file that a save has finished with, and no other save touched, holds that report and
\* nothing of the one before, however long that was: the latest result wins.
LatestWins ==
  \A d \in Days :
    (finished[d] # 0 /\ finished[d] \notin contended) =>
      Whole(file[d]) /\ file[d][1].save = finished[d]

\* What is posted is all of one report, although a save writes in place, and may be read
\* meanwhile or die; two saves at the same time are the exception.
PostedIsWhole ==
  \A p \in Procs : pc[p] = "posting" =>
    \/ Whole(loaded[p])
    \/ \E i \in DOMAIN loaded[p] : loaded[p][i].save \in contended

\* The scheduler posts the report that its own run saved, or one saved after it; never an
\* older one, be it after a failed build, around midnight, or beside an operator.
ScheduledPostIsFresh ==
  LET own == handle["scheduler"].save
  IN pc["scheduler"] = "posting" =>
       /\ own # 0
       /\ \/ own \in contended
          \/ \A i \in DOMAIN loaded["scheduler"] : loaded["scheduler"][i].save >= own
=============================================================================
