----------------------------- MODULE SlackProofs -----------------------------
(***************************************************************************)
(* Proofs about what is posted to Slack, for every value of the constants: *)
(* by the reporter (Reporter, and ReportContent for what a report says)    *)
(* and by the resource monitor (ResourceMonitor).                          *)
(*                                                                         *)
(* The two last compute over lists: pages are merged, edits are summed,    *)
(* samples are weighed.  What such a recursion computes for lists of any   *)
(* length is proved by induction, which the first section gets from the    *)
(* well-foundedness of < : no backend can use the induction theorems of    *)
(* the library, as these take an operator.                                 *)
(***************************************************************************)
EXTENDS Reporter, ReportContent, ResourceMonitor, SequenceTheorems, FiniteSetTheorems,
        WellFoundedInduction, TLAPS

-----------------------------------------------------------------------------
(* Induction, recursion, and sums. *)

\* A set of numbers that is not empty has a least one.
LEMMA Least ==
  ASSUME NEW T \in SUBSET Nat, T # {}
  PROVE  \E m \in T : \A k \in T : m <= k
<1> DEFINE R == {ss \in Nat \X Nat : ss[1] < ss[2]}
<1>1. IsWellFoundedOn(R, Nat)
  BY NatLessThanWellFounded DEF OpToRel
<1> HIDE DEF R
<1>2. PICK m \in T : \A k \in T : ~ (<<k, m>> \in R)
  BY <1>1, WFMin
<1>3. \A k \in T : ~ (k < m)
  BY <1>2 DEF R
<1>4. \A k \in T : m <= k
  <2> TAKE k \in T
  <2>1. k \in Nat /\ m \in Nat
    OBVIOUS
  <2> QED BY <1>3, <2>1
<1> QED BY <1>4

\* Induction: a set that has zero, and with a number the next one, has them all.
LEMMA Induction ==
  ASSUME NEW S, 0 \in S, \A n \in Nat : n \in S => n + 1 \in S
  PROVE  \A n \in Nat : n \in S
<1> SUFFICES ASSUME Nat \ S # {} PROVE FALSE
  OBVIOUS
<1>1. PICK m \in Nat \ S : \A k \in Nat \ S : m <= k
  BY Least
<1>2. m - 1 \in Nat /\ m - 1 \in S
  BY <1>1
<1> QED BY <1>1, <1>2

\* g is what the first n steps make of v0.
Unfolds(g, n, v0, step) ==
  g = [i \in 0..n |-> IF i = 0 THEN v0 ELSE step[i][g[i - 1]]]

\* A recursive function on 0..n exists, and its values are where its steps stay.
LEMMA Recursion ==
  ASSUME NEW V, NEW v0 \in V, NEW n \in Nat, NEW step \in [1..n -> [V -> V]]
  PROVE  \E g : Unfolds(g, n, v0, step) /\ g \in [0..n -> V]
<1> DEFINE S == {k \in Nat : k <= n => \E g : Unfolds(g, k, v0, step) /\ g \in [0..k -> V]}
<1>1. 0 \in S
  <2> DEFINE g == [i \in 0..0 |-> v0]
  <2>1. g \in [0..0 -> V] /\ Unfolds(g, 0, v0, step)
    BY DEF Unfolds
  <2> QED BY <2>1
<1>2. ASSUME NEW k \in Nat, k \in S PROVE k + 1 \in S
  <2> SUFFICES ASSUME k + 1 <= n
               PROVE  \E h : Unfolds(h, k + 1, v0, step) /\ h \in [0..(k + 1) -> V]
    OBVIOUS
  <2>1. PICK g : Unfolds(g, k, v0, step) /\ g \in [0..k -> V]
    BY <1>2
  <2> DEFINE h == [i \in 0..(k + 1) |-> IF i = k + 1 THEN step[k + 1][g[k]] ELSE g[i]]
  <2>2. step[k + 1][g[k]] \in V
    <3>1. k \in 0..k /\ k + 1 \in 1..n
      OBVIOUS
    <3>2. g[k] \in V
      BY <2>1, <3>1
    <3> QED BY <3>1, <3>2
  <2>3. h \in [0..(k + 1) -> V]
    <3>1. ASSUME NEW i \in 0..(k + 1), i # k + 1 PROVE g[i] \in V
      <4>1. i \in 0..k
        BY <3>1
      <4> QED BY <4>1, <2>1
    <3> QED BY <2>2, <3>1
  <2>4. ASSUME NEW i \in 0..(k + 1)
        PROVE  h[i] = IF i = 0 THEN v0 ELSE step[i][h[i - 1]]
    <3>1. CASE i = k + 1
      <4>1. i # 0 /\ i - 1 = k /\ k \in 0..(k + 1) /\ k # k + 1
        BY <3>1
      <4> QED BY <3>1, <4>1
    <3>2. CASE i = 0
      <4>1. 0 \in 0..k /\ i # k + 1
        BY <3>2
      <4>2. g[0] = v0
        BY <4>1, <2>1 DEF Unfolds
      <4> QED BY <3>2, <4>1, <4>2
    <3>3. CASE i # k + 1 /\ i # 0
      <4>1. i \in 0..k /\ i - 1 \in 0..(k + 1) /\ i - 1 # k + 1
        BY <3>3
      <4>2. g[i] = step[i][g[i - 1]]
        BY <4>1, <2>1, <3>3 DEF Unfolds
      <4>3. h[i - 1] = g[i - 1] /\ h[i] = g[i]
        BY <4>1, <3>3
      <4> QED BY <3>3, <4>2, <4>3
    <3> QED BY <3>1, <3>2, <3>3
  <2>5. h = [i \in 0..(k + 1) |-> h[i]]
    OBVIOUS
  <2> HIDE DEF h
  <2>6. Unfolds(h, k + 1, v0, step)
    BY <2>4, <2>5 DEF Unfolds
  <2> QED BY <2>3, <2>6
<1> HIDE DEF S
<1>3. n \in S
  BY <1>1, <1>2, Induction
<1> QED BY <1>3 DEF S

\* Induction up to n: values that stay in V.
LEMMA StaysIn ==
  ASSUME NEW V, NEW n \in Nat, NEW g, g[0] \in V,
         \A i \in 1..n : g[i - 1] \in V => g[i] \in V
  PROVE  \A i \in 0..n : g[i] \in V
<1> DEFINE S == {i \in Nat : i <= n => g[i] \in V}
<1>1. 0 \in S
  OBVIOUS
<1>2. ASSUME NEW i \in Nat, i \in S PROVE i + 1 \in S
  <2> SUFFICES ASSUME i + 1 <= n PROVE g[i + 1] \in V
    OBVIOUS
  <2>1. i + 1 \in 1..n /\ (i + 1) - 1 = i /\ g[i] \in V
    BY <1>2
  <2> QED BY <2>1
<1> HIDE DEF S
<1>3. \A i \in Nat : i \in S
  BY <1>1, <1>2, Induction
<1> QED BY <1>3 DEF S

\* Induction up to n: functions that go the same way.
LEMMA StayEqual ==
  ASSUME NEW n \in Nat, NEW g, NEW h, g[0] = h[0],
         \A i \in 1..n : g[i - 1] = h[i - 1] => g[i] = h[i]
  PROVE  \A i \in 0..n : g[i] = h[i]
<1> DEFINE S == {i \in Nat : i <= n => g[i] = h[i]}
<1>1. 0 \in S
  OBVIOUS
<1>2. ASSUME NEW i \in Nat, i \in S PROVE i + 1 \in S
  <2> SUFFICES ASSUME i + 1 <= n PROVE g[i + 1] = h[i + 1]
    OBVIOUS
  <2>1. i + 1 \in 1..n /\ (i + 1) - 1 = i /\ g[i] = h[i]
    BY <1>2
  <2> QED BY <2>1
<1> HIDE DEF S
<1>3. \A i \in Nat : i \in S
  BY <1>1, <1>2, Induction
<1> QED BY <1>3 DEF S

\* The function inside a sum exists, and adds one number after the other.
LEMMA SumUnfolds ==
  ASSUME NEW n \in Nat, NEW g, \A i \in 1..n : g[i] \in Int
  PROVE  \E sum : /\ sum[0] = 0
                  /\ \A i \in 0..n : sum[i] \in Int
                  /\ \A i \in 1..n : sum[i] = sum[i - 1] + g[i]
                  /\ SumTo(g, n) = sum[n]
<1> DEFINE step == [i \in 1..n |-> [x \in Int |-> x + g[i]]]
           Is(sum) == sum = [i \in 0..n |-> IF i = 0 THEN 0 ELSE sum[i - 1] + g[i]]
<1>1. step \in [1..n -> [Int -> Int]] /\ 0 \in Int
  OBVIOUS
<1>2. \A i \in 1..n, x \in Int : step[i][x] = x + g[i]
  OBVIOUS
<1>3. /\ \A i \in 0..n : i # 0 => i \in 1..n /\ i - 1 \in 0..n
      /\ \A i \in 1..n : i # 0 /\ i \in 0..n
      /\ 0 \in 0..n
  OBVIOUS
<1> HIDE DEF step
<1>4. PICK sum : Unfolds(sum, n, 0, step) /\ sum \in [0..n -> Int]
  BY <1>1, Recursion
<1>5. Is(sum)
  BY <1>2, <1>3, <1>4 DEF Unfolds
<1> DEFINE chosen == CHOOSE s : Is(s)
<1>6. Is(chosen)
  BY <1>5
<1>7. SumTo(g, n) = chosen[n]
  BY DEF SumTo
<1> HIDE DEF chosen
<1>8. chosen[0] = 0 /\ \A i \in 1..n : chosen[i] = chosen[i - 1] + g[i]
  BY <1>3, <1>6
<1>9. \A i \in 0..n : chosen[i] \in Int
  BY <1>8, StaysIn
<1> QED BY <1>7, <1>8, <1>9

\* The equations of a sum.
LEMMA SumFacts ==
  ASSUME NEW n \in Nat, NEW g, \A i \in 1..n : g[i] \in Int
  PROVE  /\ SumTo(g, 0) = 0
         /\ SumTo(g, n) \in Int
         /\ n # 0 => SumTo(g, n) = SumTo(g, n - 1) + g[n]
<1>1. SumTo(g, 0) = 0
  BY SumUnfolds
<1>2. PICK a : /\ a[0] = 0
               /\ \A i \in 0..n : a[i] \in Int
               /\ \A i \in 1..n : a[i] = a[i - 1] + g[i]
               /\ SumTo(g, n) = a[n]
  BY SumUnfolds
<1>3. ASSUME n # 0 PROVE SumTo(g, n) = SumTo(g, n - 1) + g[n]
  <2>1. n - 1 \in Nat /\ \A i \in 1..(n - 1) : i \in 1..n
    BY <1>3
  <2>2. PICK b : /\ b[0] = 0
                 /\ \A i \in 1..(n - 1) : b[i] = b[i - 1] + g[i]
                 /\ SumTo(g, n - 1) = b[n - 1]
    BY <2>1, SumUnfolds
  <2>3. \A i \in 1..(n - 1) : a[i - 1] = b[i - 1] => a[i] = b[i]
    BY <1>2, <2>1, <2>2
  <2> DEFINE m == n - 1
  <2>4. \A i \in 0..m : a[i] = b[i]
    <3>1. m \in Nat /\ a[0] = b[0] /\ \A i \in 1..m : a[i - 1] = b[i - 1] => a[i] = b[i]
      BY <1>2, <2>1, <2>2, <2>3
    <3> HIDE DEF m
    <3> QED BY <3>1, StayEqual
  <2>5. n \in 1..n /\ n - 1 \in 0..(n - 1)
    BY <1>3
  <2> QED BY <1>2, <2>2, <2>4, <2>5
<1> QED BY <1>1, <1>2, <1>3

\* The function inside a power exists, and multiplies once more at each number.
LEMMA PowerUnfolds ==
  ASSUME NEW n \in Nat, NEW a \in Nat
  PROVE  \E power : /\ power[0] = 1
                    /\ \A i \in 0..n : power[i] \in Nat
                    /\ \A i \in 1..n : power[i] = a * power[i - 1]
                    /\ Power(a, n) = power[n]
<1> DEFINE step == [i \in 1..n |-> [x \in Nat |-> a * x]]
           Is(power) == power = [i \in 0..n |-> IF i = 0 THEN 1 ELSE a * power[i - 1]]
<1>0. \A x \in Nat : a * x \in Nat
  OBVIOUS
<1>1. step \in [1..n -> [Nat -> Nat]] /\ 1 \in Nat
  BY <1>0
<1>2. \A i \in 1..n, x \in Nat : step[i][x] = a * x
  OBVIOUS
<1>3. /\ \A i \in 0..n : i # 0 => i \in 1..n /\ i - 1 \in 0..n
      /\ \A i \in 1..n : i # 0 /\ i \in 0..n
      /\ 0 \in 0..n
  OBVIOUS
<1> HIDE DEF step
<1>4. PICK power : Unfolds(power, n, 1, step) /\ power \in [0..n -> Nat]
  BY <1>1, Recursion
<1>5. Is(power)
  <2>1. \A i \in 0..n : i # 0 => step[i][power[i - 1]] = a * power[i - 1]
    BY <1>2, <1>3, <1>4
  <2> QED BY <1>4, <2>1 DEF Unfolds
<1> DEFINE chosen == CHOOSE s : Is(s)
<1>6. Is(chosen)
  BY <1>5
<1>7. Power(a, n) = chosen[n]
  BY DEF Power
<1> HIDE DEF chosen
<1>8. chosen[0] = 1 /\ \A i \in 1..n : chosen[i] = a * chosen[i - 1]
  BY <1>3, <1>6
<1>9. chosen[0] \in Nat /\ \A i \in 1..n : chosen[i - 1] \in Nat => chosen[i] \in Nat
  BY <1>0, <1>8
<1>10. \A i \in 0..n : chosen[i] \in Nat
  BY <1>9, StaysIn
<1> QED BY <1>7, <1>8, <1>10

\* The equations of a power.
LEMMA PowerFacts ==
  ASSUME NEW n \in Nat, NEW a \in Nat
  PROVE  /\ Power(a, 0) = 1
         /\ Power(a, n) \in Nat
         /\ Power(a, n + 1) = a * Power(a, n)
         /\ a # 0 => Power(a, n) # 0
<1>1. Power(a, 0) = 1
  BY PowerUnfolds
<1>2. PICK p : /\ p[0] = 1
               /\ \A i \in 0..n : p[i] \in Nat
               /\ \A i \in 1..n : p[i] = a * p[i - 1]
               /\ Power(a, n) = p[n]
  BY PowerUnfolds
<1>3. n + 1 \in Nat
  OBVIOUS
<1>4. PICK q : /\ q[0] = 1
               /\ \A i \in 1..(n + 1) : q[i] = a * q[i - 1]
               /\ Power(a, n + 1) = q[n + 1]
  BY ZenonT(30), <1>3, PowerUnfolds
<1>5. \A i \in 1..n : i \in 1..(n + 1)
  OBVIOUS
<1>6. \A i \in 1..n : p[i - 1] = q[i - 1] => p[i] = q[i]
  BY <1>2, <1>4, <1>5
<1>7. \A i \in 0..n : p[i] = q[i]
  BY <1>2, <1>4, <1>6, StayEqual
<1>8. n + 1 \in 1..(n + 1) /\ (n + 1) - 1 = n /\ n \in 0..n
  OBVIOUS
<1>9. ASSUME a # 0 PROVE p[n] # 0
  <2>1. \A x \in Nat \ {0} : a * x \in Nat \ {0}
    BY <1>9
  <2>2. p[0] \in Nat \ {0} /\ \A i \in 1..n : p[i - 1] \in Nat \ {0} => p[i] \in Nat \ {0}
    BY <1>2, <2>1
  <2> DEFINE V == Nat \ {0}
  <2> HIDE DEF V
  <2>3. \A i \in 0..n : p[i] \in V
    BY <2>2, StaysIn DEF V
  <2> QED BY <2>3, <1>8 DEF V
<1> QED BY <1>1, <1>2, <1>4, <1>7, <1>8, <1>9

\* Equal numbers have equal sums, and a factor comes out of one.
LEMMA ScaledSum ==
  ASSUME NEW n \in Nat, NEW c \in Int, NEW g, NEW h,
         \A i \in 1..n : g[i] \in Int /\ h[i] = c * g[i]
  PROVE  SumTo(h, n) = c * SumTo(g, n)
<1> DEFINE S == {k \in Nat : k <= n => SumTo(h, k) = c * SumTo(g, k)}
<1>1. 0 \in S
  <2>1. SumTo(h, 0) = 0 /\ SumTo(g, 0) = 0
    BY SumFacts
  <2> QED BY <2>1
<1>2. ASSUME NEW k \in Nat, k \in S PROVE k + 1 \in S
  <2> SUFFICES ASSUME k + 1 <= n PROVE SumTo(h, k + 1) = c * SumTo(g, k + 1)
    OBVIOUS
  <2> DEFINE m == k + 1
  <2>1. m \in Nat /\ m # 0 /\ m - 1 = k /\ m \in 1..n /\ \A i \in 1..m : i \in 1..n
    OBVIOUS
  <2>2. \A i \in 1..n : h[i] \in Int
    OBVIOUS
  <2> HIDE DEF m
  <2>3. SumTo(g, m) = SumTo(g, k) + g[m]
    BY <2>1, SumFacts
  <2>4. SumTo(h, m) = SumTo(h, k) + h[m]
    BY <2>1, <2>2, SumFacts
  <2>5. SumTo(g, k) \in Int
    <3>1. \A i \in 1..k : i \in 1..n
      BY <2>1
    <3> QED BY <3>1, SumFacts
  <2>6. SumTo(h, k) = c * SumTo(g, k)
    BY <1>2, <2>1
  <2>7. g[m] \in Int /\ h[m] = c * g[m]
    BY <2>1
  <2>8. \A x, y \in Int : c * x + c * y = c * (x + y)
    OBVIOUS
  <2> QED BY <2>3, <2>4, <2>5, <2>6, <2>7, <2>8 DEF m
<1> HIDE DEF S
<1>3. n \in S
  BY <1>1, <1>2, Induction
<1> QED BY <1>3 DEF S

\* The weight of the mean in the next one; AlphaNum is that of the new sample.

(***************************************************************************)
(* Reporter: the processes and the file.                                   *)
(***************************************************************************)

-----------------------------------------------------------------------------
(* The invariant. *)

FutureIsEmpty == \A d \in Days : d > day => file[d] = NoFile

OpenFileExists ==
  \A p \in Procs : pc[p] = "writing" => file[handle[p].day] # NoFile

\* A save of a later day has a higher number: among those that are going on, and in the
\* files.
DaysInOrder ==
  \A p, q \in Procs :
    handle[p] # NoHandle /\ handle[p].day < handle[q].day => handle[p].save < handle[q].save

FilesInOrder ==
  \A p \in Procs, d \in Days :
    handle[p] # NoHandle /\ handle[p].day < d /\ file[d] # NoFile =>
      \A i \in DOMAIN file[d] : file[d][i] = Hole \/ handle[p].save < file[d][i].save

\* Who shares a file is contended.
OthersAreContended ==
  \A p, q \in Procs :
    p # q /\ pc[p] = "writing" /\ pc[q] = "writing" /\ handle[p].day = handle[q].day =>
      handle[p].save \in contended

\* A file that has what was written of a report, and nothing else.
HasWritten(content, h) ==
  /\ content # NoFile
  /\ Len(content) = h.next - 1
  /\ \A i \in 1..(h.next - 1) : content[i] = Chunk(h.save, i = h.size)

AloneInFile ==
  \A p \in Procs :
    pc[p] = "writing" /\ handle[p].save \notin contended =>
      HasWritten(file[handle[p].day], handle[p])

\* Nobody writes a file that a save has finished with alone.
FinishedIsLeft ==
  \A d \in Days : finished[d] # 0 /\ finished[d] \notin contended => Writers(d) = {}

OfContended(content) == \E i \in DOMAIN content : content[i].save \in contended

\* The beginning of a report, or all of it.
OfOneReport(content) ==
  \A i \in DOMAIN content :
    content[i].save = content[1].save /\ (content[i].last => i = Len(content))

OneReportOrContended ==
  \A d \in Days : file[d] # NoFile => OfOneReport(file[d]) \/ OfContended(file[d])

NotBefore(content, save) == \A i \in DOMAIN content : content[i] = Hole \/ content[i].save >= save

\* Between its save and its post the scheduler finds its own report in the file, or a
\* later one.
SavedIsFloor ==
  LET h == handle["scheduler"]
  IN pc["scheduler"] = "saved" /\ h.save \notin contended =>
       /\ file[h.day] # NoFile => NotBefore(file[h.day], h.save)
       /\ \A q \in Writers(h.day) : handle[q].save >= h.save

IInv ==
  /\ TypeOK
  /\ FutureIsEmpty
  /\ OpenFileExists
  /\ DaysInOrder
  /\ FilesInOrder
  /\ OthersAreContended
  /\ AloneInFile
  /\ FinishedIsLeft
  /\ LatestWins
  /\ OneReportOrContended
  /\ PostedIsWhole
  /\ SavedIsFloor
  /\ ScheduledPostIsFresh

-----------------------------------------------------------------------------
(* Types. *)

\* What is assumed of the constants.
LEMMA Sizes == /\ Chunks \in Nat \ {0} /\ LastDay \in Nat \ {0} /\ MaxSaves \in Nat
               /\ NoFile \notin Seq([save : Nat, last : BOOLEAN])
BY ReporterAssumption

\* The day and the number of saves are numbers, and no file is of a save to come.
LEMMA Counters ==
  ASSUME TypeOK
  PROVE  /\ day \in Nat /\ day \in Days /\ saves \in Nat
         /\ \A d \in Days : d \in Nat
         /\ \A d \in Days : finished[d] \in Nat /\ finished[d] <= saves
BY Sizes DEF TypeOK, Days

\* A process that has a file open, or had.
LEMMA HandleFacts ==
  ASSUME TypeOK, NEW p \in Procs
  PROVE  /\ handle[p].day \in Nat /\ handle[p].save \in Nat
         /\ handle[p].size \in Nat /\ handle[p].next \in Nat
         /\ handle[p].next <= handle[p].size + 1 /\ handle[p].size <= Chunks
         /\ handle[p].save <= saves /\ handle[p].day <= day
         /\ handle[p] # NoHandle =>
              /\ handle[p].day \in Days /\ handle[p].save > 0
              /\ handle[p].size > 0 /\ handle[p].next > 0
         /\ handle[p] = NoHandle => handle[p].day = 0 /\ handle[p].save = 0
<1>1. handle[p] \in Handles /\ handle[p].next <= handle[p].size + 1
  BY DEF TypeOK
<1>2. day \in Days /\ saves \in Nat
  BY Sizes DEF TypeOK
<1>3. CASE handle[p] = NoHandle
  BY <1>1, <1>2, <1>3, Sizes DEF NoHandle, Days
<1>4. CASE handle[p] # NoHandle
  <2>1. handle[p] \in [day : 1..day, save : 1..saves, size : 1..Chunks, next : 1..(Chunks + 1)]
    BY <1>1, <1>4 DEF Handles
  <2>2. /\ handle[p].day \in 1..day /\ handle[p].save \in 1..saves
        /\ handle[p].size \in 1..Chunks /\ handle[p].next \in 1..(Chunks + 1)
    BY <2>1
  <2>3. handle[p].day \in Days /\ day \in Nat
    BY <1>2, <2>2, Sizes DEF Days
  <2>4. /\ handle[p].day \in Nat /\ handle[p].day <= day
        /\ handle[p].save \in Nat /\ handle[p].save <= saves /\ handle[p].save > 0
    BY <1>2, <2>2, <2>3
  <2>5. /\ handle[p].size \in Nat /\ handle[p].size <= Chunks /\ handle[p].size > 0
        /\ handle[p].next \in Nat /\ handle[p].next > 0
    BY <2>2, Sizes
  <2> QED
    BY <1>1, <1>4, <2>3, <2>4, <2>5
<1> QED
  BY <1>3, <1>4

\* A process that writes has a file open.
LEMMA WriterFacts ==
  ASSUME TypeOK, NEW p \in Procs, pc[p] = "writing"
  PROVE  handle[p] # NoHandle
BY DEF TypeOK

\* What a file or a process holds of reports.
LEMMA ContentFacts ==
  ASSUME TypeOK, NEW content \in Contents
  PROVE  /\ content \in Seq([save : 0..saves, last : BOOLEAN])
         /\ content # NoFile
         /\ Len(content) \in Nat /\ Len(content) <= Chunks /\ DOMAIN content = 1..Len(content)
         /\ \A i \in DOMAIN content : /\ content[i] \in [save : 0..saves, last : BOOLEAN]
                                      /\ content[i].save \in Nat /\ content[i].save <= saves
                                      /\ content[i].last \in BOOLEAN
         /\ content # <<>> => Len(content) > 0
<1>1. content \in Seq([save : 0..saves, last : BOOLEAN]) /\ Len(content) <= Chunks
  BY DEF Contents
<1>2. saves \in Nat
  BY Sizes DEF TypeOK
<1>3. content \in Seq([save : Nat, last : BOOLEAN])
  <2>1. 0..saves \subseteq Nat
    BY <1>2
  <2>2. PICK S, T : /\ S = [save : 0..saves, last : BOOLEAN] /\ T = [save : Nat, last : BOOLEAN]
                    /\ S \subseteq T
    BY <2>1
  <2>3. content \in Seq(S)
    BY <1>1, <2>2
  <2>4. content \in Seq(T)
    <3>1. S \subseteq T
      BY <2>2
    <3> QED
      BY <2>3, <3>1, SeqMonotonic
  <2> QED
    BY <2>2, <2>4
<1>4. Len(content) \in Nat /\ DOMAIN content = 1..Len(content)
  BY <1>1, LenProperties
<1>5. \A i \in 1..Len(content) : content[i] \in [save : 0..saves, last : BOOLEAN]
  BY <1>1, ElementOfSeq
<1>6. content # <<>> => Len(content) > 0
  BY <1>1, EmptySeq
<1> QED
  BY <1>1, <1>2, <1>3, <1>4, <1>5, <1>6, Sizes

\* A file that exists holds chunks of reports.
LEMMA FileFacts ==
  ASSUME TypeOK, NEW d \in Days, file[d] # NoFile
  PROVE  file[d] \in Contents
BY DEF TypeOK

\* What was a content stays one when a save begins.
LEMMA ContentsGrow ==
  ASSUME TypeOK, saves' \in Nat, saves <= saves'
  PROVE  Contents \subseteq Contents'
<1> SUFFICES ASSUME NEW content \in Contents
             PROVE  content \in Contents'
  OBVIOUS
<1>1. [save : 0..saves, last : BOOLEAN] \subseteq [save : 0..saves', last : BOOLEAN]
  BY Sizes DEF TypeOK
<1>2. content \in Seq([save : 0..saves', last : BOOLEAN])
  BY <1>1, ContentFacts, SeqMonotonic
<1> QED
  BY <1>2 DEF Contents

\* What was an open file stays one when a save begins or a day ends.
LEMMA HandlesGrow ==
  ASSUME TypeOK, saves' \in Nat, saves <= saves', day' \in Nat, day <= day'
  PROVE  Handles \subseteq Handles'
<1>1. 1..saves \subseteq 1..saves' /\ 1..day \subseteq 1..day'
  BY Sizes DEF TypeOK, Days
<1> QED
  BY <1>1 DEF Handles

-----------------------------------------------------------------------------
(* Steps that leave the files and the saves alone: a process goes on with what it has, or *)
(* drops it. *)

Rest(p) ==
  \/ pc'[p] = pc[p] /\ handle'[p] = handle[p] /\ loaded'[p] = loaded[p]
  \/ pc'[p] \in {"idle", "building"} /\ handle'[p] \in {handle[p], NoHandle} /\ loaded'[p] = <<>>

\* A step that touches neither files nor saves keeps the invariant, if it leaves each
\* process as it is or takes from it what it read, and brings none to its post.
LEMMA Rests ==
  ASSUME IInv, UNCHANGED <<file, saves, finished, contended>>,
         day' \in Days, day <= day', fired' \in 0..day',
         pc' = [p \in Procs |-> pc'[p]], handle' = [p \in Procs |-> handle'[p]],
         loaded' = [p \in Procs |-> loaded'[p]],
         \A p \in Procs : Rest(p)
  PROVE  IInv'
<1> USE DEF IInv
<1>1. TypeOK'
  <2>1. Contents' = Contents
    BY DEF Contents
  <2>2. Handles \subseteq Handles'
    <3>1. day \in Nat /\ day' \in Nat /\ saves \in Nat
      BY Counters DEF Days
    <3> QED
      BY <3>1, HandlesGrow
  <2>3. pc' \in [Procs -> Places]
    BY DEF TypeOK, Rest, Places
  <2>4. handle' \in [Procs -> Handles']
    <3>1. \A p \in Procs : handle'[p] \in Handles'
      BY <2>2 DEF TypeOK, Rest, Handles
    <3> QED
      BY <3>1
  <2>5. loaded' \in [Procs -> Contents']
    <3>1. <<>> \in Contents
      BY EmptySeq, Sizes DEF Contents
    <3> QED
      BY <2>1, <3>1 DEF TypeOK, Rest
  <2>6. ASSUME NEW p \in Procs
        PROVE  /\ handle'[p].next <= handle'[p].size + 1
               /\ pc'[p] = "writing" => handle'[p] # NoHandle
               /\ pc'[p] = "saved" => handle'[p].next = handle'[p].size + 1
               /\ pc'[p] = "posting" <=> loaded'[p] # <<>>
    <3>1. CASE pc'[p] = pc[p] /\ handle'[p] = handle[p] /\ loaded'[p] = loaded[p]
      BY <3>1 DEF TypeOK
    <3>2. CASE pc'[p] \in {"idle", "building"} /\ handle'[p] \in {handle[p], NoHandle}
               /\ loaded'[p] = <<>>
      BY <3>2 DEF TypeOK, NoHandle
    <3> QED
      BY <3>1, <3>2 DEF Rest
  <2> QED
    BY <2>1, <2>3, <2>4, <2>5, <2>6 DEF TypeOK
<1>2. FutureIsEmpty'
  <2>1. \A d \in Days : d > day' => d > day
    BY Counters DEF Days
  <2> QED
    BY <2>1 DEF FutureIsEmpty
<1>3. OpenFileExists'
  BY DEF OpenFileExists, Rest
<1>4. DaysInOrder'
  <2> SUFFICES ASSUME NEW p \in Procs, NEW q \in Procs, handle'[p] # NoHandle,
                      handle'[p].day < handle'[q].day
               PROVE  handle'[p].save < handle'[q].save
    BY DEF DaysInOrder
  <2>1. handle'[p] = handle[p]
    BY DEF Rest
  <2>2. handle'[q] = handle[q]
    BY <2>1, HandleFacts DEF Rest, NoHandle
  <2> QED
    BY <2>1, <2>2 DEF DaysInOrder
<1>5. FilesInOrder'
  BY DEF FilesInOrder, Rest
<1>6. OthersAreContended'
  BY DEF OthersAreContended, Rest
<1>7. AloneInFile'
  BY DEF AloneInFile, Rest
<1>8. FinishedIsLeft'
  BY DEF FinishedIsLeft, Writers, Rest
<1>9. LatestWins' /\ OneReportOrContended'
  BY DEF LatestWins, OneReportOrContended, OfContended
<1>10. PostedIsWhole'
  BY DEF PostedIsWhole, Rest
<1>11. SavedIsFloor'
  BY DEF SavedIsFloor, Writers, Rest, Procs
<1>12. ScheduledPostIsFresh'
  BY DEF ScheduledPostIsFresh, Rest, Procs
<1> QED
  BY <1>1, <1>2, <1>3, <1>4, <1>5, <1>6, <1>7, <1>8, <1>9, <1>10, <1>11, <1>12

\* The steps that touch neither files nor saves, but for the loads.
LEMMA RestSteps ==
  ASSUME IInv,
         \/ Fire
         \/ BuildByHand
         \/ \E p \in Procs : BuildRaises(p) \/ WriteRaises(p) \/ Post(p)
         \/ LoadRaises
         \/ Midnight
         \/ Crash
         \/ UNCHANGED vars
  PROVE  IInv'
<1>1. /\ day \in Days /\ day \in Nat /\ fired \in 0..day
      /\ pc = [p \in Procs |-> pc[p]] /\ handle = [p \in Procs |-> handle[p]]
      /\ loaded = [p \in Procs |-> loaded[p]]
      /\ \A p \in Procs : pc[p] \notin {"posting"} => loaded[p] = <<>>
  BY Counters DEF IInv, TypeOK
<1>2. CASE Fire \/ BuildByHand \/ \E p \in Procs : BuildRaises(p)
  <2>1. PICK p \in Procs :
          /\ pc[p] \in {"idle", "building"}
          /\ pc' = [pc EXCEPT ![p] = "building"] \/ pc' = [pc EXCEPT ![p] = "idle"]
    BY <1>2 DEF Fire, BuildByHand, BuildRaises, Goes, Procs
  <2>2. UNCHANGED <<day, loaded, file, handle, saves, finished, contended>> /\ fired' \in {fired, day}
    BY <1>2 DEF Fire, BuildByHand, BuildRaises, fileVars
  <2>3. fired' \in 0..day'
    BY <1>1, <2>2
  <2>4. \A q \in Procs : Rest(q)
    BY <1>1, <2>1, <2>2 DEF Rest
  <2>5. pc' = [q \in Procs |-> pc'[q]]
    BY <1>1, <2>1
  <2> QED
    BY <1>1, <2>2, <2>3, <2>4, <2>5, Rests
<1>3. CASE LoadRaises \/ \E p \in Procs : WriteRaises(p) \/ Post(p)
  <2>1. PICK p \in Procs :
          /\ pc' = [pc EXCEPT ![p] = "idle"]
          /\ handle' = [handle EXCEPT ![p] = NoHandle]
          /\ loaded' = [loaded EXCEPT ![p] = <<>>]
    BY <1>3 DEF LoadRaises, WriteRaises, Post, Over, Goes, Procs
  <2>2. UNCHANGED <<day, fired, file, saves, finished, contended>>
    BY <1>3 DEF LoadRaises, WriteRaises, Post
  <2>3. \A q \in Procs : Rest(q)
    BY <1>1, <2>1 DEF Rest
  <2>4. /\ pc' = [q \in Procs |-> pc'[q]] /\ handle' = [q \in Procs |-> handle'[q]]
        /\ loaded' = [q \in Procs |-> loaded'[q]]
    BY <1>1, <2>1
  <2> QED
    BY <1>1, <2>2, <2>3, <2>4, Rests
<1>4. CASE Midnight
  <2>1. UNCHANGED <<pc, fired, loaded, file, handle, saves, finished, contended>>
    BY <1>4 DEF Midnight, fileVars
  <2>2. day' \in Days /\ day <= day' /\ fired' \in 0..day'
    <3>1. PICK today : today = day' /\ today = day + 1 /\ day < LastDay
      BY <1>4 DEF Midnight
    <3> QED
      BY <1>1, <2>1, <3>1, Sizes DEF Days
  <2>3. \A q \in Procs : Rest(q)
    BY <2>1 DEF Rest
  <2> QED
    BY <1>1, <2>1, <2>2, <2>3, Rests
<1>5. CASE Crash
  <2>1. /\ pc' = [p \in Procs |-> "idle"] /\ loaded' = [p \in Procs |-> <<>>]
        /\ handle' = [p \in Procs |-> NoHandle]
        /\ UNCHANGED <<day, file, saves, finished, contended>>
    BY <1>5 DEF Crash
  <2>2. fired' \in 0..day'
    BY <1>1, <1>5, <2>1 DEF Crash
  <2>3. \A q \in Procs : Rest(q)
    BY <2>1 DEF Rest
  <2> QED
    BY <1>1, <2>1, <2>2, <2>3, Rests
<1>6. CASE UNCHANGED vars
  <2>1. UNCHANGED <<day, pc, fired, loaded, file, handle, saves, finished, contended>>
    BY <1>6 DEF vars, fileVars
  <2>2. \A q \in Procs : Rest(q)
    BY <2>1 DEF Rest
  <2> QED
    BY <1>1, <2>1, <2>2, Rests
<1> QED
  BY <1>2, <1>3, <1>4, <1>5, <1>6

-----------------------------------------------------------------------------
(* Reading. *)

\* A file that is JSON to its end and the beginning of one report is all of it.
LEMMA CompleteIsWhole ==
  ASSUME TypeOK, NEW content \in Contents, Complete(content), OfOneReport(content)
  PROVE  Whole(content)
<1>1. /\ content # NoFile /\ content # <<>> /\ DOMAIN content = 1..Len(content)
      /\ content \in [1..Len(content) -> [save : 0..saves, last : BOOLEAN]]
  BY ContentFacts, LenProperties DEF Complete
<1>2. \A i \in DOMAIN content :
        content[i] = [save |-> content[1].save, last |-> (i = Len(content))]
  <2> SUFFICES ASSUME NEW i \in DOMAIN content
               PROVE  content[i] = [save |-> content[1].save, last |-> (i = Len(content))]
    OBVIOUS
  <2>1. content[i] \in [save : 0..saves, last : BOOLEAN]
    BY <1>1
  <2>2. content[i].save = content[1].save
    BY DEF OfOneReport
  <2>3. content[i].last = (i = Len(content))
    BY <2>1 DEF Complete
  <2> QED
    BY <2>1, <2>2, <2>3
<1> QED
  BY <1>1, <1>2 DEF Whole, Chunk

\* What json.load accepts is whole or of contended saves, and what the scheduler loads is
\* its own report or a later one.
LEMMA LoadStep ==
  ASSUME IInv, NEW p \in Procs, NEW from, NEW d \in Days, Load(p, from, d),
         \/ p = "scheduler" /\ from = "saved" /\ d = day
         \/ p = "operator" /\ from = "idle"
  PROVE  IInv'
<1> USE DEF IInv
<1>1. /\ UNCHANGED <<day, fired, file, handle, saves, finished, contended>>
      /\ pc[p] = from /\ pc' = [pc EXCEPT ![p] = "posting"]
      /\ loaded' = [loaded EXCEPT ![p] = file[d]]
      /\ Complete(file[d])
  BY DEF Load, Goes, fileVars
<1>2. file[d] # NoFile /\ file[d] # <<>> /\ file[d] \in Contents
  BY <1>1, FileFacts DEF Complete
<1>3. /\ \A q \in Procs : pc'[q] = "writing" <=> pc[q] = "writing"
      /\ \A q \in Procs : pc'[q] = "saved" => pc[q] = "saved"
      /\ \A q \in Procs : pc'[q] = "posting" => q = p \/ pc[q] = "posting"
      /\ \A q \in Procs : q # p => pc'[q] = pc[q] /\ loaded'[q] = loaded[q]
      /\ pc'[p] = "posting" /\ loaded'[p] = file[d]
  BY <1>1 DEF TypeOK
<1>4. TypeOK'
  <2>1. Contents' = Contents /\ Handles' = Handles
    BY <1>1 DEF Contents, Handles
  <2>2. pc' \in [Procs -> Places] /\ loaded' \in [Procs -> Contents]
    BY <1>1, <1>2 DEF TypeOK, Places
  <2> QED
    BY <1>1, <1>2, <1>3, <2>1, <2>2 DEF TypeOK
<1>5. FutureIsEmpty' /\ DaysInOrder' /\ FilesInOrder' /\ LatestWins' /\ OneReportOrContended'
  BY <1>1 DEF FutureIsEmpty, DaysInOrder, FilesInOrder, LatestWins, OneReportOrContended,
     OfContended
<1>6. OpenFileExists' /\ OthersAreContended' /\ AloneInFile' /\ FinishedIsLeft'
  BY <1>1, <1>3 DEF OpenFileExists, OthersAreContended, AloneInFile, FinishedIsLeft, Writers
<1>7. PostedIsWhole'
  <2>1. Whole(file[d]) \/ OfContended(file[d])
    BY <1>1, <1>2, CompleteIsWhole DEF OneReportOrContended
  <2> SUFFICES ASSUME NEW q \in Procs, pc'[q] = "posting"
               PROVE  Whole(loaded'[q]) \/ \E i \in DOMAIN loaded'[q] : loaded'[q][i].save \in contended
    BY <1>1 DEF PostedIsWhole
  <2>2. CASE q = p
    BY <1>3, <2>1, <2>2 DEF OfContended
  <2>3. CASE q # p
    BY <1>3, <2>3 DEF PostedIsWhole
  <2> QED
    BY <2>2, <2>3
<1>8. SavedIsFloor'
  BY <1>1, <1>3 DEF SavedIsFloor, Writers, Procs
<1>9. ScheduledPostIsFresh'
  <2>1. CASE p = "operator"
    BY <1>1, <1>3, <2>1 DEF ScheduledPostIsFresh, Procs
  <2>2. CASE p = "scheduler"
    <3> DEFINE h == handle["scheduler"]
    <3>1. d = day /\ pc["scheduler"] = "saved"
      BY <1>1, <2>2
    <3>2. h # NoHandle /\ h.save > 0 /\ h.save \in Nat /\ h.day \in Days /\ h.day <= day
          /\ h.day \in Nat /\ day \in Nat
      <4>1. h # NoHandle
        BY <2>2, <3>1 DEF TypeOK, NoHandle
      <4> QED
        BY <2>2, <4>1, HandleFacts, Counters
    <3>3. \A i \in DOMAIN file[d] : file[d][i] # Hole
      BY <1>1 DEF Complete
    <3>4. \A i \in DOMAIN file[d] : file[d][i].save \in Nat
      BY <1>2, ContentFacts
    <3>5. h.save \in contended \/ \A i \in DOMAIN file[d] : file[d][i].save >= h.save
      <4>1. CASE h.day = day
        BY <1>2, <3>1, <3>3, <4>1 DEF SavedIsFloor, NotBefore
      <4>2. CASE h.day < day
        BY <1>2, <2>2, <3>1, <3>2, <3>3, <3>4, <4>2 DEF FilesInOrder
      <4> QED
        BY <3>2, <4>1, <4>2
    <3> QED
      BY <1>1, <1>3, <2>2, <3>2, <3>5 DEF ScheduledPostIsFresh
  <2> QED
    BY <2>1, <2>2
<1> QED
  BY <1>4, <1>5, <1>6, <1>7, <1>8, <1>9

-----------------------------------------------------------------------------
(* Writing. *)

\* A chunk knows its save and whether it is the last one.
LEMMA ChunkFields == \A n, b : Chunk(n, b).save = n /\ Chunk(n, b).last = b
BY DEF Chunk

\* A file with all of what a save writes is a report that json.load accepts.
LEMMA WrittenIsWhole ==
  ASSUME TypeOK, NEW content \in Contents, NEW h, HasWritten(content, h),
         h.next = h.size + 1, h.size \in Nat, h.size > 0
  PROVE  /\ Whole(content)
         /\ content[1].save = h.save
         /\ \A i \in DOMAIN content : content[i].save = h.save
<1>1. /\ content # NoFile /\ DOMAIN content = 1..Len(content)
      /\ content \in [1..Len(content) -> [save : 0..saves, last : BOOLEAN]]
  BY ContentFacts, LenProperties
<1>2. Len(content) = h.size /\ \A i \in 1..h.size : content[i] = Chunk(h.save, i = h.size)
  BY DEF HasWritten
<1>3. content # <<>>
  BY <1>2, EmptySeq
<1>4. \A i \in 1..h.size : content[i].save = h.save
  BY <1>2, ChunkFields
<1>5. content[1].save = h.save
  BY <1>4
<1> QED
  BY <1>1, <1>2, <1>3, <1>4, <1>5 DEF Whole

\* A save that ends alone leaves its report in the file.
LEMMA CloseStep ==
  ASSUME IInv, NEW p \in Procs, Close(p)
  PROVE  IInv'
<1> USE DEF IInv
<1> DEFINE h == handle[p]
<1>1. /\ UNCHANGED <<day, fired, file, saves, contended>>
      /\ pc[p] = "writing" /\ h.next > h.size
      /\ finished' = [finished EXCEPT ![h.day] = h.save]
  BY DEF Close, Goes, Over
<1>2. /\ h # NoHandle /\ h.day \in Days /\ h.save \in 0..saves /\ h.size \in Nat /\ h.size > 0
      /\ h.next = h.size + 1 /\ h.day \in Nat
  BY <1>1, WriterFacts, HandleFacts, Counters
<1>3. \/ p = "scheduler" /\ pc' = [pc EXCEPT ![p] = "saved"] /\ UNCHANGED <<handle, loaded>>
      \/ /\ p = "operator" /\ pc' = [pc EXCEPT ![p] = "idle"]
         /\ handle' = [handle EXCEPT ![p] = NoHandle] /\ loaded' = [loaded EXCEPT ![p] = <<>>]
  BY DEF Close, Goes, Over, Procs
<1>4. /\ \A q \in Procs : q # p => pc'[q] = pc[q] /\ handle'[q] = handle[q] /\ loaded'[q] = loaded[q]
      /\ pc'[p] # "writing" /\ pc'[p] # "posting"
      /\ p = "scheduler" => pc'[p] = "saved" /\ handle'[p] = handle[p]
      /\ p = "operator" => pc'[p] = "idle" /\ handle'[p] = NoHandle
  BY <1>3 DEF TypeOK
<1>5. \A q \in Procs : pc'[q] = "writing" => pc[q] = "writing" /\ q # p /\ handle'[q] = handle[q]
  BY <1>4
<1>6. TypeOK'
  <2>1. Contents' = Contents /\ Handles' = Handles
    BY <1>1 DEF Contents, Handles
  <2>2. <<>> \in Contents /\ NoHandle \in Handles
    BY EmptySeq, Sizes DEF Contents, Handles
  <2>3. pc' \in [Procs -> Places] /\ handle' \in [Procs -> Handles] /\ loaded' \in [Procs -> Contents]
    BY <1>3, <2>2 DEF TypeOK, Places
  <2>4. finished' \in [Days -> 0..saves]
    BY <1>1, <1>2 DEF TypeOK
  <2>5. loaded[p] = <<>>
    BY <1>1 DEF TypeOK
  <2>6. ASSUME NEW q \in Procs
        PROVE  /\ handle'[q].next <= handle'[q].size + 1
               /\ pc'[q] = "writing" => handle'[q] # NoHandle
               /\ pc'[q] = "saved" => handle'[q].next = handle'[q].size + 1
               /\ pc'[q] = "posting" <=> loaded'[q] # <<>>
    <3>1. CASE q # p
      BY <1>4, <3>1 DEF TypeOK
    <3>2. CASE q = p /\ p = "scheduler"
      BY <1>2, <1>3, <1>4, <2>5, <3>2 DEF TypeOK
    <3>3. CASE q = p /\ p = "operator"
      BY <1>3, <1>4, <3>3 DEF TypeOK, NoHandle
    <3> QED
      BY <3>1, <3>2, <3>3 DEF Procs
  <2> QED
    BY <1>1, <2>1, <2>3, <2>4, <2>6 DEF TypeOK
<1>7. \A q \in Procs : handle'[q] \in {handle[q], NoHandle}
  BY <1>4 DEF Procs
<1>8. FutureIsEmpty' /\ FilesInOrder' /\ OneReportOrContended'
  BY <1>1, <1>7 DEF FutureIsEmpty, FilesInOrder, OneReportOrContended, OfContended
<1>9. DaysInOrder'
  <2> SUFFICES ASSUME NEW a \in Procs, NEW b \in Procs, handle'[a] # NoHandle,
                      handle'[a].day < handle'[b].day
               PROVE  handle'[a].save < handle'[b].save
    BY DEF DaysInOrder
  <2>1. handle'[a] = handle[a]
    BY <1>7
  <2>2. handle'[b] = handle[b]
    BY <1>7, <2>1, HandleFacts DEF NoHandle
  <2> QED
    BY <2>1, <2>2 DEF DaysInOrder
<1>10. OpenFileExists' /\ OthersAreContended' /\ AloneInFile'
  BY <1>1, <1>5 DEF OpenFileExists, OthersAreContended, AloneInFile
<1>11. \A d \in Days : Writers(d)' \subseteq Writers(d) \ {p}
  BY <1>5 DEF Writers
<1>12. \A d \in Days : d = h.day /\ h.save \notin contended => Writers(d)' = {}
  BY <1>1, <1>5, <1>11 DEF OthersAreContended, Writers
<1>13. FinishedIsLeft'
  <2> SUFFICES ASSUME NEW d \in Days, finished'[d] # 0, finished'[d] \notin contended
               PROVE  Writers(d)' = {}
    BY <1>1 DEF FinishedIsLeft
  <2>1. CASE d = h.day
    BY <1>1, <1>12, <2>1 DEF TypeOK
  <2>2. CASE d # h.day
    BY <1>1, <1>11, <2>2 DEF FinishedIsLeft, TypeOK
  <2> QED
    BY <2>1, <2>2
<1>14. h.save \notin contended =>
         /\ Whole(file[h.day]) /\ file[h.day][1].save = h.save
         /\ \A i \in DOMAIN file[h.day] : file[h.day][i].save = h.save
  <2> SUFFICES ASSUME h.save \notin contended
               PROVE  /\ Whole(file[h.day]) /\ file[h.day][1].save = h.save
                      /\ \A i \in DOMAIN file[h.day] : file[h.day][i].save = h.save
    OBVIOUS
  <2>1. HasWritten(file[h.day], h)
    BY <1>1 DEF AloneInFile
  <2>2. file[h.day] \in Contents
    BY <1>2, <2>1, FileFacts DEF HasWritten
  <2> QED
    BY <1>2, <2>1, <2>2, WrittenIsWhole
<1>15. LatestWins'
  <2> SUFFICES ASSUME NEW d \in Days, finished'[d] # 0, finished'[d] \notin contended
               PROVE  Whole(file[d]) /\ file[d][1].save = finished'[d]
    BY <1>1 DEF LatestWins
  <2>1. CASE d = h.day
    BY <1>1, <1>14, <2>1 DEF TypeOK
  <2>2. CASE d # h.day
    BY <1>1, <2>2 DEF LatestWins, TypeOK
  <2> QED
    BY <2>1, <2>2
<1>16. PostedIsWhole'
  BY <1>1, <1>4 DEF PostedIsWhole
<1>17. SavedIsFloor'
  <2>1. CASE p = "scheduler"
    <3> SUFFICES ASSUME h.save \notin contended
                 PROVE  NotBefore(file[h.day], h.save)
      BY <1>1, <1>2, <1>4, <1>12, <2>1 DEF SavedIsFloor
    <3> QED
      BY <1>2, <1>14 DEF NotBefore
  <2>2. CASE p = "operator"
    <3>1. pc'["scheduler"] = pc["scheduler"] /\ handle'["scheduler"] = handle["scheduler"]
      BY <1>4, <2>2 DEF Procs
    <3>2. \A d : \A q \in Writers(d)' : q \in Writers(d) /\ handle'[q] = handle[q]
      BY <1>5 DEF Writers
    <3> QED
      BY <1>1, <3>1, <3>2 DEF SavedIsFloor
  <2> QED
    BY <2>1, <2>2 DEF Procs
<1>18. ScheduledPostIsFresh'
  BY <1>1, <1>4 DEF ScheduledPostIsFresh, Procs
<1> QED
  BY <1>6, <1>8, <1>9, <1>10, <1>13, <1>15, <1>16, <1>17, <1>18

\* What a write makes of a file.
LEMMA PutIs ==
  ASSUME TypeOK, NEW content \in Contents, NEW k \in 1..Chunks, NEW s \in 0..saves, NEW b \in BOOLEAN,
         NEW written, written = Put(content, k, Chunk(s, b))
  PROVE  /\ written \in Contents
         /\ Len(written) = IF Len(content) < k THEN k ELSE Len(content)
         /\ k \in DOMAIN written /\ written[k] = Chunk(s, b)
         /\ \A i \in DOMAIN written :
              i = k \/ written[i] = Hole \/ (i \in DOMAIN content /\ written[i] = content[i])
         /\ \A i \in DOMAIN content : i # k => written[i] = content[i]
<1>1. PICK S : S = [save : 0..saves, last : BOOLEAN]
  OBVIOUS
<1>2. PICK m : m = IF Len(content) < k THEN k ELSE Len(content)
  OBVIOUS
<1>3. /\ m \in Nat /\ m <= Chunks /\ k \in 1..m /\ DOMAIN content = 1..Len(content)
      /\ 1..Len(content) \subseteq 1..m
      /\ \A i \in DOMAIN content : content[i] \in S
  BY <1>1, <1>2, ContentFacts, Sizes
<1>4. Chunk(s, b) \in S /\ Hole \in S
  BY <1>1, Sizes DEF TypeOK, Chunk, Hole
<1>5. written = [j \in 1..m |-> IF j = k THEN Chunk(s, b)
                            ELSE IF j \in DOMAIN content THEN content[j] ELSE Hole]
  BY <1>2 DEF Put
<1>6. written \in [1..m -> S]
  BY <1>3, <1>4, <1>5
<1>7. written \in Seq(S) /\ DOMAIN written = 1..m
  BY <1>3, <1>6, SeqDef
<1>8. Len(written) = m
  <2>1. Len(written) \in Nat /\ 1..Len(written) = 1..m
    BY <1>7, LenProperties
  <2> QED
    BY <1>3, <2>1
<1>9. written \in Contents
  BY <1>1, <1>3, <1>7, <1>8 DEF Contents
<1> QED
  BY <1>2, <1>3, <1>5, <1>7, <1>8, <1>9

\* A chunk goes to the place where the process is in its file; whatever another save left
\* there is contended, and alone the file grows by a chunk.
LEMMA WriteStep ==
  ASSUME IInv, NEW p \in Procs, Write(p)
  PROVE  IInv'
<1> USE DEF IInv
<1> DEFINE h == handle[p]
<1>1. PICK d \in Days, s \in Nat, n \in Nat, k \in Nat :
        /\ d = h.day /\ s = h.save /\ n = h.size /\ k = h.next
        /\ d \in Nat /\ d <= day /\ s \in 1..saves /\ k \in 1..Chunks /\ k <= n
  <2>1. h # NoHandle /\ h.next <= h.size
    BY WriterFacts DEF Write
  <2>2. /\ h.day \in Days /\ h.day <= day /\ h.day \in Nat /\ h.save \in Nat /\ h.size \in Nat
        /\ h.save \in 1..saves /\ h.next \in Nat /\ h.next > 0 /\ h.size <= Chunks
    BY <2>1, HandleFacts, Counters
  <2>3. h.next \in 1..Chunks
    BY <2>1, <2>2, Sizes
  <2> QED
    BY <2>1, <2>2, <2>3
<1>2. /\ UNCHANGED <<day, pc, fired, loaded, saves, finished, contended>>
      /\ pc[p] = "writing"
      /\ file' = [file EXCEPT ![d] = Put(file[d], k, Chunk(s, k = n))]
      /\ handle' = [handle EXCEPT ![p].next = k + 1]
  BY <1>1 DEF Write
<1>3. /\ \A q \in Procs : /\ handle'[q].day = handle[q].day /\ handle'[q].save = handle[q].save
                          /\ handle'[q].size = handle[q].size
                          /\ q # p => handle'[q] = handle[q]
                          /\ handle'[q] # NoHandle <=> handle[q] # NoHandle
      /\ handle'[p].next = k + 1
      /\ handle' \in [Procs -> Handles]
  <2>1. h \in [day : 1..day, save : 1..saves, size : 1..Chunks, next : 1..(Chunks + 1)]
    BY <1>2, WriterFacts DEF TypeOK, Handles
  <2>2. handle'[p] = [h EXCEPT !.next = k + 1] /\ \A q \in Procs : q # p => handle'[q] = handle[q]
    BY <1>2 DEF TypeOK
  <2>3. k + 1 \in 1..(Chunks + 1)
    BY <1>1, Sizes
  <2>4. /\ handle'[p].day = h.day /\ handle'[p].save = h.save /\ handle'[p].size = h.size
        /\ handle'[p].next = k + 1
        /\ handle'[p] \in [day : 1..day, save : 1..saves, size : 1..Chunks, next : 1..(Chunks + 1)]
    BY <2>1, <2>2, <2>3
  <2>5. handle'[p] # NoHandle /\ h # NoHandle
    BY <1>1, <2>4 DEF NoHandle
  <2>6. handle' \in [Procs -> Handles]
    BY <1>2, <2>2, <2>4 DEF TypeOK, Handles
  <2> QED
    BY <2>2, <2>4, <2>5, <2>6
<1>4. PICK content \in Contents : content = file[d]
  BY <1>1, <1>2, FileFacts DEF OpenFileExists
<1>5. PICK written \in Contents :
        /\ written = file'[d]
        /\ Len(written) = IF Len(content) < k THEN k ELSE Len(content)
        /\ k \in DOMAIN written /\ written[k] = Chunk(s, k = n)
        /\ \A i \in DOMAIN written :
             i = k \/ written[i] = Hole \/ (i \in DOMAIN content /\ written[i] = content[i])
        /\ \A i \in DOMAIN content : i # k => written[i] = content[i]
  <2>1. file'[d] = Put(content, k, Chunk(s, k = n))
    BY <1>2, <1>4 DEF TypeOK
  <2>2. PICK b \in BOOLEAN : b = (k = n)
    OBVIOUS
  <2>3. PICK c : c = Put(content, k, Chunk(s, b))
    OBVIOUS
  <2>4. s \in 0..saves
    BY <1>1, Counters
  <2>5. /\ c \in Contents
        /\ Len(c) = IF Len(content) < k THEN k ELSE Len(content)
        /\ k \in DOMAIN c /\ c[k] = Chunk(s, b)
        /\ \A i \in DOMAIN c :
             i = k \/ c[i] = Hole \/ (i \in DOMAIN content /\ c[i] = content[i])
        /\ \A i \in DOMAIN content : i # k => c[i] = content[i]
    BY SMTT(30), <1>1, <2>3, <2>4, PutIs
  <2> QED
    BY <2>1, <2>2, <2>3, <2>5
<1>6. written # NoFile /\ content # NoFile /\ \A e \in Days : e # d => file'[e] = file[e]
  BY <1>2, ContentFacts DEF TypeOK
<1>7. TypeOK'
  <2>1. Contents' = Contents /\ Handles' = Handles
    BY <1>2 DEF Contents, Handles
  <2>2. file' \in [Days -> Contents \cup {NoFile}]
    BY <1>2, <1>5 DEF TypeOK
  <2>3. ASSUME NEW q \in Procs
        PROVE  /\ handle'[q].next <= handle'[q].size + 1
               /\ pc[q] = "writing" => handle'[q] # NoHandle
               /\ pc[q] = "saved" => handle'[q].next = handle'[q].size + 1
    <3>1. CASE q = p
      BY <1>1, <1>2, <1>3, <3>1 DEF TypeOK
    <3>2. CASE q # p
      BY <1>3, <3>2 DEF TypeOK
    <3> QED
      BY <3>1, <3>2
  <2> QED
    BY <1>2, <1>3, <2>1, <2>2, <2>3 DEF TypeOK
<1>8. FutureIsEmpty'
  <2>1. day \in Nat
    BY Counters
  <2>2. ~(d > day)
    BY <1>1, <2>1
  <2> QED
    BY <1>2, <1>6, <2>2 DEF FutureIsEmpty
<1>9. OpenFileExists'
  BY <1>2, <1>3, <1>5, <1>6 DEF OpenFileExists
<1>10. DaysInOrder' /\ OthersAreContended' /\ FinishedIsLeft' /\ PostedIsWhole'
  BY <1>2, <1>3 DEF DaysInOrder, OthersAreContended, FinishedIsLeft, Writers, PostedIsWhole
<1>11. FilesInOrder'
  <2> SUFFICES ASSUME NEW q \in Procs, NEW e \in Days, handle[q] # NoHandle,
                      handle[q].day < e, file'[e] # NoFile, NEW i \in DOMAIN file'[e]
               PROVE  file'[e][i] = Hole \/ handle[q].save < file'[e][i].save
    BY <1>3 DEF FilesInOrder
  <2>1. CASE e # d
    BY <1>6, <2>1 DEF FilesInOrder
  <2>2. CASE e = d /\ i = k
    BY <1>1, <1>5, <2>2, ChunkFields DEF DaysInOrder
  <2>3. CASE e = d /\ i # k
    BY <1>4, <1>5, <1>6, <2>3 DEF FilesInOrder
  <2> QED
    BY <2>1, <2>2, <2>3
<1>12. s \notin contended => HasWritten(written, handle'[p])
  <2> SUFFICES ASSUME s \notin contended
               PROVE  HasWritten(written, handle'[p])
    OBVIOUS
  <2>1. Len(content) = k - 1 /\ \A i \in 1..(k - 1) : content[i] = Chunk(s, i = n)
    BY <1>1, <1>2, <1>4 DEF AloneInFile, HasWritten
  <2>2. Len(written) = k
    BY <1>1, <1>5, <2>1
  <2>3. DOMAIN content = 1..(k - 1)
    BY <2>1, ContentFacts
  <2>4. \A i \in 1..k : written[i] = Chunk(s, i = n)
    <3> SUFFICES ASSUME NEW i \in 1..k
                 PROVE  written[i] = Chunk(s, i = n)
      OBVIOUS
    <3>1. CASE i = k
      BY <1>5, <3>1
    <3>2. CASE i # k
      <4>1. i \in 1..(k - 1)
        BY <1>1, <3>2
      <4> QED
        BY <1>5, <2>1, <2>3, <3>2, <4>1
    <3> QED
      BY <3>1, <3>2
  <2>5. handle'[p].next - 1 = k /\ handle'[p].save = s /\ handle'[p].size = n
    BY <1>1, <1>3
  <2> QED
    BY <1>6, <2>2, <2>4, <2>5 DEF HasWritten
<1>13. AloneInFile'
  <2> SUFFICES ASSUME NEW q \in Procs, pc[q] = "writing", handle[q].save \notin contended
               PROVE  HasWritten(file'[handle[q].day], handle'[q])
    BY <1>2, <1>3 DEF AloneInFile
  <2>1. CASE q = p
    BY <1>1, <1>5, <1>12, <2>1
  <2>2. CASE q # p
    <3>1. handle[q].day # d /\ handle[q].day \in Days /\ handle'[q] = handle[q]
      BY <1>1, <1>2, <1>3, <2>2, WriterFacts, HandleFacts DEF OthersAreContended
    <3> QED
      BY <1>6, <3>1 DEF AloneInFile
  <2> QED
    BY <2>1, <2>2
<1>14. LatestWins'
  <2> SUFFICES ASSUME NEW e \in Days, finished[e] # 0, finished[e] \notin contended
               PROVE  Whole(file'[e]) /\ file'[e][1].save = finished[e]
    BY <1>2 DEF LatestWins
  <2>1. e # d
    BY <1>1, <1>2 DEF FinishedIsLeft, Writers
  <2> QED
    BY <1>6, <2>1 DEF LatestWins
<1>15. OneReportOrContended'
  <2>1. CASE s \in contended
    <3>1. OfContended(written)
      BY <1>5, <2>1, ChunkFields DEF OfContended
    <3> QED
      BY SMTT(30), <1>2, <1>5, <1>6, <3>1 DEF OneReportOrContended, OfContended
  <2>2. CASE s \notin contended
    <3>0. handle'[p].next - 1 = k /\ handle'[p].save = s /\ handle'[p].size = n
      BY <1>1, <1>3
    <3>1. Len(written) = k /\ \A i \in 1..k : written[i] = Chunk(s, i = n)
      BY <1>12, <2>2, <3>0 DEF HasWritten
    <3>2. DOMAIN written = 1..k
      BY <3>1, ContentFacts
    <3>3. OfOneReport(written)
      <4> SUFFICES ASSUME NEW i \in 1..k
                   PROVE  written[i].save = written[1].save /\ (written[i].last => i = k)
        BY <3>1, <3>2 DEF OfOneReport
      <4>1. written[i] = Chunk(s, i = n) /\ written[1] = Chunk(s, 1 = n)
        BY <1>1, <3>1
      <4>2. written[i].save = written[1].save
        BY <4>1, ChunkFields
      <4>3. written[i].last => i = n
        BY <4>1, ChunkFields, Zenon
      <4>4. i = n => i = k
        BY <1>1
      <4> QED
        BY <4>2, <4>3, <4>4
    <3> QED
      BY <1>2, <1>5, <1>6, <3>3 DEF OneReportOrContended, OfContended
  <2> QED
    BY <2>1, <2>2
<1>16. SavedIsFloor'
  <2> DEFINE own == handle["scheduler"]
  <2> SUFFICES ASSUME pc["scheduler"] = "saved", own.save \notin contended
               PROVE  /\ file'[own.day] # NoFile => NotBefore(file'[own.day], own.save)
                      /\ \A q \in Writers(own.day) : handle[q].save >= own.save
    BY <1>2, <1>3 DEF SavedIsFloor, Writers, Procs
  <2>1. \A q \in Writers(own.day) : handle[q].save >= own.save
    BY DEF SavedIsFloor
  <2>2. own.day \in Days
    <3>1. own # NoHandle
      BY DEF TypeOK, NoHandle, Procs
    <3> QED
      BY <3>1, HandleFacts DEF Procs
  <2>3. CASE own.day # d
    BY <1>6, <2>1, <2>2, <2>3 DEF SavedIsFloor
  <2>4. CASE own.day = d
    <3>1. s >= own.save
      BY <1>1, <1>2, <2>1, <2>4 DEF Writers
    <3>2. NotBefore(written, own.save)
      BY <1>4, <1>5, <1>6, <2>4, <3>1, ChunkFields DEF SavedIsFloor, NotBefore
    <3> QED
      BY <1>5, <2>1, <2>4, <3>2
  <2> QED
    BY <2>3, <2>4
<1>17. ScheduledPostIsFresh'
  BY <1>2, <1>3 DEF ScheduledPostIsFresh, Procs
<1> QED
  BY <1>7, <1>8, <1>9, <1>10, <1>11, <1>13, <1>14, <1>15, <1>16, <1>17

\* Opening cuts the file of the day: a save that is going on in it shares it from now on,
\* and the new one is the latest of all files.
LEMMA OpenStep ==
  ASSUME IInv, NEW p \in Procs, Open(p)
  PROVE  IInv'
<1> USE DEF IInv
<1>1. PICK s \in Nat, n \in 1..Chunks, opened \in [day : Nat, save : Nat, size : Nat, next : Nat] :
        /\ s = saves + 1 /\ saves' = s /\ s <= MaxSaves /\ saves \in Nat
        /\ opened = [day |-> day, save |-> s, size |-> n, next |-> 1]
        /\ handle' = [handle EXCEPT ![p] = opened]
  <2>1. saves \in Nat /\ saves < MaxSaves /\ saves' = saves + 1
    BY Counters DEF Open
  <2>2. PICK s \in Nat : s = saves + 1 /\ saves' = s /\ s <= MaxSaves
    BY <2>1, Sizes
  <2>3. PICK n \in 1..Chunks :
          handle' = [handle EXCEPT ![p] = [day |-> day, save |-> s, size |-> n, next |-> 1]]
    BY <2>2 DEF Open
  <2>4. day \in Nat /\ n \in Nat
    BY Counters, Sizes
  <2>5. [day |-> day, save |-> s, size |-> n, next |-> 1]
          \in [day : Nat, save : Nat, size : Nat, next : Nat]
    BY <2>4
  <2> QED
    BY <2>1, <2>2, <2>3, <2>5
<1>2. /\ UNCHANGED <<day, fired, loaded>>
      /\ pc[p] = "building" /\ pc' = [pc EXCEPT ![p] = "writing"]
      /\ file' = [file EXCEPT ![day] = <<>>]
      /\ finished' = [finished EXCEPT ![day] = 0]
      /\ contended \subseteq contended'
      /\ Writers(day) # {} => s \in contended' /\ \A q \in Writers(day) : handle[q].save \in contended'
      /\ contended' \subseteq contended \cup {s} \cup {handle[q].save : q \in Writers(day)}
  <2>1. contended' = contended \cup
          IF Writers(day) = {} THEN {} ELSE {s} \cup {handle[q].save : q \in Writers(day)}
    BY <1>1 DEF Open
  <2> QED
    BY <2>1 DEF Open, Goes, Opened
<1>3. day \in Days /\ day \in Nat /\ \A d \in Days : d \in Nat
  BY Counters
<1>4. /\ handle'[p] = opened /\ opened # NoHandle
      /\ opened.day = day /\ opened.save = s /\ opened.size = n /\ opened.next = 1
      /\ pc'[p] = "writing"
      /\ \A q \in Procs : q # p => handle'[q] = handle[q] /\ pc'[q] = pc[q]
      /\ file'[day] = <<>> /\ \A d \in Days : d # day => file'[d] = file[d]
      /\ finished'[day] = 0 /\ \A d \in Days : d # day => finished'[d] = finished[d]
  <2>1. opened # NoHandle
    BY <1>1, <1>3 DEF NoHandle, Days
  <2> QED
    BY <1>1, <1>2, <1>3, <2>1 DEF TypeOK
<1>5. /\ Len(<<>>) = 0 /\ DOMAIN <<>> = {} /\ <<>> # NoFile /\ <<>> \in Contents'
  <2>1. Len(<<>>) = 0 /\ <<>> # NoFile
    <3>1. <<>> \in Seq([save : Nat, last : BOOLEAN])
      BY EmptySeq
    <3> QED
      BY <3>1, EmptySeq, Sizes
  <2>2. <<>> \in Contents'
    BY EmptySeq, Sizes DEF Contents
  <2>3. DOMAIN <<>> = {}
    OBVIOUS
  <2> QED
    BY <2>1, <2>2, <2>3
<1>6. TypeOK'
  <2>1. Contents \subseteq Contents' /\ Handles \subseteq Handles'
    BY <1>1, <1>2, <1>3, ContentsGrow, HandlesGrow
  <2>2. opened \in Handles'
    <3>1. day' \in 1..day' /\ s \in 1..saves' /\ 1 \in 1..(Chunks + 1)
      BY <1>1, <1>2, <1>3, Sizes DEF Days
    <3> QED
      BY <1>1, <1>2, <3>1 DEF Handles
  <2>3. handle' \in [Procs -> Handles']
    BY <1>1, <2>1, <2>2 DEF TypeOK
  <2>4. file' \in [Days -> Contents' \cup {NoFile}]
    BY <1>2, <1>5, <2>1 DEF TypeOK
  <2>5. loaded' \in [Procs -> Contents'] /\ pc' \in [Procs -> Places]
    BY <1>2, <2>1 DEF TypeOK, Places
  <2>6. saves' \in 0..MaxSaves /\ 0..saves \subseteq 0..saves'
    BY <1>1, Sizes
  <2>7. finished' \in [Days -> 0..saves']
    BY <1>1, <1>2, <2>6 DEF TypeOK
  <2>8. contended' \subseteq 1..saves'
    <3>1. \A q \in Writers(day) : handle[q].save \in 1..saves
      BY <1>1, WriterFacts, HandleFacts DEF Writers
    <3> QED
      BY SMTT(30), <1>1, <1>2, <3>1 DEF TypeOK
  <2>9. ASSUME NEW q \in Procs
        PROVE  /\ handle'[q].next <= handle'[q].size + 1
               /\ pc'[q] = "writing" => handle'[q] # NoHandle
               /\ pc'[q] = "saved" => handle'[q].next = handle'[q].size + 1
               /\ pc'[q] = "posting" <=> loaded'[q] # <<>>
    <3>1. CASE q = p
      BY <1>2, <1>4, <3>1, Sizes DEF TypeOK
    <3>2. CASE q # p
      BY <1>2, <1>4, <3>2 DEF TypeOK
    <3> QED
      BY <3>1, <3>2
  <2> QED
    BY <1>2, <2>3, <2>4, <2>5, <2>6, <2>7, <2>8, <2>9 DEF TypeOK
<1>7. FutureIsEmpty'
  BY <1>2, <1>3, <1>4 DEF FutureIsEmpty
<1>8. OpenFileExists'
  <2> SUFFICES ASSUME NEW q \in Procs, q # p, pc[q] = "writing"
               PROVE  file'[handle[q].day] # NoFile
    BY <1>4, <1>5 DEF OpenFileExists
  <2>1. handle[q].day \in Days
    BY WriterFacts, HandleFacts
  <2> QED
    BY <1>4, <1>5, <2>1 DEF OpenFileExists
<1>9. DaysInOrder'
  <2> SUFFICES ASSUME NEW a \in Procs, NEW b \in Procs, handle'[a] # NoHandle,
                      handle'[a].day < handle'[b].day
               PROVE  handle'[a].save < handle'[b].save
    BY DEF DaysInOrder
  <2>1. CASE a = p
    <3>1. handle'[b].day <= day
      BY <1>3, <1>4, HandleFacts
    <3>2. handle'[b].day \in Nat /\ handle'[a].day = day
      BY <1>3, <1>4, <2>1, HandleFacts
    <3> QED
      BY <1>3, <3>1, <3>2
  <2>2. CASE a # p /\ b = p
    BY <1>1, <1>4, <2>2, HandleFacts
  <2>3. CASE a # p /\ b # p
    BY <1>4, <2>3 DEF DaysInOrder
  <2> QED
    BY <2>1, <2>2, <2>3
<1>10. FilesInOrder'
  <2> SUFFICES ASSUME NEW q \in Procs, NEW d \in Days, handle'[q] # NoHandle,
                      handle'[q].day < d, file'[d] # NoFile, d # day
               PROVE  \A i \in DOMAIN file[d] : file[d][i] = Hole \/ handle'[q].save < file[d][i].save
    BY <1>4, <1>5 DEF FilesInOrder
  <2>1. CASE q = p
    <3>1. day < d /\ file[d] # NoFile
      BY <1>4, <2>1
    <3> QED
      BY <1>3, <3>1 DEF FutureIsEmpty
  <2>2. CASE q # p
    BY <1>4, <2>2 DEF FilesInOrder
  <2> QED
    BY <2>1, <2>2
<1>11. OthersAreContended'
  <2> SUFFICES ASSUME NEW a \in Procs, NEW b \in Procs, a # b, pc'[a] = "writing", pc'[b] = "writing",
                      handle'[a].day = handle'[b].day
               PROVE  handle'[a].save \in contended'
    BY DEF OthersAreContended
  <2>1. CASE a = p
    BY <1>2, <1>4, <2>1 DEF Writers
  <2>2. CASE b = p
    BY <1>2, <1>4, <2>2 DEF Writers
  <2>3. CASE a # p /\ b # p
    BY <1>2, <1>4, <2>3 DEF OthersAreContended
  <2> QED
    BY <2>1, <2>2, <2>3
<1>12. AloneInFile'
  <2> SUFFICES ASSUME NEW q \in Procs, pc'[q] = "writing", handle'[q].save \notin contended'
               PROVE  HasWritten(file'[handle'[q].day], handle'[q])
    BY DEF AloneInFile
  <2>1. CASE q = p
    BY <1>4, <1>5, <2>1 DEF HasWritten
  <2>2. CASE q # p
    <3>1. handle'[q] = handle[q] /\ pc[q] = "writing" /\ handle[q].day \in Days
      BY <1>4, <2>2, WriterFacts, HandleFacts
    <3>2. handle[q].day # day
      BY <1>2, <3>1 DEF Writers
    <3> QED
      BY <1>2, <1>4, <3>1, <3>2 DEF AloneInFile
  <2> QED
    BY <2>1, <2>2
<1>13. \A d \in Days : d # day => Writers(d)' = Writers(d)
  BY <1>2, <1>4 DEF Writers
<1>14. FinishedIsLeft' /\ LatestWins'
  BY <1>2, <1>4, <1>13 DEF FinishedIsLeft, LatestWins
<1>15. OneReportOrContended'
  <2>1. OfOneReport(<<>>)
    BY <1>5 DEF OfOneReport
  <2> QED
    BY <1>2, <1>4, <2>1 DEF OneReportOrContended, OfContended
<1>16. PostedIsWhole'
  BY <1>2, <1>4 DEF PostedIsWhole
<1>17. SavedIsFloor'
  <2> DEFINE own == handle["scheduler"]
  <2> SUFFICES ASSUME pc["scheduler"] = "saved", own.save \notin contended
               PROVE  /\ file'[own.day] # NoFile => NotBefore(file'[own.day], own.save)
                      /\ \A d \in Days : d = own.day =>
                           \A q \in Writers(d)' : handle'[q].save >= own.save
    <3>1. pc'["scheduler"] = "saved" => p # "scheduler"
      BY <1>4
    <3>2. pc'["scheduler"] = "saved" => pc["scheduler"] = "saved" /\ handle'["scheduler"] = own
      BY <1>4, <3>1 DEF Procs
    <3>3. pc["scheduler"] = "saved" => own.day \in Days
      <4>1. pc["scheduler"] = "saved" => own # NoHandle
        BY DEF TypeOK, NoHandle, Procs
      <4> QED
        BY <4>1, HandleFacts DEF Procs
    <3> QED
      BY <1>2, <3>2, <3>3 DEF SavedIsFloor
  <2>1. own # NoHandle /\ p # "scheduler"
    BY <1>2 DEF TypeOK, NoHandle, Procs
  <2>2. own.day \in Days /\ own.save \in Nat /\ own.save <= saves
    BY <2>1, HandleFacts DEF Procs
  <2>3. file'[own.day] # NoFile => NotBefore(file'[own.day], own.save)
    <3>1. CASE own.day = day
      BY <1>4, <1>5, <3>1 DEF NotBefore
    <3>2. CASE own.day # day
      BY <1>4, <2>2, <3>2 DEF SavedIsFloor
    <3> QED
      BY <3>1, <3>2
  <2>4. ASSUME NEW d \in Days, d = own.day, NEW q \in Writers(d)'
        PROVE  handle'[q].save >= own.save
    <3>1. CASE q = p
      BY <1>1, <1>4, <2>2, <3>1
    <3>2. CASE q # p
      BY <1>4, <2>4, <3>2 DEF SavedIsFloor, Writers
    <3> QED
      BY <3>1, <3>2
  <2> QED
    BY <2>3, <2>4
<1>18. ScheduledPostIsFresh'
  BY <1>2, <1>4 DEF ScheduledPostIsFresh, Procs
<1> QED
  BY <1>6, <1>7, <1>8, <1>9, <1>10, <1>11, <1>12, <1>14, <1>15, <1>16, <1>17, <1>18

-----------------------------------------------------------------------------
(* Theorems. *)

\* No file and no save at the start.
LEMMA InitIInv == Init => IInv
<1> SUFFICES ASSUME Init
             PROVE  IInv
  OBVIOUS
<1>1. /\ \A p \in Procs : pc[p] = "idle" /\ handle[p] = NoHandle /\ loaded[p] = <<>>
      /\ \A d \in Days : file[d] = NoFile /\ finished[d] = 0
      /\ contended = {} /\ saves = 0 /\ day = 1 /\ fired = 0
  BY DEF Init
<1>2. TypeOK
  <2>1. <<>> \in Contents /\ NoHandle \in Handles
    BY EmptySeq, Sizes DEF Contents, Handles
  <2>2. day \in Days /\ fired \in 0..day /\ saves \in 0..MaxSaves
    BY <1>1, Sizes DEF Days
  <2>3. /\ file \in [Days -> Contents \cup {NoFile}] /\ pc \in [Procs -> Places]
        /\ handle \in [Procs -> Handles] /\ loaded \in [Procs -> Contents]
    BY <2>1 DEF Init, Places
  <2>4. finished \in [Days -> 0..saves] /\ contended \subseteq 1..saves
    BY <1>1 DEF Init
  <2> QED
    BY <1>1, <2>2, <2>3, <2>4 DEF TypeOK, NoHandle
<1>3. FutureIsEmpty /\ OpenFileExists /\ DaysInOrder /\ FilesInOrder /\ OthersAreContended
  BY <1>1 DEF FutureIsEmpty, OpenFileExists, DaysInOrder, FilesInOrder, OthersAreContended
<1>4. AloneInFile /\ FinishedIsLeft /\ LatestWins /\ OneReportOrContended
  BY <1>1 DEF AloneInFile, FinishedIsLeft, LatestWins, OneReportOrContended
<1>5. PostedIsWhole /\ SavedIsFloor /\ ScheduledPostIsFresh
  BY <1>1 DEF PostedIsWhole, SavedIsFloor, ScheduledPostIsFresh, Procs
<1> QED
  BY <1>2, <1>3, <1>4, <1>5 DEF IInv

\* Every step keeps the invariant.
LEMMA NextIInv == IInv /\ [Next]_vars => IInv'
<1> SUFFICES ASSUME IInv, [Next]_vars
             PROVE  IInv'
  OBVIOUS
<1>1. CASE \/ Fire
           \/ BuildByHand
           \/ \E p \in Procs : BuildRaises(p) \/ WriteRaises(p) \/ Post(p)
           \/ LoadRaises
           \/ Midnight
           \/ Crash
           \/ UNCHANGED vars
  BY <1>1, RestSteps
<1>2. CASE \E p \in Procs : Open(p) \/ Write(p) \/ Close(p)
  BY <1>2, OpenStep, WriteStep, CloseStep
<1>3. CASE LoadToday
  BY <1>3, LoadStep, Counters DEF LoadToday, Procs, IInv
<1>4. CASE PublishByHand
  BY <1>4, LoadStep DEF PublishByHand, Procs
<1> QED
  BY <1>1, <1>2, <1>3, <1>4 DEF Next

\* The invariant holds in every state: the files are in the order of their saves, and one
\* that was written alone has what was written.
THEOREM Inductive == Spec => []IInv
BY InitIInv, NextIInv, PTL DEF Spec

\* The files, the handles and what was read have their types, and fit each process's place.
THEOREM TypeCorrect == Spec => []TypeOK
BY Inductive, PTL DEF IInv

\* A file that a save has finished with alone has its report: the one before, however long,
\* was cut, and none of another save came after.
THEOREM LatestSaveWins == Spec => []LatestWins
BY Inductive, PTL DEF IInv

\* A post is all of one report, unless two saves wrote the file at the same time: what is
\* written of a report is no JSON before its end.
THEOREM NoPartIsPosted == Spec => []PostedIsWhole
BY Inductive, PTL DEF IInv

\* The scheduler posts its own report or a later one, also when midnight passes before it
\* reads or an operator saves in between.
THEOREM NoOldReportIsPosted == Spec => []ScheduledPostIsFresh
BY Inductive, PTL DEF IInv

(***************************************************************************)
(* ReportContent: what a report says.                                      *)
(***************************************************************************)

-----------------------------------------------------------------------------
(* Sums and keys. *)

\* A sum of zeros is zero.
LEMMA ZeroSum ==
  ASSUME NEW n \in Nat, NEW g, \A i \in 1..n : g[i] = 0
  PROVE  SumTo(g, n) = 0
<1>1. \A i \in 1..n : g[i] \in Int /\ g[i] = 0 * g[i]
  OBVIOUS
<1>2. SumTo(g, n) = 0 * SumTo(g, n)
  BY <1>1, ScaledSum
<1>3. SumTo(g, n) \in Int
  BY <1>1, SumFacts
<1> QED BY <1>2, <1>3

\* A sum depends on its numbers only.
LEMMA SameSum ==
  ASSUME NEW n \in Nat, NEW g, NEW h, \A i \in 1..n : g[i] \in Int /\ h[i] = g[i]
  PROVE  SumTo(h, n) = SumTo(g, n)
<1>1. \A i \in 1..n : g[i] \in Int /\ h[i] = 1 * g[i]
  OBVIOUS
<1>2. SumTo(h, n) = 1 * SumTo(g, n)
  BY <1>1, ScaledSum
<1>3. SumTo(g, n) \in Int
  BY SumFacts
<1> QED BY <1>2, <1>3

\* A page has a place and a topic.
LEMMA KeyTypes ==
  ASSUME NEW page \in Page
  PROVE  Id(page) \in Ids /\ Key(page) \in TopicKeys
BY DEF Page, Ids, TopicKeys, Id, Key

\* The topics of one row more.
LEMMA KeysGrow ==
  ASSUME NEW all, NEW k \in Nat
  PROVE  /\ KeysTo(all, 0) = {}
         /\ KeysTo(all, k + 1) = KeysTo(all, k) \cup {Key(all[k + 1])}
<1>1. 1..(k + 1) = (1..k) \cup {k + 1} /\ 1..0 = {}
  OBVIOUS
<1> QED BY <1>1 DEF KeysTo

\* There are finitely many topics, as many as the rows that have a new one.
LEMMA KeysFinite ==
  ASSUME NEW all
  PROVE  \A k \in Nat : IsFiniteSet(KeysTo(all, k))
<1> DEFINE S == {k \in Nat : IsFiniteSet(KeysTo(all, k))}
<1>1. 0 \in S
  BY KeysGrow, FS_EmptySet
<1>2. \A k \in Nat : k \in S => k + 1 \in S
  BY KeysGrow, FS_AddElement
<1> HIDE DEF S
<1>3. \A k \in Nat : k \in S
  BY <1>1, <1>2, Induction
<1> QED BY <1>3 DEF S

-----------------------------------------------------------------------------
(* Merging. *)

\* The pages as fetch_report_data has them before the merge.
Fresh(all) ==
  /\ all \in Seq(Page)
  /\ \A j \in 1..Len(all) :
       all[j].editions = <<>> /\ all[j].description \in {Nothing, Id(all[j])}

\* row j is the first one of its topic.
FirstRow(all, j) == \A i \in 1..(j - 1) : Key(all[i]) # Key(all[j])

\* The page at place p is the first row of its topic, but for the editions, and p is the
\* place of the topic among those of the rows.
Represents(page, p, all, k) ==
  \E j \in 1..k :
    /\ page = [all[j] EXCEPT !.editions = page.editions]
    /\ FirstRow(all, j)
    /\ p = Cardinality(KeysTo(all, j))

\* result is what the first k rows are merged to.
Merged(result, all, k) ==
  /\ result \in Seq(Page)
  /\ Len(result) = Cardinality(KeysTo(all, k))
  /\ \A j \in 1..k : \E p \in 1..Len(result) : Key(result[p]) = Key(all[j])
  /\ \A p \in 1..Len(result) :
       /\ Represents(result[p], p, all, k)
       /\ Total(result[p]) = SumTo(EditsOf(all, Key(result[p])), k)

\* A representative has the fields of its row.
LEMMA RepresentsFacts ==
  ASSUME NEW all, NEW k \in Nat, NEW page \in Page, NEW p, Represents(page, p, all, k),
         \A j \in 1..k : all[j] \in Page
  PROVE  \E j \in 1..k :
           /\ page.server = all[j].server /\ page.title = all[j].title
           /\ page.edits = all[j].edits /\ page.qid = all[j].qid
           /\ page.description = all[j].description /\ page.change = all[j].change
           /\ Id(page) = Id(all[j]) /\ Key(page) = Key(all[j])
           /\ FirstRow(all, j) /\ p = Cardinality(KeysTo(all, j))
<1>1. PICK j \in 1..k : /\ page = [all[j] EXCEPT !.editions = page.editions]
                        /\ FirstRow(all, j)
                        /\ p = Cardinality(KeysTo(all, j))
  BY DEF Represents
<1>2. all[j] \in Page
  OBVIOUS
<1>3. /\ page.server = all[j].server /\ page.title = all[j].title
      /\ page.edits = all[j].edits /\ page.qid = all[j].qid
      /\ page.description = all[j].description /\ page.change = all[j].change
  BY <1>1, <1>2 DEF Page
<1>4. Id(page) = Id(all[j]) /\ Key(page) = Key(all[j])
  BY <1>3 DEF Id, Key
<1> QED BY <1>1, <1>3, <1>4

\* Two pages of a merged list are about two topics.
LEMMA Distinct ==
  ASSUME NEW all, NEW k \in Nat, NEW result, Merged(result, all, k),
         \A j \in 1..k : all[j] \in Page,
         NEW p \in 1..Len(result), NEW q \in 1..Len(result), Key(result[p]) = Key(result[q])
  PROVE  p = q
<1>1. /\ result[p] \in Page /\ result[q] \in Page
      /\ Represents(result[p], p, all, k) /\ Represents(result[q], q, all, k)
  BY DEF Merged
<1>2. PICK i \in 1..k : /\ Key(result[p]) = Key(all[i]) /\ FirstRow(all, i)
                        /\ p = Cardinality(KeysTo(all, i))
  BY <1>1, RepresentsFacts
<1>3. PICK j \in 1..k : /\ Key(result[q]) = Key(all[j]) /\ FirstRow(all, j)
                        /\ q = Cardinality(KeysTo(all, j))
  BY <1>1, RepresentsFacts
<1>4. Key(all[i]) = Key(all[j]) /\ i \in Int /\ j \in Int
  <2>1. Key(all[i]) = Key(all[j])
    BY <1>2, <1>3, Zenon
  <2> QED BY <2>1
<1>5. ASSUME i < j PROVE FALSE
  <2>1. i \in 1..(j - 1)
    BY <1>4, <1>5
  <2> QED BY <1>3, <1>4, <2>1 DEF FirstRow
<1>6. ASSUME j < i PROVE FALSE
  <2>1. j \in 1..(i - 1)
    BY <1>4, <1>6
  <2> QED BY <1>2, <1>4, <2>1 DEF FirstRow
<1>7. i = j
  BY <1>4, <1>5, <1>6
<1> QED BY <1>2, <1>3, <1>7

\* The numbers that are summed, and the sum with one row more.
LEMMA OneRowMore ==
  ASSUME NEW all \in Seq(Page), NEW k \in Nat, k + 1 <= Len(all), NEW key
  PROVE  /\ SumTo(EditsOf(all, key), k) \in Int
         /\ SumTo(EditsOf(all, key), k + 1) =
              SumTo(EditsOf(all, key), k) + (IF Key(all[k + 1]) = key THEN all[k + 1].edits ELSE 0)
         /\ (\A j \in 1..k : Key(all[j]) # key) => SumTo(EditsOf(all, key), k) = 0
<1> DEFINE g == EditsOf(all, key)
<1>1. Len(all) \in Nat /\ DOMAIN all = 1..Len(all) /\ \A j \in 1..Len(all) : all[j] \in Page
  OBVIOUS
<1>2. \A j \in 1..Len(all) :
        all[j].edits \in Int /\ g[j] = IF Key(all[j]) = key THEN all[j].edits ELSE 0
  BY <1>1 DEF EditsOf, Page
<1> HIDE DEF g
<1>3. \A j \in 1..(k + 1) : j \in 1..Len(all)
  BY <1>1
<1>4. \A j \in 1..(k + 1) : g[j] \in Int
  BY <1>2, <1>3
<1> DEFINE m == k + 1
<1>5. m \in Nat /\ m # 0 /\ m - 1 = k /\ m \in 1..m /\ \A j \in 1..k : j \in 1..m
  OBVIOUS
<1>6. \A j \in 1..m : g[j] \in Int
  BY <1>4
<1>7. m \in 1..Len(all)
  BY <1>3, <1>5
<1> HIDE DEF m
<1>8. SumTo(g, m) = SumTo(g, k) + g[m]
  BY <1>5, <1>6, SumFacts
<1>9. SumTo(g, k) \in Int
  BY <1>5, <1>6, SumFacts
<1>10. ASSUME \A j \in 1..k : Key(all[j]) # key PROVE SumTo(g, k) = 0
  <2>1. \A j \in 1..k : g[j] = 0
    BY <1>2, <1>3, <1>5, <1>10 DEF m
  <2> QED BY <2>1, ZeroSum
<1> QED BY <1>2, <1>7, <1>8, <1>9, <1>10 DEF g, m

\* The list of editions that AddPage leaves, with the representative's own first.
NewEditions(old, page) ==
  Append(IF old.editions = <<>> THEN <<Edition(old)>> ELSE old.editions, Edition(page))

\* One edition more adds its edits to the total, whether or not it is the first one.
LEMMA OneEditionMore ==
  ASSUME NEW old \in Page, NEW page \in Page
  PROVE  /\ NewEditions(old, page) \in Seq([server : Servers, edits : Nat])
         /\ Total([old EXCEPT !.editions = NewEditions(old, page)]) = Total(old) + page.edits
<1> DEFINE T == [server : Servers, edits : Nat]
           a == Edition(old)
           b == Edition(page)
           was == IF old.editions = <<>> THEN <<a>> ELSE old.editions
           is == NewEditions(old, page)
           merged == [old EXCEPT !.editions = is]
           F(editions) == [i \in DOMAIN editions |-> editions[i].edits]
<1>1. /\ a \in T /\ b \in T /\ a.edits = old.edits /\ b.edits = page.edits
      /\ old.edits \in Nat /\ page.edits \in Nat /\ old.editions \in Seq(T)
  BY DEF Edition, Page
<1>2. was \in Seq(T) /\ is = Append(was, b)
  <2>1. <<a>> \in Seq(T)
    BY <1>1
  <2> QED BY <1>1, <2>1 DEF NewEditions
<1>3. merged.editions = is
  BY DEF Page
<1> DEFINE n == Len(was)
<1>4. /\ is \in Seq(T) /\ is # <<>> /\ n \in Nat /\ Len(is) = n + 1
      /\ \A i \in 1..n : is[i] = was[i]
      /\ is[n + 1] = b
      /\ DOMAIN is = 1..(n + 1) /\ DOMAIN was = 1..n
  <2>1. \A s \in Seq(T) : DOMAIN s = 1..Len(s) /\ Len(s) \in Nat
    OBVIOUS
  <2> HIDE DEF was, is, T
  <2> QED BY <1>1, <1>2, <2>1, AppendProperties
<1>5. /\ \A i \in 1..(n + 1) : F(is)[i] = is[i].edits /\ F(is)[i] \in Int
      /\ \A i \in 1..n : F(was)[i] = was[i].edits /\ F(was)[i] \in Int
  <2>1. \A i \in DOMAIN is : is[i] \in T
    <3> HIDE DEF is, T
    <3> QED BY <1>4
  <2>2. \A i \in DOMAIN was : was[i] \in T
    <3> HIDE DEF was, T
    <3> QED BY <1>2
  <2>3. \A i \in 1..n : i \in 1..(n + 1)
    BY <1>4
  <2>4. \A e \in T : e.edits \in Int
    OBVIOUS
  <2> HIDE DEF was, is, T
  <2> QED BY <1>4, <2>1, <2>2, <2>3, <2>4
<1>6. Total(merged) = SumTo(F(is), n + 1)
  BY <1>3, <1>4 DEF Total
<1>7. SumTo(F(was), n) = Total(old)
  <2>1. CASE old.editions = <<>>
    <3>1. was = <<a>> /\ n = 1 /\ was[1] = a /\ 1 \in 1..n
      BY <2>1
    <3>2. F(was)[1] = old.edits
      BY <1>1, <1>5, <3>1
    <3>3. \A i \in 1..1 : F(was)[i] \in Int
      BY <1>5, <3>1
    <3> DEFINE g == F(was)
    <3> HIDE DEF g
    <3>4. SumTo(g, 1) = SumTo(g, 0) + g[1] /\ SumTo(g, 0) = 0
      <4>1. 1 \in Nat /\ 1 - 1 = 0 /\ 1 # 0
        OBVIOUS
      <4> QED BY <3>3, <4>1, SumFacts DEF g
    <3>5. Total(old) = old.edits
      BY <2>1 DEF Total
    <3> QED BY <1>1, <3>1, <3>2, <3>4, <3>5 DEF g
  <2>2. CASE old.editions # <<>>
    BY <2>2 DEF Total
  <2> QED BY <2>1, <2>2
<1>8. SumTo(F(is), n + 1) = SumTo(F(is), n) + page.edits
  <2> DEFINE m == n + 1
             g == F(is)
  <2>1. m \in Nat /\ m # 0 /\ m - 1 = n /\ m \in 1..m /\ \A i \in 1..m : g[i] \in Int
    <3>1. \A i \in 1..m : g[i] \in Int
      BY <1>5
    <3>2. n \in Nat
      BY <1>4
    <3> HIDE DEF g, n
    <3> QED BY <3>1, <3>2
  <2>2. g[m] = page.edits
    BY <1>1, <1>4, <1>5, <2>1
  <2> HIDE DEF m, g
  <2>3. SumTo(g, m) = SumTo(g, n) + g[m]
    BY <2>1, SumFacts
  <2> QED BY <2>2, <2>3 DEF m, g
<1>9. SumTo(F(is), n) = SumTo(F(was), n)
  <2> DEFINE g == F(was)
             h == F(is)
  <2>1. n \in Nat /\ \A i \in 1..n : i \in 1..(n + 1)
    BY <1>4
  <2>2. \A i \in 1..n : g[i] \in Int /\ h[i] = g[i]
    BY <1>4, <1>5, <2>1
  <2> HIDE DEF g, h, n
  <2>3. SumTo(h, n) = SumTo(g, n)
    BY <2>1, <2>2, SameSum
  <2> QED BY <2>3 DEF g, h
<1> QED BY <1>4, <1>6, <1>7, <1>8, <1>9

\* Of a new topic, the page is added.
LEMMA MergeNew ==
  ASSUME NEW all, Fresh(all), NEW k \in Nat, k + 1 <= Len(all),
         NEW result, Merged(result, all, k),
         \A p \in DOMAIN result : Key(result[p]) # Key(all[k + 1])
  PROVE  Merged(Append(result, all[k + 1]), all, k + 1)
<1> DEFINE page == all[k + 1]
           longer == Append(result, page)
           n == Len(result)
<1>1. /\ all \in Seq(Page) /\ Len(all) \in Nat
      /\ k + 1 \in 1..Len(all) /\ k + 1 \in 1..(k + 1)
      /\ \A j \in 1..k : j \in 1..(k + 1)
      /\ \A j \in 1..(k + 1) : all[j] \in Page
  BY DEF Fresh
<1>2. page \in Page /\ page.editions = <<>> /\ page.edits \in Nat
  BY <1>1 DEF Fresh, Page
<1>3. result \in Seq(Page) /\ n \in Nat /\ DOMAIN result = 1..n
  BY DEF Merged
<1>4. /\ longer \in Seq(Page) /\ Len(longer) = n + 1
      /\ \A p \in 1..n : longer[p] = result[p]
      /\ longer[n + 1] = page
      /\ \A p \in 1..(n + 1) : p \in 1..n \/ p = n + 1
      /\ \A p \in 1..n : p \in 1..(n + 1)
      /\ n + 1 \in 1..(n + 1)
  BY <1>2, <1>3, AppendProperties
<1>5. \A j \in 1..k : Key(all[j]) # Key(page)
  BY <1>3 DEF Merged
<1>6. Cardinality(KeysTo(all, k + 1)) = n + 1
  <2>1. Key(page) \notin KeysTo(all, k)
    BY <1>5 DEF KeysTo
  <2>2. IsFiniteSet(KeysTo(all, k)) /\ Cardinality(KeysTo(all, k)) = n
    BY KeysFinite DEF Merged
  <2>3. KeysTo(all, k + 1) = KeysTo(all, k) \cup {Key(page)}
    BY KeysGrow
  <2> QED BY ZenonT(30), <2>1, <2>2, <2>3, FS_AddElement
<1>7. \A j \in 1..(k + 1) : \E p \in 1..(n + 1) : Key(longer[p]) = Key(all[j])
  <2> TAKE j \in 1..(k + 1)
  <2>1. CASE j = k + 1
    BY <1>4, <2>1
  <2>2. CASE j # k + 1
    <3>1. j \in 1..k
      BY <2>2
    <3>2. PICK p \in 1..n : Key(result[p]) = Key(all[j])
      BY <3>1 DEF Merged
    <3> QED BY <1>4, <3>2
  <2> QED BY <2>1, <2>2
<1>8. ASSUME NEW p \in 1..(n + 1)
      PROVE  /\ Represents(longer[p], p, all, k + 1)
             /\ Total(longer[p]) = SumTo(EditsOf(all, Key(longer[p])), k + 1)
  <2>1. CASE p \in 1..n
    <3>1. longer[p] = result[p] /\ Key(result[p]) # Key(page)
      BY <1>3, <1>4, <2>1
    <3>2. Represents(result[p], p, all, k + 1)
      BY <1>1, <2>1 DEF Merged, Represents
    <3>3. Total(result[p]) = SumTo(EditsOf(all, Key(result[p])), k)
      BY <2>1 DEF Merged
    <3>4. SumTo(EditsOf(all, Key(result[p])), k + 1) = SumTo(EditsOf(all, Key(result[p])), k)
      BY <1>1, <3>1, OneRowMore
    <3> QED BY <3>1, <3>2, <3>3, <3>4
  <2>2. CASE p = n + 1
    <3>1. longer[p] = page
      BY <1>4, <2>2
    <3>2. FirstRow(all, k + 1)
      BY <1>5 DEF FirstRow
    <3>3. page = [all[k + 1] EXCEPT !.editions = page.editions]
      BY <1>2 DEF Page
    <3>4. Represents(page, p, all, k + 1)
      BY <1>1, <1>6, <2>2, <3>2, <3>3 DEF Represents
    <3>5. Total(page) = page.edits
      BY <1>2 DEF Total
    <3>6. SumTo(EditsOf(all, Key(page)), k + 1) = 0 + page.edits
      BY <1>1, <1>5, OneRowMore
    <3> QED BY <1>2, <3>1, <3>4, <3>5, <3>6
  <2> QED BY <1>4, <2>1, <2>2
<1> HIDE DEF longer
<1>9. Merged(longer, all, k + 1)
  BY <1>4, <1>6, <1>7, <1>8 DEF Merged
<1> QED BY <1>9 DEF longer

\* Of a topic that is there, the page is added to the editions.
LEMMA MergeOld ==
  ASSUME NEW all, Fresh(all), NEW k \in Nat, k + 1 <= Len(all),
         NEW result, Merged(result, all, k),
         NEW i \in DOMAIN result, Key(result[i]) = Key(all[k + 1])
  PROVE  Merged([result EXCEPT ![i].editions = NewEditions(result[i], all[k + 1])], all, k + 1)
<1> DEFINE page == all[k + 1]
           old == result[i]
           new == [old EXCEPT !.editions = NewEditions(old, page)]
           merged == [result EXCEPT ![i] = new]
           n == Len(result)
<1>0. [result EXCEPT ![i].editions = NewEditions(result[i], all[k + 1])] = merged
  OBVIOUS
<1>1. /\ all \in Seq(Page) /\ Len(all) \in Nat
      /\ k + 1 \in 1..Len(all) /\ k + 1 \in 1..(k + 1)
      /\ \A j \in 1..k : j \in 1..(k + 1)
      /\ \A j \in 1..(k + 1) : all[j] \in Page
  BY DEF Fresh
<1>2. page \in Page
  BY <1>1
<1>3. result \in Seq(Page) /\ n \in Nat /\ DOMAIN result = 1..n /\ old \in Page
  BY DEF Merged
<1>4. /\ new \in Page /\ new.editions = NewEditions(old, page)
      /\ new.server = old.server /\ new.title = old.title /\ new.qid = old.qid
      /\ Total(new) = Total(old) + page.edits
  <2>1. /\ NewEditions(old, page) \in Seq([server : Servers, edits : Nat])
        /\ Total(new) = Total(old) + page.edits
    BY <1>2, <1>3, OneEditionMore
  <2> QED BY <1>3, <2>1 DEF Page
<1>5. Key(new) = Key(old)
  BY <1>4 DEF Key, Id
<1> HIDE DEF new
<1>6. /\ merged \in Seq(Page) /\ Len(merged) = n
      /\ merged[i] = new
      /\ \A p \in 1..n : p # i => merged[p] = result[p]
  BY <1>3, <1>4
<1>7. \A p \in 1..n : Key(merged[p]) = Key(result[p])
  BY <1>5, <1>6
<1> HIDE DEF merged
<1>8. Cardinality(KeysTo(all, k + 1)) = n
  <2>1. i \in 1..n /\ Represents(old, i, all, k)
    BY <1>3 DEF Merged
  <2>2. \A j \in 1..k : all[j] \in Page
    BY <1>1
  <2>3. Key(page) \in KeysTo(all, k)
    <3>1. PICK j \in 1..k : Key(old) = Key(all[j])
      BY <1>3, <2>1, <2>2, RepresentsFacts
    <3> QED BY <1>3, <3>1 DEF KeysTo
  <2>4. KeysTo(all, k + 1) = KeysTo(all, k)
    <3>1. KeysTo(all, k + 1) = KeysTo(all, k) \cup {Key(page)}
      BY KeysGrow
    <3>2. \A S : Key(page) \in S => S \cup {Key(page)} = S
      OBVIOUS
    <3> QED BY <2>3, <3>1, <3>2
  <2> QED BY <2>4 DEF Merged
<1>9. \A j \in 1..(k + 1) : \E p \in 1..n : Key(merged[p]) = Key(all[j])
  <2> TAKE j \in 1..(k + 1)
  <2>1. CASE j = k + 1
    BY <1>3, <1>7, <2>1
  <2>2. CASE j # k + 1
    <3>1. j \in 1..k
      BY <2>2
    <3>2. PICK p \in 1..n : Key(result[p]) = Key(all[j])
      BY <3>1 DEF Merged
    <3> QED BY <1>7, <3>2
  <2> QED BY <2>1, <2>2
<1>10. ASSUME NEW p \in 1..n
       PROVE  /\ Represents(merged[p], p, all, k + 1)
              /\ Total(merged[p]) = SumTo(EditsOf(all, Key(merged[p])), k + 1)
  <2>1. /\ Represents(result[p], p, all, k)
        /\ Total(result[p]) = SumTo(EditsOf(all, Key(result[p])), k)
    BY DEF Merged
  <2>2. CASE p = i
    <3>1. PICK j \in 1..k : /\ old = [all[j] EXCEPT !.editions = old.editions]
                            /\ FirstRow(all, j)
                            /\ p = Cardinality(KeysTo(all, j))
      BY <2>1, <2>2 DEF Represents
    <3>2. all[j] \in Page /\ j \in 1..(k + 1)
      BY <1>1
    <3>3. new = [all[j] EXCEPT !.editions = new.editions]
      BY <1>3, <3>1, <3>2 DEF new, Page
    <3>4. Represents(new, p, all, k + 1)
      BY <3>1, <3>2, <3>3 DEF Represents
    <3>5. SumTo(EditsOf(all, Key(old)), k + 1) = SumTo(EditsOf(all, Key(old)), k) + page.edits
      BY <1>1, OneRowMore
    <3> QED BY <1>4, <1>5, <1>6, <2>1, <2>2, <3>4, <3>5
  <2>3. CASE p # i
    <3>1. Key(result[p]) # Key(page)
      <4>1. i \in 1..n /\ \A j \in 1..k : all[j] \in Page
        BY <1>1, <1>3
      <4> QED BY <2>3, <4>1, Distinct
    <3>2. Represents(result[p], p, all, k + 1)
      BY <1>1, <2>1 DEF Represents
    <3>3. SumTo(EditsOf(all, Key(result[p])), k + 1) = SumTo(EditsOf(all, Key(result[p])), k)
      BY <1>1, <3>1, OneRowMore
    <3> QED BY <1>6, <2>1, <2>3, <3>2, <3>3
  <2> QED BY <2>2, <2>3
<1>11. Merged(merged, all, k + 1)
  BY <1>6, <1>8, <1>9, <1>10 DEF Merged
<1> QED BY <1>0, <1>11

\* One round of the merge.
LEMMA MergeOne ==
  ASSUME NEW all, Fresh(all), NEW k \in Nat, k + 1 <= Len(all),
         NEW result, Merged(result, all, k)
  PROVE  Merged(AddPage(result, all[k + 1]), all, k + 1)
<1> DEFINE page == all[k + 1]
<1>1. CASE \A i \in DOMAIN result : Key(result[i]) # Key(page)
  BY <1>1, MergeNew DEF AddPage
<1>2. CASE ~ \A i \in DOMAIN result : Key(result[i]) # Key(page)
  <2> DEFINE i == CHOOSE i \in DOMAIN result : Key(result[i]) = Key(page)
  <2>1. i \in DOMAIN result /\ Key(result[i]) = Key(page)
    BY <1>2
  <2>2. AddPage(result, page) =
          [result EXCEPT ![i].editions =
             Append(IF result[i].editions = <<>> THEN <<Edition(result[i])>>
                    ELSE result[i].editions, Edition(page))]
    <3>1. result \in Seq(Page)
      BY DEF Merged
    <3> QED BY <1>2, <2>1, <3>1 DEF AddPage
  <2> HIDE DEF i
  <2>3. Merged([result EXCEPT ![i].editions = NewEditions(result[i], page)], all, k + 1)
    BY <2>1, MergeOld
  <2> QED BY <2>2, <2>3 DEF NewEditions
<1> QED BY <1>1, <1>2

\* A round of the merge leaves a list of pages.
LEMMA AddPageType ==
  ASSUME NEW result \in Seq(Page), NEW page \in Page
  PROVE  AddPage(result, page) \in Seq(Page)
<1>1. CASE \A i \in DOMAIN result : Key(result[i]) # Key(page)
  BY <1>1, AppendProperties DEF AddPage
<1>2. CASE ~ \A i \in DOMAIN result : Key(result[i]) # Key(page)
  <2> DEFINE i == CHOOSE i \in DOMAIN result : Key(result[i]) = Key(page)
  <2>1. i \in DOMAIN result
    BY <1>2
  <2>2. AddPage(result, page) =
          [result EXCEPT ![i] = [result[i] EXCEPT !.editions = NewEditions(result[i], page)]]
    BY <1>2, <2>1 DEF AddPage, NewEditions
  <2> HIDE DEF i
  <2>3. result[i] \in Page
    BY <2>1
  <2>4. NewEditions(result[i], page) \in Seq([server : Servers, edits : Nat])
    BY <2>3, OneEditionMore
  <2>5. [result[i] EXCEPT !.editions = NewEditions(result[i], page)] \in Page
    BY <2>3, <2>4 DEF Page
  <2> QED BY <2>1, <2>2, <2>5
<1> QED BY <1>1, <1>2

\* _deduplicate_by_qid: the whole list, merged.
LEMMA Deduplicated ==
  ASSUME NEW all, Fresh(all)
  PROVE  Merged(Deduplicate(all), all, Len(all))
<1> DEFINE n == Len(all)
           V == Seq(Page)
           step == [i \in 1..n |-> [r \in V |-> AddPage(r, all[i])]]
           Is(upTo) == upTo = [i \in 0..n |-> IF i = 0 THEN <<>> ELSE AddPage(upTo[i - 1], all[i])]
           chosen == CHOOSE upTo : Is(upTo)
<1>1. n \in Nat /\ \A i \in 1..n : all[i] \in Page
  BY DEF Fresh
<1>2. Deduplicate(all) = chosen[n]
  BY DEF Deduplicate
<1>3. <<>> \in V /\ \A i \in 1..n : \A r \in V : AddPage(r, all[i]) \in V
  BY <1>1, EmptySeq, AddPageType
<1> HIDE DEF V
<1>4. step \in [1..n -> [V -> V]] /\ \A i \in 1..n : \A r \in V : step[i][r] = AddPage(r, all[i])
  BY <1>3
<1> HIDE DEF step, n, chosen
<1>5. PICK upTo : Unfolds(upTo, n, <<>>, step) /\ upTo \in [0..n -> V]
  BY <1>1, <1>3, <1>4, Recursion
<1>6. /\ \A i \in 0..n : i # 0 => i \in 1..n /\ i - 1 \in 0..n
      /\ \A i \in 1..n : i # 0 /\ i \in 0..n
      /\ 0 \in 0..n
  BY <1>1
<1>7. Is(upTo)
  <2>1. \A i \in 0..n : i # 0 => step[i][upTo[i - 1]] = AddPage(upTo[i - 1], all[i])
    BY <1>4, <1>5, <1>6
  <2> QED BY <1>5, <2>1 DEF Unfolds
<1>8. Is(chosen)
  BY <1>7 DEF chosen
<1>9. chosen[0] = <<>> /\ \A i \in 1..n : chosen[i] = AddPage(chosen[i - 1], all[i])
  BY <1>6, <1>8
<1> DEFINE S == {k \in Nat : k <= n => Merged(chosen[k], all, k)}
<1>10. 0 \in S
  <2>1. <<>> \in Seq(Page) /\ Len(<<>>) = 0 /\ 1..0 = {}
    BY EmptySeq
  <2>2. Cardinality(KeysTo(all, 0)) = 0
    BY KeysGrow, FS_EmptySet
  <2> QED BY <1>9, <2>1, <2>2 DEF Merged
<1>11. ASSUME NEW k \in Nat, k \in S PROVE k + 1 \in S
  <2> SUFFICES ASSUME k + 1 <= n PROVE Merged(chosen[k + 1], all, k + 1)
    OBVIOUS
  <2>1. Merged(chosen[k], all, k)
    BY <1>1, <1>11
  <2>2. k + 1 <= Len(all)
    BY DEF n
  <2>3. k + 1 \in 1..n /\ (k + 1) - 1 = k
    BY <1>1
  <2>4. chosen[k + 1] = AddPage(chosen[k], all[k + 1])
    BY <1>9, <2>3
  <2> QED BY <2>1, <2>2, <2>4, MergeOne
<1> HIDE DEF S
<1>12. n \in S
  BY <1>1, <1>10, <1>11, Induction
<1> QED BY <1>1, <1>2, <1>12 DEF S, n

-----------------------------------------------------------------------------
(* The candidates. *)

\* Of finitely many numbers there is a largest.
LEMMA Largest ==
  ASSUME NEW n \in Nat, NEW T \in SUBSET (1..n), T # {}
  PROVE  Max(T) \in T
<1> DEFINE R == {n - x : x \in T}
<1>1. R \in SUBSET Nat /\ R # {}
  <2>1. \A x \in 1..n : n - x \in Nat
    OBVIOUS
  <2> QED BY <2>1
<1>2. PICK m \in R : \A k \in R : m <= k
  BY <1>1, Least
<1>3. PICK x \in T : m = n - x
  BY <1>2
<1>4. \A y \in T : n - x <= n - y
  BY <1>2, <1>3
<1>5. \A y \in T : x >= y
  <2> TAKE y \in T
  <2>1. n - x <= n - y /\ x \in Int /\ y \in Int
    BY <1>4
  <2> QED BY <2>1
<1> QED BY <1>5 DEF Max

\* The least number of a set is the one below the others.
LEMMA LeastIs ==
  ASSUME NEW T \in SUBSET Nat, NEW m \in T, \A k \in T : m <= k
  PROVE  Min(T) = m
<1>1. Min(T) \in T /\ \A k \in T : Min(T) <= k
  BY DEF Min
<1>2. Min(T) <= m /\ m <= Min(T) /\ m \in Nat /\ Min(T) \in Nat
  BY <1>1
<1> QED BY <1>2

\* The first row of a topic.
FirstOf(all, key) == Min({j \in DOMAIN all : Key(all[j]) = key})

\* What the badge of a page at place i says.
Change(yesterday, title, i) ==
  IF PlacesOf(yesterday, title) = {} THEN Nothing ELSE <<Max(PlacesOf(yesterday, title)) - i>>

Lines == Seq([server : Servers, title : Titles])

\* A badge is a number or none.
LEMMA ChangeType ==
  ASSUME NEW yesterday \in Lines, NEW title, NEW i \in Int
  PROVE  Change(yesterday, title, i) \in Seq(Int)
<1>1. Nothing \in Seq(Int)
  BY EmptySeq DEF Nothing
<1>2. CASE PlacesOf(yesterday, title) # {}
  <2>1. PlacesOf(yesterday, title) \in SUBSET (1..Len(yesterday)) /\ Len(yesterday) \in Nat
    BY DEF PlacesOf, Lines
  <2>2. Max(PlacesOf(yesterday, title)) \in 1..Len(yesterday)
    BY <1>2, <2>1, Largest
  <2>3. Max(PlacesOf(yesterday, title)) - i \in Int
    BY <2>1, <2>2
  <2>4. <<Max(PlacesOf(yesterday, title)) - i>> \in Seq(Int)
    BY <2>3
  <2> QED BY <1>2, <2>4 DEF Change
<1> QED BY <1>1, <1>2 DEF Change

\* What is right of a candidate at place i: its description, the edits that are shown for
\* it, its place among the topics of the rows, and its badge.
RightPage(page, i, all, yesterday) ==
  /\ page.description \in {Nothing, Id(page), Key(page)}
  /\ Total(page) = SumTo(EditsOf(all, Key(page)), Len(all))
  /\ i = Cardinality(KeysTo(all, FirstOf(all, Key(page))))
  /\ page.change = Change(yesterday, page.title, i)

\* A merged page before its badge.
LEMMA MergedPage ==
  ASSUME NEW all, Fresh(all), NEW i \in 1..Len(Deduplicate(all))
  PROVE  LET page == Deduplicate(all)[i]
         IN /\ page \in Page
            /\ page.description \in {Nothing, Id(page)}
            /\ Total(page) = SumTo(EditsOf(all, Key(page)), Len(all))
            /\ i = Cardinality(KeysTo(all, FirstOf(all, Key(page))))
<1> DEFINE page == Deduplicate(all)[i]
           n == Len(all)
<1>1. /\ all \in Seq(Page) /\ n \in Nat /\ DOMAIN all = 1..n
      /\ \A j \in 1..n : all[j] \in Page /\ all[j].description \in {Nothing, Id(all[j])}
  BY DEF Fresh
<1>2. /\ page \in Page /\ Represents(page, i, all, n)
      /\ Total(page) = SumTo(EditsOf(all, Key(page)), n)
  BY Deduplicated DEF Merged
<1> HIDE DEF page
<1>3. PICK j \in 1..n : /\ page.description = all[j].description
                        /\ Id(page) = Id(all[j]) /\ Key(page) = Key(all[j])
                        /\ FirstRow(all, j) /\ i = Cardinality(KeysTo(all, j))
  BY <1>1, <1>2, RepresentsFacts
<1>4. FirstOf(all, Key(page)) = j
  <2> DEFINE T == {m \in 1..n : Key(all[m]) = Key(page)}
  <2>1. T \in SUBSET Nat /\ j \in T
    BY <1>1, <1>3
  <2>2. \A m \in T : j <= m
    <3> TAKE m \in T
    <3>1. m \in 1..n /\ Key(all[m]) = Key(all[j])
      BY <1>3
    <3>2. m \notin 1..(j - 1)
      BY <1>3, <3>1 DEF FirstRow
    <3> QED BY <1>1, <3>1, <3>2
  <2>3. FirstOf(all, Key(page)) = Min(T)
    BY <1>1 DEF FirstOf
  <2> HIDE DEF T
  <2> QED BY <2>1, <2>2, <2>3, LeastIs
<1> QED BY <1>1, <1>2, <1>3, <1>4 DEF page

\* A description in Korean is of the topic.
LEMMA InKoreanPage ==
  ASSUME NEW all \in Seq(Page), NEW korean \in SUBSET Qids, NoQid \notin korean
  PROVE  /\ InKorean(all, korean) \in Seq(Page)
         /\ Len(InKorean(all, korean)) = Len(all)
         /\ \A i \in 1..Len(all) :
              LET page == InKorean(all, korean)[i]
              IN /\ Id(page) = Id(all[i]) /\ Key(page) = Key(all[i]) /\ page.title = all[i].title
                 /\ Total(page) = Total(all[i])
                 /\ page.description \in {all[i].description, Key(page)}
<1> DEFINE s == InKorean(all, korean)
           n == Len(all)
<1>1. n \in Nat /\ DOMAIN all = 1..n /\ \A i \in 1..n : all[i] \in Page
  OBVIOUS
<1>2. \A i \in 1..n :
        s[i] = IF all[i].description = Nothing /\ all[i].qid \in korean
               THEN [all[i] EXCEPT !.description = <<all[i].qid>>]
               ELSE all[i]
  BY <1>1 DEF InKorean
<1>3. s = [i \in 1..n |-> s[i]]
  BY <1>1 DEF InKorean
<1> HIDE DEF s
<1>4. ASSUME NEW i \in 1..n
      PROVE  /\ s[i] \in Page
             /\ Id(s[i]) = Id(all[i]) /\ Key(s[i]) = Key(all[i]) /\ s[i].title = all[i].title
             /\ Total(s[i]) = Total(all[i])
             /\ s[i].description \in {all[i].description, Key(s[i])}
  <2>1. CASE all[i].description = Nothing /\ all[i].qid \in korean
    <3>1. s[i] = [all[i] EXCEPT !.description = <<all[i].qid>>] /\ all[i] \in Page
      BY <1>1, <1>2, <2>1
    <3>2. <<all[i].qid>> \in Texts
      BY <2>1 DEF Texts, TopicKeys
    <3>3. /\ s[i] \in Page
          /\ s[i].server = all[i].server /\ s[i].title = all[i].title
          /\ s[i].edits = all[i].edits /\ s[i].qid = all[i].qid
          /\ s[i].editions = all[i].editions /\ s[i].description = <<all[i].qid>>
      BY <3>1, <3>2 DEF Page
    <3>4. Key(s[i]) = <<all[i].qid>>
      BY <2>1, <3>3 DEF Key
    <3> QED BY <3>3, <3>4 DEF Id, Key, Total
  <2>2. CASE ~ (all[i].description = Nothing /\ all[i].qid \in korean)
    <3>1. s[i] = all[i] /\ all[i] \in Page
      BY <1>1, <1>2, <2>2
    <3> QED BY <3>1
  <2> QED BY <2>1, <2>2
<1>5. s \in Seq(Page) /\ Len(s) = n
  BY <1>1, <1>3, <1>4
<1> QED BY <1>4, <1>5 DEF s

\* The candidates are pages, and right.
LEMMA CandidatesAreRight ==
  ASSUME NEW all, Fresh(all), NEW korean \in SUBSET Qids, NoQid \notin korean,
         NEW yesterday \in Lines
  PROVE  /\ Candidates(all, korean, yesterday) \in Seq(Page)
         /\ \A i \in 1..Len(Candidates(all, korean, yesterday)) :
              RightPage(Candidates(all, korean, yesterday)[i], i, all, yesterday)
<1> DEFINE d == Deduplicate(all)
           t == InKorean(d, korean)
           c == Candidates(all, korean, yesterday)
           n == Len(d)
<1>1. d \in Seq(Page) /\ n \in Nat
  BY Deduplicated DEF Merged
<1>2. /\ t \in Seq(Page) /\ Len(t) = n /\ DOMAIN t = 1..n
      /\ \A i \in 1..n :
           /\ t[i] \in Page
           /\ Id(t[i]) = Id(d[i]) /\ Key(t[i]) = Key(d[i]) /\ Total(t[i]) = Total(d[i])
           /\ t[i].description \in {d[i].description, Key(t[i])}
  <2> HIDE DEF d
  <2>1. /\ t \in Seq(Page) /\ Len(t) = n
        /\ \A i \in 1..n :
             /\ Id(t[i]) = Id(d[i]) /\ Key(t[i]) = Key(d[i]) /\ Total(t[i]) = Total(d[i])
             /\ t[i].description \in {d[i].description, Key(t[i])}
    BY <1>1, InKoreanPage
  <2> HIDE DEF t
  <2> QED BY <1>1, <2>1
<1>3. \A i \in 1..n :
        /\ d[i].description \in {Nothing, Id(d[i])}
        /\ Total(d[i]) = SumTo(EditsOf(all, Key(d[i])), Len(all))
        /\ i = Cardinality(KeysTo(all, FirstOf(all, Key(d[i]))))
  BY MergedPage
<1>4. c = [i \in DOMAIN t |->
            [t[i] EXCEPT !.change = IF PlacesOf(yesterday, t[i].title) = {} THEN Nothing
                                    ELSE <<Max(PlacesOf(yesterday, t[i].title)) - i>>]]
  BY DEF Candidates, Ranked
<1> HIDE DEF c, t, d
<1>5. c = [i \in 1..n |-> [t[i] EXCEPT !.change = Change(yesterday, t[i].title, i)]]
  BY <1>2, <1>4 DEF Change
<1>6. ASSUME NEW i \in 1..n
      PROVE  /\ c[i] \in Page
             /\ c[i].server = t[i].server /\ c[i].title = t[i].title
             /\ c[i].edits = t[i].edits /\ c[i].qid = t[i].qid
             /\ c[i].editions = t[i].editions /\ c[i].description = t[i].description
             /\ c[i].change = Change(yesterday, t[i].title, i)
  <2>1. c[i] = [t[i] EXCEPT !.change = Change(yesterday, t[i].title, i)] /\ t[i] \in Page
    BY <1>2, <1>5
  <2>2. Change(yesterday, t[i].title, i) \in Seq(Int)
    BY <1>1, ChangeType
  <2> QED BY <2>1, <2>2 DEF Page
<1>7. c \in Seq(Page) /\ Len(c) = n
  <2>1. c = [i \in 1..n |-> c[i]]
    BY <1>5
  <2>2. \A i \in 1..n : c[i] \in Page
    BY <1>6
  <2> QED BY <1>1, <2>1, <2>2
<1>8. ASSUME NEW i \in 1..n PROVE RightPage(c[i], i, all, yesterday)
  <2>1. Id(c[i]) = Id(t[i]) /\ Key(c[i]) = Key(t[i]) /\ Total(c[i]) = Total(t[i])
    BY <1>6 DEF Id, Key, Total
  <2>2. c[i].description \in {Nothing, Id(c[i]), Key(c[i])}
    BY <1>2, <1>3, <1>6, <2>1
  <2> QED BY <1>2, <1>3, <1>6, <2>1, <2>2 DEF RightPage
<1> QED BY <1>7, <1>8 DEF c

\* The rows of the query as pages.
LEMMA PagesAreFresh ==
  ASSUME NEW rows \in Rows \cup {<<>>}, NEW unknown \in SUBSET DOMAIN rows
  PROVE  /\ Fresh(Pages(rows, unknown))
         /\ {rows[i].qid : i \in DOMAIN rows} \subseteq Qids \cup {NoQid}
<1> DEFINE Row == [server : Servers, title : Titles, edits : Nat, qid : Qids \cup {NoQid},
                   described : BOOLEAN]
           all == Pages(rows, unknown)
           n == Len(rows)
<1>1. rows \in Seq(Row)
  <2>1. \A r \in Rows : r \in Seq(Row)
    BY ReportContentAssumption
  <2> HIDE DEF Row
  <2> QED BY <2>1, EmptySeq
<1>2. n \in Nat /\ DOMAIN rows = 1..n /\ \A i \in 1..n : rows[i] \in Row
  <2> HIDE DEF Row
  <2> QED BY <1>1
<1>3. all = [i \in 1..n |->
        [server |-> rows[i].server, title |-> rows[i].title, edits |-> rows[i].edits,
         qid |-> IF i \in unknown THEN NoQid ELSE rows[i].qid, editions |-> <<>>,
         description |-> IF rows[i].described THEN Id(rows[i]) ELSE Nothing,
         change |-> Nothing]]
  BY <1>2 DEF Pages
<1>4. ASSUME NEW i \in 1..n
      PROVE  /\ all[i] \in Page /\ all[i].editions = <<>>
             /\ all[i].description \in {Nothing, Id(all[i])}
  <2>1. /\ rows[i].server \in Servers /\ rows[i].title \in Titles /\ rows[i].edits \in Nat
        /\ rows[i].qid \in Qids \cup {NoQid}
    BY <1>2
  <2>2. <<>> \in Seq([server : Servers, edits : Nat]) /\ Nothing \in Seq(Int)
    BY EmptySeq DEF Nothing
  <2>3. Id(rows[i]) \in Texts /\ Nothing \in Texts
    BY <2>1 DEF Texts, TopicKeys, Ids, Id
  <2> QED BY <1>3, <2>1, <2>2, <2>3 DEF Page, Id
<1> HIDE DEF all
<1>5. all \in Seq(Page) /\ Len(all) = n
  BY <1>2, <1>3, <1>4
<1>6. Fresh(all)
  BY <1>4, <1>5 DEF Fresh
<1> QED BY <1>2, <1>6 DEF all

-----------------------------------------------------------------------------
(* What Claude chose. *)

\* s[:n] is the beginning of s.
LEMMA AtMostFacts ==
  ASSUME NEW S, NEW s \in Seq(S), NEW n \in Nat
  PROVE  /\ AtMost(s, n) \in Seq(S)
         /\ Len(AtMost(s, n)) = (IF Len(s) < n THEN Len(s) ELSE n)
         /\ DOMAIN AtMost(s, n) = 1..Len(AtMost(s, n))
         /\ Len(AtMost(s, n)) <= n /\ Len(AtMost(s, n)) <= Len(s)
         /\ \A i \in 1..Len(AtMost(s, n)) : i \in 1..Len(s) /\ AtMost(s, n)[i] = s[i]
<1> DEFINE m == IF Len(s) < n THEN Len(s) ELSE n
<1>1. m \in Nat /\ Len(s) \in Nat /\ m <= n /\ m <= Len(s) /\ \A i \in 1..m : s[i] \in S
  OBVIOUS
<1>2. AtMost(s, n) = SubSeq(s, 1, m)
  BY DEF AtMost
<1> HIDE DEF m
<1>3. /\ SubSeq(s, 1, m) \in Seq(S)
      /\ Len(SubSeq(s, 1, m)) = IF 1 <= m THEN m - 1 + 1 ELSE 0
      /\ \A i \in 1..(m - 1 + 1) : SubSeq(s, 1, m)[i] = s[1 + i - 1]
  BY <1>1, SubSeqProperties
<1>4. Len(SubSeq(s, 1, m)) = m
  BY <1>1, <1>3
<1>5. \A i \in 1..m : i \in 1..(m - 1 + 1) /\ 1 + i - 1 = i /\ i \in 1..Len(s)
  BY <1>1
<1>6. DOMAIN SubSeq(s, 1, m) = 1..m
  BY <1>3, <1>4
<1>7. \A i \in 1..m : SubSeq(s, 1, m)[i] = s[i]
  BY <1>3, <1>5
<1> QED BY <1>1, <1>2, <1>3, <1>4, <1>5, <1>6, <1>7 DEF m

\* The indices that are kept are those of pages.
LEMMA InRangeFacts ==
  ASSUME NEW l \in Nat, NEW indices \in Seq(Int)
  PROVE  InRange(l, indices) \in Seq(0..(l - 1))
<1> DEFINE n == Len(indices)
           V == Seq(0..(l - 1))
           Round(i, r) == IF 0 <= indices[i] /\ indices[i] < l THEN Append(r, indices[i]) ELSE r
           step == [i \in 1..n |-> [r \in V |-> Round(i, r)]]
           Is(upTo) == upTo = [i \in 0..n |-> IF i = 0 THEN <<>> ELSE Round(i, upTo[i - 1])]
           chosen == CHOOSE upTo : Is(upTo)
<1>1. n \in Nat /\ \A i \in 1..n : indices[i] \in Int
  OBVIOUS
<1>2. InRange(l, indices) = chosen[n]
  BY DEF InRange
<1>3. <<>> \in V /\ \A i \in 1..n : \A r \in V : Round(i, r) \in V
  <2> DEFINE D == 0..(l - 1)
  <2>1. \A i \in 1..n : 0 <= indices[i] /\ indices[i] < l => indices[i] \in D
    BY <1>1
  <2> HIDE DEF D
  <2>2. \A r \in Seq(D), x \in D : Append(r, x) \in Seq(D)
    BY AppendProperties
  <2>3. <<>> \in Seq(D)
    BY EmptySeq
  <2> QED BY <2>1, <2>2, <2>3 DEF D
<1> HIDE DEF V, Round
<1>4. step \in [1..n -> [V -> V]] /\ \A i \in 1..n : \A r \in V : step[i][r] = Round(i, r)
  BY <1>3
<1> HIDE DEF step, n, chosen
<1>5. PICK upTo : Unfolds(upTo, n, <<>>, step) /\ upTo \in [0..n -> V]
  BY <1>1, <1>3, <1>4, Recursion
<1>6. /\ \A i \in 0..n : i # 0 => i \in 1..n /\ i - 1 \in 0..n
      /\ \A i \in 1..n : i # 0 /\ i \in 0..n
      /\ 0 \in 0..n /\ n \in 0..n
  BY <1>1
<1>7. Is(upTo)
  <2>1. \A i \in 0..n : i # 0 => step[i][upTo[i - 1]] = Round(i, upTo[i - 1])
    BY <1>4, <1>5, <1>6
  <2> QED BY <1>5, <2>1 DEF Unfolds
<1>8. Is(chosen)
  BY <1>7 DEF chosen
<1>9. chosen[0] \in V /\ \A i \in 1..n : chosen[i - 1] \in V => chosen[i] \in V
  BY <1>3, <1>6, <1>8
<1>10. \A i \in 0..n : chosen[i] \in V
  BY <1>1, <1>9, StaysIn
<1> QED BY <1>2, <1>6, <1>10 DEF V

\* What stays of a page in the report: all but the description.
SamePage(page, old) ==
  /\ Id(page) = Id(old) /\ Key(page) = Key(old)
  /\ Total(page) = Total(old) /\ page.change = old.change

\* Claude's descriptions stand with the pages whose index they had.
LEMMA DescribedFacts ==
  ASSUME NEW all \in Seq(Page), all = candidates, NEW described
  PROVE  /\ Described(all, described) \in Seq(Page)
         /\ Len(Described(all, described)) = Len(all)
         /\ \A i \in 1..Len(all) :
              LET page == Described(all, described)[i]
              IN SamePage(page, all[i]) /\ page.description \in {all[i].description, Id(page)}
<1> DEFINE s == Described(all, described)
           n == Len(all)
<1>1. n \in Nat /\ DOMAIN all = 1..n /\ \A i \in 1..n : all[i] \in Page
  OBVIOUS
<1>2. s = [i \in 1..n |->
        IF all[i].description = Nothing /\ i - 1 \in described /\ i \in DOMAIN candidates
        THEN [all[i] EXCEPT !.description = Id(all[i])]
        ELSE all[i]]
  BY <1>1 DEF Described
<1> HIDE DEF s
<1>3. ASSUME NEW i \in 1..n
      PROVE  /\ s[i] \in Page
             /\ SamePage(s[i], all[i]) /\ s[i].description \in {all[i].description, Id(s[i])}
  <2>1. all[i] \in Page
    BY <1>1
  <2>2. CASE s[i] = all[i]
    BY <2>1, <2>2 DEF SamePage
  <2>3. CASE s[i] = [all[i] EXCEPT !.description = Id(all[i])]
    <3>1. Id(all[i]) \in Texts
      BY <2>1, KeyTypes DEF Texts, TopicKeys
    <3>2. /\ s[i] \in Page
          /\ s[i].server = all[i].server /\ s[i].title = all[i].title
          /\ s[i].edits = all[i].edits /\ s[i].qid = all[i].qid
          /\ s[i].editions = all[i].editions /\ s[i].change = all[i].change
          /\ s[i].description = Id(all[i])
      BY <2>1, <2>3, <3>1 DEF Page
    <3>3. SamePage(s[i], all[i])
      BY <3>2 DEF SamePage, Id, Key, Total
    <3> QED BY <3>2, <3>3 DEF SamePage
  <2> QED BY <1>2, <2>2, <2>3
<1>4. s \in Seq(Page) /\ Len(s) = n
  <2>1. s = [i \in 1..n |-> s[i]]
    BY <1>2
  <2>2. \A i \in 1..n : s[i] \in Page
    BY <1>3
  <2> QED BY <1>1, <2>1, <2>2
<1> QED BY <1>3, <1>4 DEF s

\* The report has at most Shown pages, each one of those it was chosen from, and if Claude's
\* indices are those of pages they come in its order.
LEMMA ChosenFacts ==
  ASSUME NEW all \in Seq(Page), NEW selected \in Seq(Int)
  PROVE  LET chosen == Chosen(all, selected)
         IN /\ chosen \in Seq(Page) /\ Len(chosen) <= Shown
            /\ \A i \in 1..Len(chosen) : \E j \in 1..Len(all) : chosen[i] = all[j]
            /\ (InRange(Len(all), selected) = selected /\ selected # <<>>) =>
                 \A i \in 1..Len(chosen) :
                   /\ i \in 1..Len(selected) /\ selected[i] + 1 \in 1..Len(all)
                   /\ chosen[i] = all[selected[i] + 1]
<1> DEFINE l == Len(all)
           D == 0..(l - 1)
           kept == InRange(Len(all), selected)
           valid == AtMost(kept, Shown)
           n == Len(valid)
           chosen == Chosen(all, selected)
<1>1. Shown \in Nat /\ l \in Nat
  BY ReportContentAssumption
<1>2. kept \in Seq(D)
  BY <1>1, InRangeFacts
<1>3. /\ valid \in Seq(D) /\ n <= Shown /\ DOMAIN valid = 1..n
      /\ \A i \in 1..n : i \in 1..Len(kept) /\ valid[i] = kept[i]
      /\ Shown # 0 /\ kept # <<>> => valid # <<>>
  <2> HIDE DEF kept, D, l, chosen, valid, n
  <2>1. /\ AtMost(kept, Shown) \in Seq(D)
        /\ Len(AtMost(kept, Shown)) = (IF Len(kept) < Shown THEN Len(kept) ELSE Shown)
        /\ DOMAIN AtMost(kept, Shown) = 1..Len(AtMost(kept, Shown))
        /\ Len(AtMost(kept, Shown)) <= Shown
        /\ \A i \in 1..Len(AtMost(kept, Shown)) :
             i \in 1..Len(kept) /\ AtMost(kept, Shown)[i] = kept[i]
    BY <1>1, <1>2, AtMostFacts
  <2>2. /\ valid \in Seq(D) /\ n <= Shown /\ DOMAIN valid = 1..n
        /\ n = (IF Len(kept) < Shown THEN Len(kept) ELSE Shown)
        /\ \A i \in 1..n : i \in 1..Len(kept) /\ valid[i] = kept[i]
    BY <2>1 DEF valid, n
  <2>3. kept # <<>> => Len(kept) # 0
    BY <1>2, EmptySeq
  <2>4. Len(<<>>) = 0
    OBVIOUS
  <2> QED BY <1>1, <1>2, <2>2, <2>3, <2>4
<1>4. n \in Nat /\ \A i \in 1..n : valid[i] \in D
  <2> HIDE DEF valid, D
  <2> QED BY <1>3
<1> HIDE DEF valid, kept
<1>5. \A i \in 1..n : valid[i] + 1 \in 1..l /\ all[valid[i] + 1] \in Page
  <2>1. \A x \in D : x + 1 \in 1..l
    BY <1>1
  <2>2. \A x \in 1..l : all[x] \in Page
    BY <1>1
  <2> QED BY <1>4, <2>1, <2>2
<1>6. CASE valid # <<>>
  <2>1. chosen = [i \in 1..n |-> all[valid[i] + 1]]
    BY <1>3, <1>6 DEF Chosen, valid, kept
  <2> HIDE DEF chosen, n
  <2>2. chosen \in Seq(Page) /\ Len(chosen) = n
    BY <1>4, <1>5, <2>1
  <2>3. \A i \in 1..n : chosen[i] = all[valid[i] + 1]
    BY <2>1
  <2>4. ASSUME kept = selected, NEW i \in 1..n
        PROVE  /\ i \in 1..Len(selected) /\ selected[i] + 1 \in 1..l
               /\ chosen[i] = all[selected[i] + 1]
    <3>1. i \in 1..Len(selected) /\ valid[i] = selected[i]
      BY <1>3, <2>4 DEF n
    <3> QED BY <1>5, <2>3, <3>1
  <2> QED BY <1>3, <1>5, <2>2, <2>3, <2>4 DEF chosen, kept, n
<1>7. CASE valid = <<>>
  <2>1. chosen = AtMost(all, Shown)
    BY <1>7 DEF Chosen, valid, kept
  <2>2. /\ chosen \in Seq(Page) /\ Len(chosen) <= Shown
        /\ \A i \in 1..Len(chosen) : i \in 1..l /\ chosen[i] = all[i]
    BY <1>1, <2>1, AtMostFacts
  <2>3. ASSUME kept = selected, selected # <<>>, NEW i \in 1..Len(chosen) PROVE FALSE
    <3>1. Shown = 0
      BY <1>3, <1>7, <2>3
    <3>2. Len(chosen) \in Nat
      BY <2>2
    <3> QED BY <2>2, <2>3, <3>1, <3>2
  <2> HIDE DEF chosen
  <2> QED BY <2>2, <2>3 DEF chosen, kept
<1> QED BY <1>6, <1>7

-----------------------------------------------------------------------------
(* The steps. *)

\* What a post shows of a page is the page's.
LEMMA EntryFacts ==
  ASSUME NEW page
  PROVE  LET e == Entry(page)
         IN /\ e.id = Id(page) /\ e.key = Key(page) /\ e.edits = Total(page)
            /\ e.change = page.change /\ e.description = page.description
            /\ e.id[2] = page.title
BY DEF Entry, Id

\* A total of edits is a number that is not negative.
LEMMA TotalType ==
  ASSUME NEW page \in Page
  PROVE  Total(page) \in Nat
<1> DEFINE T == [server : Servers, edits : Nat]
           s == page.editions
           n == Len(s)
           g == [i \in DOMAIN s |-> s[i].edits]
<1>1. page.edits \in Nat /\ s \in Seq(T)
  BY DEF Page
<1>2. n \in Nat /\ DOMAIN s = 1..n /\ \A i \in 1..n : s[i] \in T
  <2> HIDE DEF s, T
  <2> QED BY <1>1
<1>3. \A i \in 1..n : g[i] \in Nat
  <2>1. \A e \in T : e.edits \in Nat
    OBVIOUS
  <2> HIDE DEF s, T, n
  <2> QED BY <1>2, <2>1
<1>4. Total(page) = IF s = <<>> THEN page.edits ELSE SumTo(g, n)
  BY DEF Total
<1> HIDE DEF g, n, s
<1> DEFINE S == {k \in Nat : k <= n => SumTo(g, k) \in Nat}
<1>5. 0 \in S
  <2>1. SumTo(g, 0) = 0
    BY SumFacts
  <2> QED BY <2>1
<1>6. ASSUME NEW k \in Nat, k \in S PROVE k + 1 \in S
  <2> SUFFICES ASSUME k + 1 <= n PROVE SumTo(g, k + 1) \in Nat
    OBVIOUS
  <2> DEFINE m == k + 1
  <2>1. m \in Nat /\ m # 0 /\ m - 1 = k /\ \A i \in 1..m : g[i] \in Int
    BY <1>2, <1>3
  <2>2. g[m] \in Nat /\ SumTo(g, k) \in Nat
    BY <1>2, <1>3, <1>6
  <2> HIDE DEF m
  <2>3. SumTo(g, m) = SumTo(g, k) + g[m]
    BY <2>1, SumFacts
  <2> QED BY <2>2, <2>3 DEF m
<1> HIDE DEF S
<1>7. n \in S
  BY <1>2, <1>5, <1>6, Induction
<1> QED BY <1>1, <1>2, <1>4, <1>7 DEF S

\* What Claude may answer.
LEMMA AnswerType ==
  ASSUME NEW a \in Answers \cup {NoJson}
  PROVE  a.selected \in Seq(Int) /\ a.keywords \in Nat
<1>1. <<>> \in Seq(Int)
  BY EmptySeq
<1>2. \A b \in Answers : b.selected \in Seq(Int) /\ b.keywords \in Nat
  BY ReportContentAssumption
<1>3. NoJson.selected = <<>> /\ NoJson.keywords = 0
  BY DEF NoJson
<1>4. CASE a \in Answers
  BY <1>2, <1>4
<1>5. CASE a = NoJson
  <2>1. 0 \in Nat
    OBVIOUS
  <2> QED BY <1>1, <1>3, <1>5, <2>1
<1> QED BY <1>4, <1>5

\* The run starts with nothing.
LEMMA ContentInitIInv == ContentInit => ContentIInv
<1> SUFFICES ASSUME ContentInit PROVE ContentIInv
  OBVIOUS
<1>1. \A S : <<>> \in Seq(S)
  BY EmptySeq
<1>2. Len(<<>>) = 0 /\ DOMAIN <<>> = {} /\ NewsPages \in Nat
  BY ReportContentAssumption
<1>3. NotAsked \in [rows : Seq(Page), yesterday : Yesterdays \cup {<<>>}, known : BOOLEAN]
  BY <1>1 DEF NotAsked
<1>4. ContentTypeOK
  BY <1>1, <1>2, <1>3 DEF ContentInit, ContentTypeOK
<1> QED BY <1>2, <1>4 DEF ContentInit, ContentIInv, EditionsAddUp, TextsOfTheirPages, BadgesAreTrue,
                          NotYet, PagesAreRight, SelectedComeFirst

\* The pages that were fetched are right.
LEMMA FetchStep == ContentIInv /\ Fetch => ContentIInv'
<1> SUFFICES ASSUME ContentIInv, Fetch PROVE ContentIInv'
  OBVIOUS
<1>1. PICK rows \in Rows \cup {<<>>}, yesterday \in Yesterdays, known \in BOOLEAN :
        \E unknown \in SUBSET DOMAIN rows, korean \in SUBSET {rows[i].qid : i \in DOMAIN rows} :
          /\ asked' = [rows |-> Pages(rows, unknown), yesterday |-> yesterday, known |-> known]
          /\ pages' = Candidates(Pages(rows, unknown), korean \ {NoQid},
                                 IF known THEN yesterday ELSE <<>>)
  BY DEF Fetch
<1>2. PICK unknown \in SUBSET DOMAIN rows, korean \in SUBSET {rows[i].qid : i \in DOMAIN rows} :
        /\ asked' = [rows |-> Pages(rows, unknown), yesterday |-> yesterday, known |-> known]
        /\ pages' = Candidates(Pages(rows, unknown), korean \ {NoQid},
                               IF known THEN yesterday ELSE <<>>)
  BY <1>1
<1> DEFINE all == Pages(rows, unknown)
           lines == IF known THEN yesterday ELSE <<>>
           named == korean \ {NoQid}
<1>3. Fresh(all) /\ named \in SUBSET Qids /\ NoQid \notin named
  <2>1. Fresh(all) /\ {rows[i].qid : i \in DOMAIN rows} \subseteq Qids \cup {NoQid}
    BY PagesAreFresh
  <2> QED BY <2>1
<1>4. lines \in Lines
  <2>1. yesterday \in Lines
    BY ReportContentAssumption DEF Lines
  <2> QED BY <2>1, EmptySeq DEF Lines
<1>5. /\ stage = "fetching" /\ stage' = "asking" /\ candidates' = pages'
      /\ news' = news /\ answer' = answer /\ post' = post /\ post = <<>>
  BY DEF Fetch, ContentIInv, NotYet
<1>6. /\ asked'.rows = all /\ asked'.yesterday = yesterday /\ asked'.known = known
      /\ pages' = Candidates(all, named, lines)
      /\ asked' \in [rows : Seq(Page), yesterday : Yesterdays \cup {<<>>}, known : BOOLEAN]
  BY <1>2, <1>3 DEF Fresh
<1> HIDE DEF all, lines, named
<1>7. /\ pages' \in Seq(Page)
      /\ \A i \in 1..Len(pages') : RightPage(pages'[i], i, all, lines)
  BY <1>3, <1>4, <1>6, CandidatesAreRight
<1>8. ContentTypeOK'
  BY <1>5, <1>6, <1>7 DEF ContentIInv, ContentTypeOK
<1>9. ASSUME NEW i \in DOMAIN pages'
      PROVE  LET e == Entry(pages'[i])
             IN AddsUp(e, asked'.rows) /\ OfItsPage(e) /\ TrueBadge(e, asked')
  <2> DEFINE page == pages'[i]
             e == Entry(page)
  <2>1. i \in 1..Len(pages')
    BY <1>7
  <2>2. /\ page.description \in {Nothing, Id(page), Key(page)}
        /\ Total(page) = SumTo(EditsOf(all, Key(page)), Len(all))
        /\ i = Cardinality(KeysTo(all, FirstOf(all, Key(page))))
        /\ page.change = Change(lines, page.title, i)
    BY <1>7, <2>1 DEF RightPage
  <2>3. /\ e.id = Id(page) /\ e.key = Key(page) /\ e.edits = Total(page)
        /\ e.change = page.change /\ e.description = page.description
        /\ e.id[2] = page.title
    BY EntryFacts
  <2> HIDE DEF e, page
  <2>4. AddsUp(e, asked'.rows)
    BY <1>6, <2>2, <2>3 DEF AddsUp
  <2>5. OfItsPage(e)
    BY <2>2, <2>3 DEF OfItsPage
  <2>6. TrueBadge(e, asked')
    <3> DEFINE before == {j \in DOMAIN yesterday : Id(yesterday[j]) = e.id}
               first == Min({j \in DOMAIN all : Key(all[j]) = e.key})
               today == Cardinality(KeysTo(all, first))
    <3>1. today = i
      BY <2>2, <2>3 DEF FirstOf
    <3>2. ASSUME known, PlacesOf(yesterday, e.id[2]) = before
          PROVE  e.change = IF before = {} THEN Nothing ELSE <<Max(before) - today>>
      <4>1. lines = yesterday
        BY <3>2 DEF lines
      <4>2. PlacesOf(yesterday, page.title) = before
        BY <2>3, <3>2
      <4> HIDE DEF before, today
      <4> QED BY <2>2, <2>3, <3>1, <4>1, <4>2 DEF Change
    <3> QED BY <1>6, <3>2 DEF TrueBadge
  <2> QED BY <2>4, <2>5, <2>6 DEF e, page
<1>10. PagesAreRight'
  BY <1>9 DEF PagesAreRight
<1>11. DOMAIN post' = {} /\ DOMAIN <<>> = {}
  BY <1>5
<1> QED BY <1>5, <1>8, <1>10, <1>11
        DEF ContentIInv, EditionsAddUp, TextsOfTheirPages, BadgesAreTrue, NotYet, SelectedComeFirst

\* Claude's choice is right about its pages, and in Claude's order.
LEMMA AskStep == ContentIInv /\ Ask => ContentIInv'
<1> SUFFICES ASSUME ContentIInv, Ask PROVE ContentIInv'
  OBVIOUS
<1>1. PICK a \in Answers \cup {NoJson} : answer' = a /\ pages' = Applied(pages, a)
  BY DEF Ask
<1>2. a.selected \in Seq(Int) /\ a.keywords \in Nat
  BY AnswerType
<1> DEFINE d == Described(pages, a.described)
<1>3. /\ stage = "asking" /\ stage' = "built"
      /\ UNCHANGED <<news, asked, candidates, post>>
      /\ pages = candidates /\ post = <<>>
      /\ pages \in Seq(Page) /\ pages' = Chosen(d, a.selected)
  BY <1>1 DEF Ask, Applied, ContentIInv, ContentTypeOK, NotYet
<1>4. /\ d \in Seq(Page) /\ Len(d) = Len(candidates)
      /\ \A j \in 1..Len(pages) :
           SamePage(d[j], pages[j]) /\ d[j].description \in {pages[j].description, Id(d[j])}
  BY <1>3, DescribedFacts
<1> HIDE DEF d
<1>5. /\ pages' \in Seq(Page) /\ Len(pages') <= Shown
      /\ \A i \in 1..Len(pages') : \E j \in 1..Len(d) : pages'[i] = d[j]
      /\ (InRange(Len(d), a.selected) = a.selected /\ a.selected # <<>>) =>
           \A i \in 1..Len(pages') :
             /\ i \in 1..Len(a.selected) /\ a.selected[i] + 1 \in 1..Len(d)
             /\ pages'[i] = d[a.selected[i] + 1]
  BY <1>2, <1>3, <1>4, ChosenFacts
<1>6. DOMAIN pages = 1..Len(pages) /\ DOMAIN pages' = 1..Len(pages')
  BY <1>3, <1>5
<1>7. ContentTypeOK'
  BY <1>1, <1>3, <1>5 DEF ContentIInv, ContentTypeOK
<1>8. PagesAreRight'
  <2> SUFFICES ASSUME NEW i \in DOMAIN pages'
               PROVE  LET e == Entry(pages'[i])
                      IN AddsUp(e, asked'.rows) /\ OfItsPage(e) /\ TrueBadge(e, asked')
    BY DEF PagesAreRight
  <2>1. PICK j \in 1..Len(pages) : pages'[i] = d[j]
    BY <1>3, <1>4, <1>5, <1>6
  <2> DEFINE old == Entry(pages[j])
             new == Entry(pages'[i])
  <2>2. AddsUp(old, asked.rows) /\ OfItsPage(old) /\ TrueBadge(old, asked)
    BY <1>6 DEF ContentIInv, PagesAreRight
  <2>3. /\ old.id = Id(pages[j]) /\ old.key = Key(pages[j]) /\ old.edits = Total(pages[j])
        /\ old.change = pages[j].change /\ old.description = pages[j].description
        /\ new.id = Id(d[j]) /\ new.key = Key(d[j]) /\ new.edits = Total(d[j])
        /\ new.change = d[j].change /\ new.description = d[j].description
    BY <2>1, EntryFacts
  <2>4. /\ new.id = old.id /\ new.key = old.key /\ new.edits = old.edits
        /\ new.change = old.change /\ new.description \in {old.description, new.id}
    BY <1>4, <2>3 DEF SamePage
  <2> HIDE DEF old, new
  <2>5. AddsUp(new, asked.rows)
    BY <2>2, <2>4 DEF AddsUp
  <2>6. OfItsPage(new)
    BY <2>2, <2>4 DEF OfItsPage
  <2>7. TrueBadge(new, asked)
    BY <2>2, <2>4 DEF TrueBadge
  <2> QED BY <1>3, <2>5, <2>6, <2>7 DEF new
<1>9. SelectedComeFirst'
  <2> SUFFICES ASSUME ValidAnswer', NEW i \in DOMAIN pages', i <= a.keywords
               PROVE  /\ a.selected[i] + 1 \in DOMAIN candidates
                      /\ Id(pages'[i]) = Id(candidates[a.selected[i] + 1])
    BY <1>1, <1>3 DEF SelectedComeFirst
  <2>1. InRange(Len(d), a.selected) = a.selected /\ a.keywords <= Len(a.selected)
    BY <1>1, <1>3, <1>4 DEF ValidAnswer
  <2>2. i \in 1..Len(pages') /\ i >= 1 /\ i \in Int
    BY <1>5, <1>6
  <2>3. a.selected # <<>>
    <3>1. Len(a.selected) # 0
      BY <1>2, <2>1, <2>2
    <3> QED BY <3>1
  <2> DEFINE j == a.selected[i] + 1
  <2>4. j \in 1..Len(d) /\ pages'[i] = d[j]
    BY <1>5, <2>1, <2>2, <2>3
  <2> HIDE DEF j
  <2>5. j \in 1..Len(pages) /\ Id(pages'[i]) = Id(pages[j])
    BY <1>3, <1>4, <2>4 DEF SamePage
  <2> QED BY <1>3, <1>6, <2>5 DEF j
<1>10. DOMAIN post' = {} /\ DOMAIN <<>> = {}
  BY <1>3
<1> QED BY <1>3, <1>7, <1>8, <1>9, <1>10
        DEF ContentIInv, EditionsAddUp, TextsOfTheirPages, BadgesAreTrue, NotYet

\* What is known does not change while nothing is done about it.
LEMMA RightStays ==
  ASSUME ContentIInv, UNCHANGED <<pages, answer, asked, candidates>>
  PROVE  /\ PagesAreRight'
         /\ ValidAnswer' = ValidAnswer
         /\ (stage \in {"built", "saved", "published"} => SelectedComeFirst')
BY DEF ContentIInv, PagesAreRight, ValidAnswer, SelectedComeFirst

\* Without an answer there is no report.
LEMMA RaiseStep == ContentIInv /\ Raises => ContentIInv'
<1> SUFFICES ASSUME ContentIInv, Raises PROVE ContentIInv'
  OBVIOUS
<1>1. /\ stage \in {"asking", "built"} /\ stage' = "raised" /\ post = <<>>
      /\ UNCHANGED <<pages, news, answer, asked, candidates, post>>
  BY DEF Raises, ContentIInv, NotYet
<1>2. ContentTypeOK'
  BY <1>1 DEF ContentIInv, ContentTypeOK
<1>3. DOMAIN post' = {} /\ DOMAIN <<>> = {}
  BY <1>1
<1> QED BY <1>1, <1>2, <1>3, RightStays
        DEF ContentIInv, EditionsAddUp, TextsOfTheirPages, BadgesAreTrue, NotYet, SelectedComeFirst

\* The news are about the pages that they come with.
LEMMA NewsStep == ContentIInv /\ FetchNews => ContentIInv'
<1> SUFFICES ASSUME ContentIInv, FetchNews PROVE ContentIInv'
  OBVIOUS
<1>1. /\ stage = "built" /\ stage' = "saved" /\ post = <<>>
      /\ news' = News(pages, answer)
      /\ UNCHANGED <<pages, answer, asked, candidates, post>>
  BY DEF FetchNews, ContentIInv, NotYet
<1>2. /\ pages \in Seq(Page) /\ candidates \in Seq(Page) /\ answer \in Answers \cup {NoJson}
      /\ NewsPages \in Nat
  BY ReportContentAssumption DEF ContentIInv, ContentTypeOK
<1>3. answer.selected \in Seq(Int) /\ answer.keywords \in Nat
  BY <1>2, AnswerType
<1> DEFINE first == AtMost(pages, NewsPages)
           n == Len(first)
<1>4. /\ n \in Nat /\ n <= NewsPages /\ DOMAIN first = 1..n
      /\ \A i \in 1..n : i \in 1..Len(pages)
  <2>1. first \in Seq(Page) /\ n <= NewsPages /\ DOMAIN first = 1..n
    BY <1>2, AtMostFacts
  <2>2. \A i \in 1..n : i \in 1..Len(pages)
    BY <1>2, AtMostFacts
  <2> QED BY <2>1, <2>2
<1>5. DOMAIN pages = 1..Len(pages) /\ \A i \in 1..Len(pages) : pages[i] \in Page
  BY <1>2
<1>6. \A j \in DOMAIN candidates : candidates[j] \in Page
  BY <1>2
<1> HIDE DEF first, n
<1>7. news' = [i \in 1..n |->
        IF i > answer.keywords THEN Id(pages[i])
        ELSE IF i \in DOMAIN answer.selected /\ answer.selected[i] + 1 \in DOMAIN candidates
        THEN Id(candidates[answer.selected[i] + 1])
        ELSE Nothing]
  BY <1>1, <1>4 DEF News, first
<1>8. news' \in Seq(Ids \cup {Nothing}) /\ Len(news') <= NewsPages
  <2>1. ASSUME NEW i \in 1..n PROVE news'[i] \in Ids \cup {Nothing}
    <3>1. pages[i] \in Page
      BY <1>4, <1>5
    <3>2. Id(pages[i]) \in Ids
      BY <3>1, KeyTypes
    <3>3. \A j \in DOMAIN candidates : Id(candidates[j]) \in Ids
      BY <1>6, KeyTypes
    <3> QED BY <1>7, <3>2, <3>3
  <2>2. news' = [i \in 1..n |-> news'[i]]
    BY <1>7
  <2> QED BY <1>4, <2>1, <2>2
<1>9. ContentTypeOK'
  BY <1>1, <1>8 DEF ContentIInv, ContentTypeOK
<1>10. ASSUME ValidAnswer PROVE news' = [i \in 1..n |-> Id(pages[i])]
  <2>1. answer.keywords <= Len(answer.selected)
    BY <1>10 DEF ValidAnswer
  <2>2. ASSUME NEW i \in 1..n PROVE news'[i] = Id(pages[i])
    <3>1. CASE i > answer.keywords
      BY <1>7, <3>1
    <3>2. CASE ~ (i > answer.keywords)
      <4>1. i <= answer.keywords /\ i \in DOMAIN pages
        BY <1>3, <1>4, <1>5, <3>2
      <4>2. i \in DOMAIN answer.selected
        BY <1>3, <2>1, <4>1
      <4>3. /\ answer.selected[i] + 1 \in DOMAIN candidates
            /\ Id(pages[i]) = Id(candidates[answer.selected[i] + 1])
        BY <1>1, <1>10, <4>1 DEF ContentIInv, SelectedComeFirst
      <4> QED BY <1>7, <3>2, <4>2, <4>3
    <3> QED BY <3>1, <3>2
  <2>3. news' = [i \in 1..n |-> news'[i]]
    BY <1>7
  <2> QED BY <2>2, <2>3
<1>11. TextsOfTheirPages'
  <2>1. DOMAIN post' = {}
    BY <1>1
  <2>2. ValidAnswer' => news' = [i \in DOMAIN AtMost(pages', NewsPages) |-> Id(pages'[i])]
    BY <1>1, <1>4, <1>10, RightStays DEF first
  <2> QED BY <2>1, <2>2 DEF TextsOfTheirPages
<1>12. DOMAIN post' = {}
  BY <1>1
<1> QED BY <1>1, <1>9, <1>11, <1>12, RightStays
        DEF ContentIInv, EditionsAddUp, BadgesAreTrue, NotYet

\* What is published is what is right of the pages.
LEMMA PublishStep == ContentIInv /\ Publish => ContentIInv'
<1> SUFFICES ASSUME ContentIInv, Publish PROVE ContentIInv'
  OBVIOUS
<1>1. /\ stage = "saved" /\ stage' = "published"
      /\ post' = [i \in DOMAIN AtMost(pages, Shown) |-> Entry(pages[i])]
      /\ UNCHANGED <<pages, news, answer, asked, candidates>>
  BY DEF Publish
<1>2. /\ pages \in Seq(Page) /\ Len(pages) <= Shown /\ Shown \in Nat /\ Len(pages) \in Nat
  BY <1>1, ReportContentAssumption DEF ContentIInv, ContentTypeOK
<1> DEFINE n == Len(pages)
<1>3. DOMAIN pages = 1..n /\ DOMAIN AtMost(pages, Shown) = 1..n
  <2>1. /\ DOMAIN AtMost(pages, Shown) = 1..Len(AtMost(pages, Shown))
        /\ Len(AtMost(pages, Shown)) = (IF Len(pages) < Shown THEN Len(pages) ELSE Shown)
    BY <1>2, AtMostFacts
  <2>2. Len(AtMost(pages, Shown)) = n
    BY <1>2, <2>1
  <2> QED BY <1>2, <2>1, <2>2
<1>4. post' = [i \in 1..n |-> Entry(pages[i])]
  BY <1>1, <1>3
<1>5. DOMAIN post' = 1..n /\ \A i \in 1..n : post'[i] = Entry(pages[i])
  BY <1>4
<1> DEFINE T == [id : Ids, key : TopicKeys, edits : Nat, change : Seq(Int), description : Texts]
<1>6. \A i \in 1..n : post'[i] \in T
  <2> TAKE i \in 1..n
  <2>1. pages[i] \in Page
    BY <1>2
  <2>2. Total(pages[i]) \in Nat /\ Id(pages[i]) \in Ids /\ Key(pages[i]) \in TopicKeys
    BY <2>1, KeyTypes, TotalType
  <2>3. Entry(pages[i]) \in T
    BY <2>1, <2>2 DEF Entry, Page
  <2> QED BY <1>5, <2>3
<1>7. post' \in Seq(T) /\ Len(post') = n
  <2>1. post' = [i \in 1..n |-> post'[i]]
    BY <1>4
  <2> HIDE DEF T
  <2> QED BY <1>2, <1>6, <2>1
<1>8. ContentTypeOK'
  BY <1>1, <1>2, <1>7 DEF ContentIInv, ContentTypeOK
<1>9. \A i \in DOMAIN post' :
        AddsUp(post'[i], asked'.rows) /\ OfItsPage(post'[i]) /\ TrueBadge(post'[i], asked')
  BY <1>1, <1>3, <1>5 DEF ContentIInv, PagesAreRight
<1>10. EditionsAddUp' /\ BadgesAreTrue'
  BY <1>9 DEF EditionsAddUp, BadgesAreTrue
<1>11. TextsOfTheirPages'
  BY <1>1, <1>9, RightStays DEF ContentIInv, TextsOfTheirPages
<1> QED BY <1>1, <1>8, <1>10, <1>11, RightStays DEF ContentIInv, NotYet

\* Every step keeps the invariant.
LEMMA ContentNextIInv == ContentIInv /\ [ContentNext]_contentVars => ContentIInv'
<1> SUFFICES ASSUME ContentIInv, [ContentNext]_contentVars PROVE ContentIInv'
  OBVIOUS
<1>1. CASE UNCHANGED contentVars
  <2>1. /\ UNCHANGED <<stage, pages, news, answer, asked, candidates, post>>
    BY <1>1 DEF contentVars
  <2>2. ContentTypeOK'
    BY <2>1 DEF ContentIInv, ContentTypeOK
  <2>3. EditionsAddUp' /\ TextsOfTheirPages' /\ BadgesAreTrue' /\ NotYet' /\ SelectedComeFirst'
    BY <2>1 DEF ContentIInv, EditionsAddUp, TextsOfTheirPages, ValidAnswer, BadgesAreTrue, NotYet,
                SelectedComeFirst
  <2> QED BY <2>1, <2>2, <2>3, RightStays DEF ContentIInv
<1>2. CASE Done
  BY <1>1, <1>2 DEF Done
<1> QED BY <1>1, <1>2, FetchStep, AskStep, RaiseStep, NewsStep, PublishStep DEF ContentNext

-----------------------------------------------------------------------------
(* The theorems. *)

\* From fetch_report_data on, the report is right about each of its pages, in whatever order
\* and however many build_report leaves of them, and the post is right as the report is.
THEOREM ContentInductive == ContentSpec => []ContentIInv
  BY ContentInitIInv, ContentNextIInv, PTL DEF ContentSpec

\* The report has at most Shown pages and the news are of at most NewsPages, whatever Claude
\* answers; the post has a block for each page.
THEOREM ContentTypeCorrect == ContentSpec => []ContentTypeOK
<1>1. ContentIInv => ContentTypeOK
  BY DEF ContentIInv
<1> QED BY <1>1, ContentInductive, PTL

\* For any number of rows in any order, and any part of their Q-ids known: the total that is
\* published for a topic is the sum of all its rows, as _deduplicate_by_qid loses none and
\* counts none twice.
THEOREM EditsAreOfTheTopic == ContentSpec => []EditionsAddUp
<1>1. ContentIInv => EditionsAddUp
  BY DEF ContentIInv
<1> QED BY <1>1, ContentInductive, PTL

\* For any answer of Claude's: a description stands with the page that it is about, and if
\* the indices are those of pages, so do the news.
THEOREM TextsStayWithPages == ContentSpec => []TextsOfTheirPages
<1>1. ContentIInv => TextsOfTheirPages
  BY DEF ContentIInv
<1> QED BY <1>1, ContentInductive, PTL

\* For any two days: a badge says how the topic moved among those of its day, although the
\* rank was looked up by the title alone and the page has another place in the post.
THEOREM BadgesTell == ContentSpec => []BadgesAreTrue
<1>1. ContentIInv => BadgesAreTrue
  BY DEF ContentIInv
<1> QED BY <1>1, ContentInductive, PTL

(***************************************************************************)
(* ResourceMonitor: the baselines and the alerts.                          *)
(***************************************************************************)

OldWeight == AlphaDen - AlphaNum

\* What is assumed of the smoothing factor.
LEMMA Alpha ==
  /\ OldWeight \in Nat /\ OldWeight = AlphaDen - AlphaNum /\ OldWeight <= AlphaDen
  /\ AlphaNum \in Nat /\ AlphaDen \in Nat \ {0}
  BY ResourceMonitorAssumption DEF OldWeight

\* With one sample more, the older ones weigh less by the same factor.
LEMMA WeightFacts ==
  ASSUME NEW n \in Nat \ {0}, NEW i \in 1..n
  PROVE  /\ Weight(i, n) \in Int
         /\ Weight(i, n + 1) = OldWeight * Weight(i, n)
         /\ Weight(n + 1, n + 1) = AlphaNum * Power(AlphaDen, n - 1)
         /\ Weight(1, 1) = 1
<1>1. Power(OldWeight, 0) = 1 /\ Power(AlphaDen, n - 1) \in Nat
  BY Alpha, PowerFacts
<1>2. Weight(1, 1) = 1
  BY <1>1 DEF Weight, OldWeight
<1>3. Weight(n + 1, n + 1) = AlphaNum * Power(AlphaDen, n - 1)
  <2>1. n + 1 # 1 /\ (n + 1) - (n + 1) = 0 /\ (n + 1) - 2 = n - 1
    OBVIOUS
  <2>2. Weight(n + 1, n + 1) = AlphaNum * Power(OldWeight, 0) * Power(AlphaDen, n - 1)
    BY <2>1 DEF Weight, OldWeight
  <2> QED BY <2>2, <1>1, Alpha
<1>4. CASE i = 1
  <2>1. Power(OldWeight, n - 1) \in Nat /\ Power(OldWeight, (n - 1) + 1) = OldWeight * Power(OldWeight, n - 1)
    BY Alpha, PowerFacts
  <2>2. (n - 1) + 1 = (n + 1) - 1
    OBVIOUS
  <2> QED BY <1>2, <1>3, <1>4, <2>1, <2>2 DEF Weight, OldWeight
<1>5. CASE i # 1
  <2>1. n - i \in Nat /\ i - 2 \in Nat /\ (n + 1) - i = (n - i) + 1
    BY <1>5
  <2>2. Power(OldWeight, n - i) \in Nat /\ Power(OldWeight, (n - i) + 1) = OldWeight * Power(OldWeight, n - i)
        /\ Power(AlphaDen, i - 2) \in Nat
    BY <2>1, Alpha, PowerFacts
  <2>3. Weight(i, n) = AlphaNum * Power(OldWeight, n - i) * Power(AlphaDen, i - 2)
    BY <1>5 DEF Weight, OldWeight
  <2>4. Weight(i, n + 1) = AlphaNum * (OldWeight * Power(OldWeight, n - i)) * Power(AlphaDen, i - 2)
    BY <1>5, <2>1, <2>2 DEF Weight, OldWeight
  <2>5. \A a, b, x, y \in Nat : a * x * y \in Int /\ a * (b * x) * y = b * (a * x * y)
    OBVIOUS
  <2> QED BY <1>2, <1>3, <2>2, <2>3, <2>4, <2>5, Alpha
<1> QED BY <1>4, <1>5

\* The mean of one sample more.
LEMMA MeanStep ==
  ASSUME NEW n \in Nat \ {0}, NEW s, \A i \in 1..(n + 1) : s[i] \in Int
  PROVE  /\ ReferenceMean(s, 1) = s[1]
         /\ ReferenceMean(s, n) \in Int
         /\ ReferenceMean(s, n + 1) =
              OldWeight * ReferenceMean(s, n) + AlphaNum * Power(AlphaDen, n - 1) * s[n + 1]
<1> DEFINE g(k) == [i \in 1..k |-> Weight(i, k) * s[i]]
<1>1. ASSUME NEW k \in 1..(n + 1) PROVE \A i \in 1..k : g(k)[i] \in Int
  <2> TAKE i \in 1..k
  <2>1. Weight(i, k) \in Int /\ s[i] \in Int
    BY WeightFacts
  <2> QED BY <2>1
<1>2. ReferenceMean(s, 1) = s[1]
  <2>1. ReferenceMean(s, 1) = SumTo(g(1), 1)
    BY DEF ReferenceMean
  <2>2. 1 \in 1..(n + 1) /\ \A i \in 1..1 : g(1)[i] \in Int
    BY <1>1
  <2>3. g(1)[1] = s[1]
    <3>1. Weight(1, 1) = 1 /\ s[1] \in Int
      BY <2>2, WeightFacts
    <3> QED BY <3>1
  <2> HIDE DEF g
  <2>4. SumTo(g(1), 1) = SumTo(g(1), 1 - 1) + g(1)[1] /\ SumTo(g(1), 0) = 0
    BY <2>2, SumFacts
  <2> QED BY <2>1, <2>2, <2>3, <2>4
<1>3. ReferenceMean(s, n) \in Int
  <2>1. ReferenceMean(s, n) = SumTo(g(n), n) /\ \A i \in 1..n : g(n)[i] \in Int
    BY <1>1 DEF ReferenceMean
  <2> HIDE DEF g
  <2> QED BY <2>1, SumFacts
<1>4. ReferenceMean(s, n + 1) = SumTo(g(n + 1), n) + g(n + 1)[n + 1]
  <2>1. ReferenceMean(s, n + 1) = SumTo(g(n + 1), n + 1)
    BY DEF ReferenceMean
  <2>2. \A i \in 1..(n + 1) : g(n + 1)[i] \in Int
    BY <1>1
  <2>3. n + 1 \in Nat /\ n + 1 # 0 /\ (n + 1) - 1 = n
    OBVIOUS
  <2> HIDE DEF g
  <2> QED BY <2>1, <2>2, <2>3, SumFacts
<1>5. SumTo(g(n + 1), n) = OldWeight * SumTo(g(n), n)
  <2>1. ASSUME NEW i \in 1..n PROVE g(n)[i] \in Int /\ g(n + 1)[i] = OldWeight * g(n)[i]
    <3>1. Weight(i, n) \in Int /\ Weight(i, n + 1) = OldWeight * Weight(i, n)
      BY WeightFacts
    <3>2. s[i] \in Int /\ i \in 1..(n + 1)
      OBVIOUS
    <3>3. \A a, x, y \in Int : (a * x) * y = a * (x * y)
      OBVIOUS
    <3>4. g(n)[i] = Weight(i, n) * s[i] /\ g(n + 1)[i] = Weight(i, n + 1) * s[i]
      BY <3>2
    <3> QED BY <3>1, <3>2, <3>3, <3>4, Alpha
  <2> HIDE DEF g
  <2> QED BY <2>1, ScaledSum, Alpha
<1>6. g(n + 1)[n + 1] = AlphaNum * Power(AlphaDen, n - 1) * s[n + 1]
  <2>1. n \in 1..n
    OBVIOUS
  <2>2. Weight(n + 1, n + 1) = AlphaNum * Power(AlphaDen, n - 1)
    BY <2>1, WeightFacts
  <2> QED BY <2>2
<1> QED BY <1>2, <1>3, <1>4, <1>5, <1>6 DEF ReferenceMean

\* The distances of samples are numbers.
LEMMA DistanceType ==
  ASSUME NEW n \in Nat \ {0}, NEW s, \A i \in 1..n : s[i] \in Int
  PROVE  Distance(s, n) \in Int
<1>1. CASE n = 1
  BY <1>1 DEF Distance
<1>2. CASE n # 1
  <2> DEFINE m == n - 1
  <2>1. m \in Nat \ {0} /\ n = m + 1 /\ n - 2 \in Nat
    BY <1>2
  <2> HIDE DEF m
  <2>2. ReferenceMean(s, m) \in Int
    BY <2>1, MeanStep
  <2>3. Power(AlphaDen, n - 2) \in Nat
    BY <2>1, PowerFacts, Alpha
  <2>4. s[n] \in Int
    OBVIOUS
  <2> QED BY <1>2, <2>2, <2>3, <2>4 DEF Distance, m
<1> QED BY <1>1, <1>2

\* The sum of squares of one sample more.
LEMMA SquaresStep ==
  ASSUME NEW n \in Nat \ {0}, NEW s, \A i \in 1..(n + 1) : s[i] \in Int
  PROVE  /\ ReferenceSum(s, 1) = 0
         /\ ReferenceSum(s, n) \in Int
         /\ ReferenceSum(s, n + 1) =
              AlphaDen * AlphaDen * ReferenceSum(s, n)
                + OldWeight * Distance(s, n + 1) * Distance(s, n + 1)
<1> DEFINE g(k) == [i \in 1..k |-> OldWeight * Distance(s, i) * Distance(s, i)
                                     * Power(AlphaDen, 2 * (k - i))]
<1>0. ASSUME NEW k \in Nat PROVE ReferenceSum(s, k) = SumTo(g(k), k)
  BY DEF ReferenceSum, OldWeight
<1>1. ASSUME NEW k \in 1..(n + 1) PROVE \A i \in 1..k : g(k)[i] \in Int
  <2> TAKE i \in 1..k
  <2>1. Distance(s, i) \in Int
    BY DistanceType
  <2>2. 2 * (k - i) \in Nat
    OBVIOUS
  <2>3. Power(AlphaDen, 2 * (k - i)) \in Nat
    BY <2>2, PowerFacts, Alpha
  <2>4. \A a, x, y \in Int : a * x * x * y \in Int
    OBVIOUS
  <2> QED BY <2>1, <2>3, <2>4, Alpha
<1>2. ReferenceSum(s, 1) = 0
  <2>1. 1 \in 1..(n + 1) /\ \A i \in 1..1 : g(1)[i] \in Int
    BY <1>1
  <2>2. g(1)[1] = 0
    <3>1. Distance(s, 1) = 0 /\ 2 * (1 - 1) = 0
      BY DEF Distance
    <3>2. Power(AlphaDen, 0) = 1
      BY PowerFacts, Alpha
    <3> QED BY <3>1, <3>2, Alpha
  <2> HIDE DEF g
  <2>3. SumTo(g(1), 1) = SumTo(g(1), 1 - 1) + g(1)[1] /\ SumTo(g(1), 0) = 0
    BY <2>1, SumFacts
  <2> QED BY <1>0, <2>1, <2>2, <2>3
<1>3. ReferenceSum(s, n) \in Int
  <2>1. \A i \in 1..n : g(n)[i] \in Int
    BY <1>1
  <2> HIDE DEF g
  <2> QED BY <1>0, <2>1, SumFacts
<1>4. ReferenceSum(s, n + 1) = SumTo(g(n + 1), n) + g(n + 1)[n + 1]
  <2>1. n + 1 \in 1..(n + 1)
    OBVIOUS
  <2> HIDE DEF g
  <2>2. \A i \in 1..(n + 1) : g(n + 1)[i] \in Int
    BY <1>1, <2>1
  <2>3. n + 1 \in Nat /\ n + 1 # 0 /\ (n + 1) - 1 = n
    OBVIOUS
  <2> QED BY <1>0, <2>2, <2>3, SumFacts
<1>5. SumTo(g(n + 1), n) = (AlphaDen * AlphaDen) * SumTo(g(n), n)
  <2>1. ASSUME NEW i \in 1..n
        PROVE  g(n)[i] \in Int /\ g(n + 1)[i] = (AlphaDen * AlphaDen) * g(n)[i]
    <3>1. Distance(s, i) \in Int
      BY DistanceType
    <3> DEFINE k == 2 * (n - i)
    <3>2. k \in Nat /\ k + 1 \in Nat /\ 2 * ((n + 1) - i) = (k + 1) + 1 /\ i \in 1..(n + 1)
      OBVIOUS
    <3>3. g(n)[i] = OldWeight * Distance(s, i) * Distance(s, i) * Power(AlphaDen, k)
      OBVIOUS
    <3>4. g(n + 1)[i] = OldWeight * Distance(s, i) * Distance(s, i) * Power(AlphaDen, (k + 1) + 1)
      BY <3>2
    <3> HIDE DEF k, g
    <3>5. Power(AlphaDen, k) \in Nat /\ Power(AlphaDen, k + 1) = AlphaDen * Power(AlphaDen, k)
      BY <3>2, PowerFacts, Alpha
    <3>6. Power(AlphaDen, (k + 1) + 1) = AlphaDen * Power(AlphaDen, k + 1)
      BY <3>2, PowerFacts, Alpha
    <3>7. \A a, x, d, y \in Int : /\ a * x * x * (d * (d * y)) = (d * d) * (a * x * x * y)
                                  /\ a * x * x * y \in Int
      OBVIOUS
    <3> QED BY <3>1, <3>3, <3>4, <3>5, <3>6, <3>7, Alpha
  <2>2. AlphaDen * AlphaDen \in Int
    BY Alpha
  <2> HIDE DEF g
  <2> QED BY <2>1, <2>2, ScaledSum
<1>6. g(n + 1)[n + 1] = OldWeight * Distance(s, n + 1) * Distance(s, n + 1)
  <2>1. Distance(s, n + 1) \in Int
    BY DistanceType
  <2>2. 2 * ((n + 1) - (n + 1)) = 0 /\ Power(AlphaDen, 0) = 1
    BY PowerFacts, Alpha
  <2>3. g(n + 1)[n + 1] = OldWeight * Distance(s, n + 1) * Distance(s, n + 1) * 1
    BY <2>2
  <2>4. \A a, x \in Int : a * x * x * 1 = a * x * x
    OBVIOUS
  <2> QED BY <2>1, <2>3, <2>4, Alpha
<1> HIDE DEF g
<1> QED BY <1>0, <1>2, <1>3, <1>4, <1>5, <1>6

\* What the references say of the first samples depends on these only.
LEMMA SamePrefix ==
  ASSUME NEW n \in Nat, NEW s, NEW t, \A i \in 1..n : s[i] = t[i]
  PROVE  /\ ReferenceMean(s, n) = ReferenceMean(t, n)
         /\ ReferenceSum(s, n) = ReferenceSum(t, n)
<1>1. ASSUME NEW k \in Nat, k <= n PROVE ReferenceMean(s, k) = ReferenceMean(t, k)
  <2>1. [i \in 1..k |-> Weight(i, k) * s[i]] = [i \in 1..k |-> Weight(i, k) * t[i]]
    BY <1>1
  <2> QED BY <2>1 DEF ReferenceMean
<1>2. ASSUME NEW i \in 1..n PROVE Distance(s, i) = Distance(t, i)
  <2>1. i - 1 \in Nat /\ i - 1 <= n
    OBVIOUS
  <2>2. ReferenceMean(s, i - 1) = ReferenceMean(t, i - 1)
    BY <1>1, <2>1
  <2> QED BY <2>2 DEF Distance
<1>3. ReferenceSum(s, n) = ReferenceSum(t, n)
  BY <1>2 DEF ReferenceSum
<1> QED BY <1>1, <1>3

\* What a row should be after n samples.
Row(s, n) == [count |-> n, ema |-> ReferenceMean(s, n), m2 |-> ReferenceSum(s, n)]

\* How far the newest sample is from the mean that it is in.
LEMMA NewDistance ==
  ASSUME NEW n \in Nat \ {0}, NEW s, \A i \in 1..(n + 1) : s[i] \in Int
  PROVE  /\ Deviation(Row(s, n), s[n + 1]) = Distance(s, n + 1)
         /\ Deviation(Row(s, n + 1), s[n + 1]) = OldWeight * Distance(s, n + 1)
         /\ Distance(s, n + 1) \in Int
<1> DEFINE p == Power(AlphaDen, n - 1)
           mean == ReferenceMean(s, n)
           v == s[n + 1]
           d == Distance(s, n + 1)
<1>1. p \in Nat /\ Power(AlphaDen, n) = AlphaDen * p
  <2>1. n - 1 \in Nat /\ (n - 1) + 1 = n
    OBVIOUS
  <2> QED BY <2>1, PowerFacts, Alpha
<1>2. mean \in Int /\ v \in Int
  BY MeanStep
<1>3. d = v * p - mean
  <2>1. n + 1 # 1 /\ (n + 1) - 2 = n - 1 /\ (n + 1) - 1 = n
    OBVIOUS
  <2> QED BY <2>1 DEF Distance
<1>4. ReferenceMean(s, n + 1) = OldWeight * mean + AlphaNum * p * v
  BY MeanStep
<1>5. Deviation(Row(s, n), v) = v * p - mean
  BY DEF Deviation, Row
<1>6. Deviation(Row(s, n + 1), v) = v * (AlphaDen * p) - (OldWeight * mean + AlphaNum * p * v)
  <2>1. (n + 1) - 1 = n
    OBVIOUS
  <2> QED BY <2>1, <1>1, <1>4 DEF Deviation, Row
<1>7. ASSUME NEW x \in Int, NEW y \in Int, NEW m \in Int, NEW r \in Int, NEW a \in Int
      PROVE  x * ((r + a) * y) - (r * m + a * y * x) = r * (x * y - m)
  OBVIOUS
<1>8. AlphaDen = OldWeight + AlphaNum
  BY Alpha
<1> HIDE DEF p, mean, v, d
<1>9. v * (AlphaDen * p) - (OldWeight * mean + AlphaNum * p * v) = OldWeight * (v * p - mean)
  BY <1>1, <1>2, <1>7, <1>8, Alpha
<1> QED BY <1>1, <1>2, <1>3, <1>5, <1>6, <1>9 DEF v, d

\* A row that is right of some samples is right of one more.
LEMMA UpdateIsRight ==
  ASSUME NEW n \in Nat \ {0}, NEW s, \A i \in 1..(n + 1) : s[i] \in Int
  PROVE  Update(Row(s, n), s[n + 1]) = Row(s, n + 1)
<1> DEFINE d == Distance(s, n + 1)
           v == s[n + 1]
           mean == ReferenceMean(s, n)
           p == Power(AlphaDen, n - 1)
           ema == AlphaDen * mean + AlphaNum * d
<1>1. Deviation(Row(s, n), v) = d /\ d \in Int /\ Deviation(Row(s, n + 1), v) = OldWeight * d
  BY NewDistance
<1>2. p \in Nat
  BY PowerFacts, Alpha
<1>3. mean \in Int /\ v \in Int /\ ReferenceSum(s, n) \in Int
  BY MeanStep, SquaresStep
<1>4. d = v * p - mean
  <2>1. n + 1 # 1 /\ (n + 1) - 2 = n - 1 /\ (n + 1) - 1 = n
    OBVIOUS
  <2> QED BY <2>1 DEF Distance
<1>5. ema = ReferenceMean(s, n + 1)
  <2>1. ReferenceMean(s, n + 1) = OldWeight * mean + AlphaNum * p * v
    BY MeanStep
  <2>2. ASSUME NEW x \in Int, NEW y \in Int, NEW m \in Int, NEW r \in Int, NEW a \in Int
        PROVE  (r + a) * m + a * (x * y - m) = r * m + a * y * x
    OBVIOUS
  <2>3. AlphaDen = OldWeight + AlphaNum
    BY Alpha
  <2> HIDE DEF p, mean, v, d
  <2> QED BY <2>1, <2>2, <2>3, <1>2, <1>3, <1>4, Alpha
<1>6. v * Power(AlphaDen, n) - ema = OldWeight * d
  <2>1. (n + 1) - 1 = n
    OBVIOUS
  <2>2. Deviation(Row(s, n + 1), v) = v * Power(AlphaDen, n) - ReferenceMean(s, n + 1)
    BY <2>1 DEF Deviation, Row
  <2> QED BY <2>2, <1>1, <1>5
<1>7. AlphaDen * AlphaDen * ReferenceSum(s, n) + d * (OldWeight * d) = ReferenceSum(s, n + 1)
  <2>1. \A a, x \in Int : x * (a * x) = a * x * x
    OBVIOUS
  <2>2. ReferenceSum(s, n + 1) = AlphaDen * AlphaDen * ReferenceSum(s, n) + OldWeight * d * d
    BY SquaresStep
  <2> HIDE DEF d
  <2> QED BY <2>1, <2>2, <1>1, Alpha
<1>8. Update(Row(s, n), v) =
        [count |-> n + 1, ema |-> ema,
         m2 |-> AlphaDen * AlphaDen * ReferenceSum(s, n) + d * (v * Power(AlphaDen, n) - ema)]
  <2>1. /\ Row(s, n).count = n /\ n # 0 /\ Row(s, n).ema = mean
        /\ Row(s, n).m2 = ReferenceSum(s, n)
    BY DEF Row
  <2> QED BY <2>1, <1>1 DEF Update
<1> QED BY <1>5, <1>6, <1>7, <1>8 DEF Row

\* The references of the first sample.
LEMMA FirstSample ==
  ASSUME NEW s, s[1] \in Int
  PROVE  ReferenceMean(s, 1) = s[1] /\ ReferenceSum(s, 1) = 0
<1> DEFINE n == 1
           twice == [i \in 1..2 |-> s[1]]
<1>1. n \in Nat \ {0} /\ \A i \in 1..(n + 1) : twice[i] \in Int
  OBVIOUS
<1>2. twice[1] = s[1] /\ \A i \in 1..n : s[i] = twice[i]
  OBVIOUS
<1> HIDE DEF twice
<1>3. \A i \in 1..1 : s[i] = twice[i]
  BY <1>2
<1>4. ReferenceMean(s, 1) = ReferenceMean(twice, 1) /\ ReferenceSum(s, 1) = ReferenceSum(twice, 1)
  BY <1>3, SamePrefix
<1> HIDE DEF n
<1>5. ReferenceMean(twice, 1) = twice[1] /\ ReferenceSum(twice, 1) = 0
  BY <1>1, MeanStep, SquaresStep
<1> QED BY <1>2, <1>4, <1>5

-----------------------------------------------------------------------------
(* The types of what a step makes. *)

\* The samples of a cycle: a container's metrics, percentages or I/O since the last reading.
Sample == [key : KeySet, value : Nat]

\* What the constants are.
LEMMA Lists ==
  /\ Len(Targets) \in Nat /\ DOMAIN Targets = 1..Len(Targets)
  /\ \A i \in 1..Len(Targets) : Targets[i] \in TargetSet
  /\ Len(Metrics) \in Nat /\ DOMAIN Metrics = 1..Len(Metrics)
  /\ \A j \in 1..Len(Metrics) : Metrics[j] \in MetricSet
<1>1. Targets \in Seq(TargetSet) /\ Metrics \in Seq({"cpu_pct", "mem_pct", BlockIo})
  BY ResourceMonitorAssumption
<1>2. /\ Len(Targets) \in Nat /\ DOMAIN Targets = 1..Len(Targets)
      /\ \A i \in 1..Len(Targets) : Targets[i] \in TargetSet
      /\ Len(Metrics) \in Nat /\ DOMAIN Metrics = 1..Len(Metrics)
  BY <1>1, LenProperties, ElementOfSeq
<1>3. \A j \in 1..Len(Metrics) : Metrics[j] \in MetricSet
  BY <1>2 DEF MetricSet, ToSet
<1> QED BY <1>2, <1>3

\* What is reported of the block I/O is not negative.
LEMMA DeltaType ==
  ASSUME MonitorTypeOK, NEW t \in TargetSet PROVE Delta(t) \in Nat
<1>1. total[t] \in Nat /\ prev[t] \in Nat \cup {Never}
  BY DEF MonitorTypeOK
<1> QED BY <1>1 DEF Delta, Never

\* The samples of a container are samples.
LEMMA SamplesOfType ==
  ASSUME MonitorTypeOK, NEW t \in TargetSet, NEW got,
         NEW gauge \in [TargetSet -> [MetricSet \ {BlockIo} -> Values]]
  PROVE  SamplesOf(t, got, gauge) \in Seq(Sample)
<1> DEFINE f == [j \in DOMAIN Metrics |->
                  [key |-> <<t, Metrics[j]>>,
                   value |-> IF Metrics[j] = BlockIo THEN Delta(t) ELSE gauge[t][Metrics[j]]]]
<1>1. ASSUME NEW j \in DOMAIN Metrics PROVE f[j] \in Sample
  <2>1. Metrics[j] \in MetricSet
    BY Lists
  <2>2. <<t, Metrics[j]>> \in KeySet
    BY <2>1 DEF KeySet
  <2>3. (IF Metrics[j] = BlockIo THEN Delta(t) ELSE gauge[t][Metrics[j]]) \in Nat
    <3>1. CASE Metrics[j] = BlockIo
      BY <3>1, DeltaType
    <3>2. CASE Metrics[j] # BlockIo
      <4>1. gauge[t][Metrics[j]] \in Values
        BY <2>1, <3>2
      <4> QED BY <3>2, <4>1, ResourceMonitorAssumption
    <3> QED BY <3>1, <3>2
  <2> QED BY <2>2, <2>3 DEF Sample
<1>2. f \in Seq(Sample)
  <2>1. f \in [1..Len(Metrics) -> Sample]
    BY <1>1, Lists
  <2> HIDE DEF f
  <2> QED BY <2>1, Lists, IsASeq
<1>3. <<>> \in Seq(Sample)
  BY EmptySeq
<1> QED BY <1>2, <1>3 DEF SamplesOf

\* The samples of all containers follow each other.
LEMMA SamplesType ==
  ASSUME MonitorTypeOK, NEW got, NEW gauge \in [TargetSet -> [MetricSet \ {BlockIo} -> Values]]
  PROVE  Samples(got, gauge) \in Seq(Sample)
<1> DEFINE n == Len(Targets)
           V == Seq(Sample)
           of(i) == SamplesOf(Targets[i], got, gauge)
           step == [i \in 1..n |-> [x \in V |-> x \o of(i)]]
           Is(upTo) == upTo = [i \in 0..n |-> IF i = 0 THEN <<>> ELSE upTo[i - 1] \o of(i)]
           chosen == CHOOSE upTo : Is(upTo)
<1>1. n \in Nat /\ \A i \in 1..n : of(i) \in V
  BY Lists, SamplesOfType
<1>2. Samples(got, gauge) = chosen[n]
  BY DEF Samples
<1> HIDE DEF of
<1>3. <<>> \in V /\ \A i \in 1..n : \A x \in V : x \o of(i) \in V
  BY <1>1, EmptySeq, ConcatProperties
<1> HIDE DEF V
<1>4. step \in [1..n -> [V -> V]] /\ \A i \in 1..n : \A x \in V : step[i][x] = x \o of(i)
  BY <1>3
<1> HIDE DEF step, n, chosen
<1>5. PICK upTo : Unfolds(upTo, n, <<>>, step) /\ upTo \in [0..n -> V]
  BY <1>1, <1>3, <1>4, Recursion
<1>6. /\ \A i \in 0..n : i # 0 => i \in 1..n /\ i - 1 \in 0..n
      /\ \A i \in 1..n : i # 0 /\ i \in 0..n
      /\ 0 \in 0..n /\ n \in 0..n
  BY <1>1
<1>7. Is(upTo)
  <2>1. \A i \in 0..n : i # 0 => step[i][upTo[i - 1]] = upTo[i - 1] \o of(i)
    BY <1>4, <1>5, <1>6
  <2> QED BY <1>5, <2>1 DEF Unfolds
<1>8. Is(chosen)
  BY <1>7 DEF chosen
<1>9. /\ chosen[0] \in V
      /\ \A i \in 1..n : chosen[i - 1] \in V => chosen[i] \in V
  BY <1>3, <1>6, <1>8
<1>10. \A i \in 0..n : chosen[i] \in V
  BY <1>1, <1>9, StaysIn
<1> QED BY <1>2, <1>6, <1>10 DEF V

\* There is always an hour.
LEMMA HourType == ASSUME now \in Nat PROVE Hour \in Hours
<1>1. CyclesPerHour \in Nat \ {0} /\ HoursPerDay \in Nat \ {0}
  BY ResourceMonitorAssumption
<1>2. now \div CyclesPerHour \in Nat
  BY <1>1
<1>3. \A x \in Nat : x % HoursPerDay \in 0..(HoursPerDay - 1)
  BY <1>1
<1> QED BY <1>2, <1>3 DEF Hour, Hours

Record == [count : Nat, ema : Nat, m2 : Nat]

\* A record and a value make a record: the mean stays between its samples, and the two
\* distances that are multiplied have the same sign.
LEMMA UpdateType ==
  ASSUME NEW r \in Record, NEW v \in Nat PROVE Update(r, v) \in Record
<1>1. CASE r.count = 0
  BY <1>1 DEF Update, Record
<1>2. CASE r.count # 0
  <2> DEFINE p == Power(AlphaDen, r.count - 1)
             d == v * p - r.ema
             ema == AlphaDen * r.ema + AlphaNum * d
             d2 == v * (AlphaDen * p) - ema
  <2>1. r.count - 1 \in Nat /\ (r.count - 1) + 1 = r.count /\ r.count + 1 \in Nat
    BY <1>2 DEF Record
  <2>2. p \in Nat /\ Power(AlphaDen, r.count) = AlphaDen * p
    BY <2>1, PowerFacts, Alpha
  <2>3. r.ema \in Nat /\ r.m2 \in Nat
    BY DEF Record
  <2>4. Update(r, v) = [count |-> r.count + 1, ema |-> ema,
                        m2 |-> AlphaDen * AlphaDen * r.m2 + d * d2]
    BY <1>2, <2>2 DEF Update, Deviation
  <2> HIDE DEF p
  <2>5. v * p \in Nat /\ d \in Int
    BY <2>2, <2>3
  <2>6. ema = OldWeight * r.ema + AlphaNum * (v * p) /\ ema \in Nat
    <3>1. ASSUME NEW x \in Nat, NEW m \in Nat, NEW c \in Nat, NEW a \in Nat
          PROVE  /\ (c + a) * m + a * (x - m) = c * m + a * x
                 /\ c * m + a * x \in Nat
      OBVIOUS
    <3>2. AlphaDen = OldWeight + AlphaNum
      BY Alpha
    <3> QED BY <2>3, <2>5, <3>1, <3>2, Alpha
  <2>7. d2 = OldWeight * d
    <3>1. ASSUME NEW x \in Nat, NEW y \in Nat, NEW m \in Nat, NEW c \in Nat, NEW a \in Nat
          PROVE  x * ((c + a) * y) - (c * m + a * (x * y)) = c * (x * y - m)
      OBVIOUS
    <3>2. AlphaDen = OldWeight + AlphaNum
      BY Alpha
    <3> HIDE DEF ema
    <3> QED BY <2>2, <2>3, <2>6, <3>1, <3>2, Alpha
  <2>8. AlphaDen * AlphaDen * r.m2 + d * d2 \in Nat
    <3>1. ASSUME NEW x \in Int PROVE x * x \in Nat
      OBVIOUS
    <3>2. d * (OldWeight * d) = OldWeight * (d * d)
      <4>1. \A a, x \in Int : x * (a * x) = a * (x * x)
        OBVIOUS
      <4> QED BY <4>1, <2>5, Alpha
    <3>3. d * d \in Nat
      BY <2>5, <3>1
    <3>4. \A a, b, x, y \in Nat : a * a * x + b * y \in Nat
      OBVIOUS
    <3> HIDE DEF d, d2
    <3> QED BY <2>3, <2>7, <3>2, <3>3, <3>4, Alpha
  <2> HIDE DEF d, d2, ema
  <2> QED BY <2>1, <2>4, <2>6, <2>8 DEF Record
<1> QED BY <1>1, <1>2

-----------------------------------------------------------------------------
(* The invariant. *)

\* The constants that steps add up.
LEMMA Amounts ==
  /\ Transfers \subseteq Nat /\ MaxTime \in Nat /\ Cooldown \in Nat /\ Never = -1
  BY ResourceMonitorAssumption DEF Never

\* The initial state satisfies the invariant.
LEMMA MonitorInitIInv == MonitorInit => MonitorIInv
<1> SUFFICES ASSUME MonitorInit PROVE MonitorIInv
  OBVIOUS
<1> USE DEF MonitorInit
<1>1. <<>> \in Seq(Sample) /\ <<>> \in Seq(Nat)
  BY EmptySeq
<1>2. MonitorTypeOK
  <2>1. total \in [TargetSet -> Nat]
    BY Amounts
  <2>2. NoRecord \in [count : Nat, ema : Nat, m2 : Nat]
    BY DEF NoRecord
  <2> QED BY <1>1, <2>1, <2>2, Amounts DEF MonitorTypeOK, Sample, Phases, NoSample
<1>3. BaselineIsReference
  BY DEF BaselineIsReference
<1>4. CurrentIsNewest
  BY DEF CurrentIsNewest
<1>5. IoReportedOnce /\ IoCovered
  BY Amounts DEF IoReportedOnce, IoCovered
<1>6. AlertsAreKnown
  BY Amounts DEF AlertsAreKnown, CooldownMeansTold
<1> QED BY <1>2, <1>3, <1>4, <1>5, <1>6 DEF MonitorIInv

\* Rows and samples that stay as they are stay in agreement.
LEMMA StoreStays ==
  ASSUME BaselineIsReference, UNCHANGED storeVars PROVE BaselineIsReference'
  BY DEF BaselineIsReference, storeVars

\* A reading moves the I/O since the last one from what is pending into the delta.
LEMMA CollectStep == ASSUME MonitorIInv, Collect PROVE MonitorIInv'
<1>1. MonitorTypeOK /\ phase = "collect" /\ phase' = "judge"
      /\ UNCHANGED <<now, current, total, replaced, baseline, seen, lastAlert, told, forgotten>>
  BY DEF Collect, MonitorIInv, storeVars, alertVars
<1>2. PICK got \in SUBSET TargetSet, gauge \in [TargetSet -> [MetricSet \ {BlockIo} -> Values]] :
        /\ todo' = Samples(got, gauge)
        /\ prev' = [t \in TargetSet |-> IF t \in got THEN total[t] ELSE prev[t]]
        /\ pending' = [t \in TargetSet |-> IF t \in got THEN pending[t] - Delta(t) ELSE pending[t]]
  BY DEF Collect
<1>3. todo' \in Seq(Sample)
  BY <1>1, <1>2, SamplesType
<1>4. MonitorTypeOK'
  <2>1. prev' \in [TargetSet -> Nat \cup {Never}]
    BY <1>1, <1>2 DEF MonitorTypeOK
  <2>2. pending' \in [TargetSet -> Int]
    <3>1. \A t \in TargetSet : Delta(t) \in Nat /\ pending[t] \in Int
      BY <1>1, DeltaType DEF MonitorTypeOK
    <3>2. \A t \in TargetSet : pending[t] - Delta(t) \in Int
      BY <3>1
    <3> QED BY <1>2, <3>1, <3>2
  <2> QED BY <1>1, <1>3, <2>1, <2>2 DEF MonitorTypeOK, Sample, Phases
<1>5. IoReportedOnce' /\ IoCovered'
  <2> SUFFICES ASSUME NEW t \in TargetSet
               PROVE  /\ prev'[t] # Never =>
                           /\ pending'[t] >= 0
                           /\ t \notin replaced' => pending'[t] = total'[t] - prev'[t]
                      /\ IF prev'[t] = Never
                         THEN pending'[t] = 0
                         ELSE total'[t] - prev'[t] <= pending'[t]
    BY DEF IoReportedOnce, IoCovered
  <2>1. total[t] \in Nat /\ prev[t] \in Nat \cup {Never} /\ pending[t] \in Int /\ Never = -1
    BY <1>1, Amounts DEF MonitorTypeOK
  <2>2. /\ prev[t] # Never =>
             /\ pending[t] >= 0
             /\ t \notin replaced => pending[t] = total[t] - prev[t]
        /\ IF prev[t] = Never THEN pending[t] = 0 ELSE total[t] - prev[t] <= pending[t]
    BY DEF MonitorIInv, IoReportedOnce, IoCovered
  <2>3. CASE t \notin got
    BY <1>1, <1>2, <2>1, <2>2, <2>3
  <2>4. CASE t \in got
    <3>1. prev'[t] = total[t] /\ pending'[t] = pending[t] - Delta(t) /\ total'[t] = total[t]
      BY <1>1, <1>2, <2>4
    <3>2. Delta(t) = IF prev[t] = Never \/ total[t] < prev[t] THEN 0 ELSE total[t] - prev[t]
      BY DEF Delta
    <3> QED BY <1>1, <3>1, <3>2, <2>1, <2>2
  <2> QED BY <2>3, <2>4
<1>6. BaselineIsReference' /\ CurrentIsNewest'
  BY <1>1 DEF MonitorIInv, BaselineIsReference, CurrentIsNewest, Hour
<1>7. AlertsAreKnown'
  BY <1>1 DEF MonitorIInv, AlertsAreKnown, CooldownMeansTold
<1> QED BY <1>4, <1>5, <1>6, <1>7 DEF MonitorIInv

\* A row that agrees with its samples agrees with one more.
LEMMA RowStep ==
  ASSUME NEW s \in Seq(Nat), NEW v \in Nat
  PROVE  Update(IF s = <<>> THEN NoRecord ELSE Row(s, Len(s)), v)
           = Row(Append(s, v), Len(Append(s, v)))
<1> DEFINE t == Append(s, v)
<1>1. /\ Len(s) \in Nat /\ t \in Seq(Nat) /\ Len(t) = Len(s) + 1
      /\ \A i \in 1..Len(s) : t[i] = s[i]
      /\ t[Len(s) + 1] = v
  BY AppendProperties, LenProperties
<1>2. \A i \in 1..(Len(s) + 1) : t[i] \in Nat
  BY <1>1, ElementOfSeq
<1> HIDE DEF t
<1>3. CASE s = <<>>
  <2>1. Len(s) = 0 /\ Len(t) = 1 /\ t[1] = v
    BY <1>1, <1>3, EmptySeq
  <2>2. ReferenceMean(t, 1) = v /\ ReferenceSum(t, 1) = 0
    BY <2>1, FirstSample
  <2>3. Update(NoRecord, v) = [count |-> 1, ema |-> v, m2 |-> 0]
    BY DEF Update, NoRecord
  <2> QED BY <1>3, <2>1, <2>2, <2>3 DEF Row, t
<1>4. CASE s # <<>>
  <2>1. Len(s) \in Nat \ {0}
    BY <1>4, <1>1, EmptySeq
  <2>2. Row(s, Len(s)) = Row(t, Len(s))
    BY <1>1, SamePrefix DEF Row
  <2>3. Update(Row(t, Len(s)), t[Len(s) + 1]) = Row(t, Len(s) + 1)
    BY <2>1, <1>2, UpdateIsRight
  <2> QED BY <1>1, <1>4, <2>2, <2>3 DEF t
<1> QED BY <1>3, <1>4

\* Judging a sample appends it to those of its hour and brings their row up to date.
LEMMA JudgeStep == ASSUME MonitorIInv, JudgeSample PROVE MonitorIInv'
<1>1. MonitorTypeOK /\ phase = "judge" /\ todo # <<>> /\ todo' = Tail(todo)
      /\ UNCHANGED <<now, total, prev, pending, replaced, lastAlert, told, forgotten>>
  BY DEF JudgeSample, MonitorIInv, ioVars, alertVars
<1> DEFINE key == Head(todo).key
           value == Head(todo).value
           old == baseline[key][Hour]
           s == seen[key][Hour]
<1>2. /\ baseline' = [baseline EXCEPT ![key][Hour] = Update(old, value)]
      /\ seen' = [seen EXCEPT ![key][Hour] = Append(s, value)]
      /\ current' = [key |-> key, value |-> value,
                     severity |-> Detect(Update(old, value), key[2], value)]
      /\ phase' = IF current'.severity # "none" /\ CooledDown(key) THEN "post" ELSE "judge"
  BY DEF JudgeSample, Judged
<1>3. key \in KeySet /\ value \in Nat /\ todo' \in Seq(Sample)
  <2>1. todo \in Seq(Sample)
    BY <1>1 DEF MonitorTypeOK, Sample
  <2>2. Head(todo) \in Sample /\ Tail(todo) \in Seq(Sample)
    BY <1>1, <2>1, HeadTailProperties
  <2> QED BY <1>1, <2>2 DEF Sample
<1>4. Hour \in Hours /\ Hour' = Hour
  BY <1>1, HourType DEF MonitorTypeOK, Hour
<1>5. old \in Record /\ s \in Seq(Nat)
  BY <1>1, <1>3, <1>4 DEF MonitorTypeOK, Record
<1> DEFINE row == Update(old, value)
           all == Append(s, value)
           severity == Detect(row, key[2], value)
<1>6. row \in Record
  BY <1>3, <1>5, UpdateType
<1>7. all \in Seq(Nat) /\ all # <<>> /\ all[Len(all)] = value
  <2>1. all \in Seq(Nat) /\ Len(all) = Len(s) + 1 /\ all[Len(s) + 1] = value /\ Len(s) \in Nat
    BY <1>3, <1>5, AppendProperties, LenProperties
  <2>2. Len(<<>>) = 0
    BY EmptySeq
  <2> HIDE DEF key, value, old, s, row, all, severity
  <2>3. all # <<>>
    BY <2>1, <2>2
  <2> QED BY <2>1, <2>3
<1>8. severity \in Severities
  BY DEF Detect, Severity, Severities
<1>9. /\ baseline \in [KeySet -> [Hours -> Record]] /\ seen \in [KeySet -> [Hours -> Seq(Nat)]]
      /\ baseline' \in [KeySet -> [Hours -> Record]] /\ seen' \in [KeySet -> [Hours -> Seq(Nat)]]
      /\ baseline'[key][Hour] = row /\ seen'[key][Hour] = all
      /\ \A k \in KeySet, h \in Hours :
           (k # key \/ h # Hour) => /\ baseline'[k][h] = baseline[k][h]
                                    /\ seen'[k][h] = seen[k][h]
  <2>1. baseline \in [KeySet -> [Hours -> Record]] /\ seen \in [KeySet -> [Hours -> Seq(Nat)]]
    BY <1>1 DEF MonitorTypeOK, Record
  <2> HIDE DEF key, value, old, s, row, all
  <2>2. baseline' = [baseline EXCEPT ![key][Hour] = row] /\ seen' = [seen EXCEPT ![key][Hour] = all]
    BY <1>2 DEF row, all
  <2> QED BY <1>3, <1>4, <1>6, <1>7, <2>1, <2>2
<1>10. /\ current'.key = key /\ current'.value = value /\ current'.severity = severity
       /\ current' \in [key : KeySet, value : Nat, severity : Severities]
  BY <1>2, <1>3, <1>8
<1>11. old = IF s = <<>> THEN NoRecord ELSE Row(s, Len(s))
  BY <1>3, <1>4 DEF MonitorIInv, BaselineIsReference, Row
<1>12. row = Row(all, Len(all))
  BY <1>3, <1>5, <1>11, RowStep
<1>13. phase' = IF severity # "none" /\ CooledDown(key) THEN "post" ELSE "judge"
  BY <1>2, <1>10
<1>14. current'.severity = Detect(baseline'[key][Hour], current'.key[2], current'.value)
  BY <1>9, <1>10
<1> HIDE DEF key, value, old, s, row, all, severity
<1>15. MonitorTypeOK'
  BY <1>1, <1>3, <1>9, <1>10, <1>13 DEF MonitorTypeOK, Sample, Record, Phases
<1>16. BaselineIsReference'
  <2> SUFFICES ASSUME NEW k \in KeySet, NEW h \in Hours
               PROVE  baseline'[k][h] = IF seen'[k][h] = <<>> THEN NoRecord
                                        ELSE Row(seen'[k][h], Len(seen'[k][h]))
    BY DEF BaselineIsReference, Row
  <2>1. CASE k # key \/ h # Hour
    BY ZenonT(30), <1>9, <2>1 DEF MonitorIInv, BaselineIsReference, Row
  <2>2. CASE k = key /\ h = Hour
    BY <1>7, <1>9, <1>12, <2>2
  <2> QED BY <2>1, <2>2
<1>17. CurrentIsNewest'
  BY <1>4, <1>7, <1>9, <1>10, <1>13, <1>14 DEF CurrentIsNewest
<1>18. IoReportedOnce' /\ IoCovered'
  BY <1>1 DEF MonitorIInv, IoReportedOnce, IoCovered
<1>19. AlertsAreKnown'
  <2>1. CooldownMeansTold' /\ \A k \in KeySet : k \notin forgotten' => told'[k] = lastAlert'[k]
    BY <1>1 DEF MonitorIInv, AlertsAreKnown, CooldownMeansTold
  <2>2. phase' = "post" => CooledDown(key)
    BY <1>13
  <2>3. CooledDown(key) => CooledDown(current.key)'
    BY <1>1, <1>10 DEF CooledDown
  <2> QED BY <2>1, <2>2, <2>3 DEF AlertsAreKnown
<1> QED BY <1>15, <1>16, <1>17, <1>18, <1>19 DEF MonitorIInv

\* The key that is posted about.
LEMMA PostedKey ==
  ASSUME MonitorTypeOK, phase = "post" PROVE current.key \in KeySet
<1>1. current # NoSample
  BY DEF MonitorTypeOK, NoSample
<1> QED BY <1>1 DEF MonitorTypeOK

\* A post that arrives, known or not, leaves the cooldowns behind what was told.
LEMMA PostStep == ASSUME MonitorIInv, PostAccepted \/ PostRaises PROVE MonitorIInv'
<1>1. MonitorTypeOK /\ phase = "post" /\ phase' = "judge" /\ current.key \in KeySet
      /\ UNCHANGED <<now, todo, current, total, prev, pending, replaced, baseline, seen>>
  BY PostedKey DEF PostAccepted, PostRaises, MonitorIInv, ioVars, storeVars
<1>2. now \in Nat /\ Never..now = (Never..now)' /\ now \in Never..now
  BY <1>1, Amounts DEF MonitorTypeOK
<1>3. /\ lastAlert \in [KeySet -> Never..now] /\ told \in [KeySet -> Never..now]
      /\ forgotten \subseteq KeySet
  BY <1>1 DEF MonitorTypeOK
<1>4. \/ UNCHANGED <<lastAlert, told, forgotten>>
      \/ /\ lastAlert' = [lastAlert EXCEPT ![current.key] = now]
         /\ told' = [told EXCEPT ![current.key] = now]
         /\ forgotten' = forgotten \ {current.key}
      \/ /\ lastAlert' = lastAlert
         /\ told' = [told EXCEPT ![current.key] = now]
         /\ forgotten' = forgotten \cup {current.key}
  BY DEF PostAccepted, PostRaises
<1>5. /\ lastAlert' \in [KeySet -> Never..now] /\ told' \in [KeySet -> Never..now]
      /\ forgotten' \subseteq KeySet
  BY <1>1, <1>2, <1>3, <1>4
<1>6. MonitorTypeOK'
  BY <1>1, <1>2, <1>5 DEF MonitorTypeOK, Phases
<1>7. BaselineIsReference' /\ CurrentIsNewest' /\ IoReportedOnce' /\ IoCovered'
  BY <1>1 DEF MonitorIInv, BaselineIsReference, CurrentIsNewest, Hour, IoReportedOnce, IoCovered
<1>8. AlertsAreKnown'
  <2>1. ASSUME NEW k \in KeySet
        PROVE  told'[k] >= lastAlert'[k] /\ (k \notin forgotten' => told'[k] = lastAlert'[k])
    <3>1. told[k] >= lastAlert[k] /\ (k \notin forgotten => told[k] = lastAlert[k])
      BY DEF MonitorIInv, AlertsAreKnown, CooldownMeansTold
    <3>2. lastAlert[k] \in Never..now /\ told[k] \in Never..now
      BY <1>3
    <3>3. now >= lastAlert[k] /\ now >= now
      BY <1>2, <3>2, Amounts
    <3>4. CASE k = current.key
      BY <1>3, <1>4, <3>1, <3>3, <3>4
    <3>5. CASE k # current.key
      BY <1>3, <1>4, <3>1, <3>5
    <3> QED BY <3>4, <3>5
  <2> QED BY <1>1, <2>1 DEF AlertsAreKnown, CooldownMeansTold
<1> QED BY <1>6, <1>7, <1>8 DEF MonitorIInv

\* What the containers do is pending, or not counted before the first reading.
LEMMA IoStep ==
  ASSUME MonitorIInv, ContainersGoOn, UNCHANGED prev
  PROVE  /\ IoReportedOnce' /\ IoCovered'
         /\ total' \in [TargetSet -> Nat] /\ pending' \in [TargetSet -> Int]
         /\ replaced' \subseteq TargetSet
<1>1. PICK again \in SUBSET TargetSet, more \in [TargetSet -> Transfers] :
        /\ total' = [t \in TargetSet |-> more[t] + IF t \in again THEN 0 ELSE total[t]]
        /\ pending' = [t \in TargetSet |-> IF prev[t] = Never THEN 0 ELSE pending[t] + more[t]]
        /\ replaced' = replaced \cup again
  BY DEF ContainersGoOn
<1>2. MonitorTypeOK
  BY DEF MonitorIInv
<1>3. ASSUME NEW t \in TargetSet
      PROVE  /\ total[t] \in Nat /\ pending[t] \in Int /\ more[t] \in Nat
             /\ prev[t] \in Nat \cup {Never} /\ Never = -1
  BY <1>2, Amounts DEF MonitorTypeOK
<1>4. /\ total' \in [TargetSet -> Nat] /\ pending' \in [TargetSet -> Int]
      /\ replaced' \subseteq TargetSet
  <2>1. \A t \in TargetSet : (more[t] + IF t \in again THEN 0 ELSE total[t]) \in Nat
    BY <1>3
  <2>2. \A t \in TargetSet : (IF prev[t] = Never THEN 0 ELSE pending[t] + more[t]) \in Int
    BY <1>3
  <2>3. replaced \subseteq TargetSet
    BY <1>2 DEF MonitorTypeOK
  <2> QED BY <1>1, <2>1, <2>2, <2>3
<1>5. IoReportedOnce' /\ IoCovered'
  <2> SUFFICES ASSUME NEW t \in TargetSet
               PROVE  /\ prev'[t] # Never =>
                           /\ pending'[t] >= 0
                           /\ t \notin replaced' => pending'[t] = total'[t] - prev'[t]
                      /\ IF prev'[t] = Never
                         THEN pending'[t] = 0
                         ELSE total'[t] - prev'[t] <= pending'[t]
    BY DEF IoReportedOnce, IoCovered
  <2>1. /\ prev[t] # Never =>
             /\ pending[t] >= 0
             /\ t \notin replaced => pending[t] = total[t] - prev[t]
        /\ IF prev[t] = Never THEN pending[t] = 0 ELSE total[t] - prev[t] <= pending[t]
    BY DEF MonitorIInv, IoReportedOnce, IoCovered
  <2>2. /\ total'[t] = more[t] + IF t \in again THEN 0 ELSE total[t]
        /\ pending'[t] = IF prev[t] = Never THEN 0 ELSE pending[t] + more[t]
        /\ t \in replaced' <=> t \in replaced \/ t \in again
    BY <1>1
  <2> QED BY <1>3, <2>1, <2>2
<1> QED BY <1>4, <1>5

\* A later time leaves alerts where they are.
LEMMA LaterStep ==
  ASSUME MonitorIInv, UNCHANGED <<alertVars, storeVars, prev, todo>>, now' \in now..MaxTime,
         current' = NoSample, phase' \in {"collect", "down"},
         \/ todo = <<>> /\ ContainersGoOn
         \/ todo = <<>> /\ UNCHANGED ioVars
  PROVE  MonitorIInv'
<1>1. MonitorTypeOK /\ UNCHANGED <<lastAlert, told, forgotten, baseline, seen, prev, todo>> /\ todo = <<>>
  BY DEF MonitorIInv, alertVars, storeVars
<1>2. /\ IoReportedOnce' /\ IoCovered'
      /\ total' \in [TargetSet -> Nat] /\ pending' \in [TargetSet -> Int]
      /\ replaced' \subseteq TargetSet
  <2>1. CASE ContainersGoOn
    BY <2>1, IoStep
  <2>2. CASE UNCHANGED ioVars
    BY <2>2, <1>1 DEF ioVars, MonitorIInv, MonitorTypeOK, IoReportedOnce, IoCovered
  <2> QED BY <2>1, <2>2
<1>3. MonitorTypeOK'
  <2>1. now \in Nat /\ now' \in 0..MaxTime /\ \A x : x \in Never..now => x \in Never..now'
    BY <1>1, Amounts DEF MonitorTypeOK
  <2>2. lastAlert' \in [KeySet -> Never..now'] /\ told' \in [KeySet -> Never..now']
    BY <1>1, <2>1 DEF MonitorTypeOK
  <2> QED BY <1>1, <1>2, <2>1, <2>2 DEF MonitorTypeOK, Phases, NoSample
<1>4. BaselineIsReference' /\ CurrentIsNewest' /\ AlertsAreKnown'
  BY <1>1 DEF MonitorIInv, BaselineIsReference, CurrentIsNewest, AlertsAreKnown, CooldownMeansTold
<1> QED BY <1>2, <1>3, <1>4 DEF MonitorIInv

\* A crash forgets readings and cooldowns.
LEMMA CrashStep == ASSUME MonitorIInv, MonitorCrash PROVE MonitorIInv'
<1>1. /\ MonitorTypeOK /\ phase' = "down" /\ todo' = <<>> /\ current' = NoSample
      /\ prev' = [t \in TargetSet |-> Never]
      /\ lastAlert' = [k \in KeySet |-> Never]
      /\ forgotten' = {k \in KeySet : told[k] # Never}
      /\ pending' = [t \in TargetSet |-> 0]
      /\ replaced' = {}
      /\ UNCHANGED <<now, total, baseline, seen, told>>
  BY DEF MonitorIInv, MonitorCrash, storeVars
<1>2. told \in [KeySet -> Never..now] /\ now \in Nat /\ Never \in Never..now
  BY <1>1, Amounts DEF MonitorTypeOK
<1>3. <<>> \in Seq(Sample)
  BY EmptySeq
<1>4. MonitorTypeOK'
  BY <1>1, <1>2, <1>3 DEF MonitorTypeOK, Phases, NoSample, Sample
<1>5. IoReportedOnce' /\ IoCovered'
  BY <1>1 DEF IoReportedOnce, IoCovered
<1>6. BaselineIsReference' /\ CurrentIsNewest'
  BY <1>1 DEF MonitorIInv, BaselineIsReference, CurrentIsNewest
<1>7. AlertsAreKnown'
  <2>1. \A k \in KeySet : told[k] >= Never
    BY <1>2, Amounts
  <2> QED BY <1>1, <2>1 DEF AlertsAreKnown, CooldownMeansTold
<1> QED BY <1>4, <1>5, <1>6, <1>7 DEF MonitorIInv

\* Every step preserves the invariant.
LEMMA MonitorNextIInv == MonitorIInv /\ [MonitorNext]_monitorVars => MonitorIInv'
<1> SUFFICES ASSUME MonitorIInv, [MonitorNext]_monitorVars PROVE MonitorIInv'
  OBVIOUS
<1>1. CASE Collect
  BY <1>1, CollectStep
<1>2. CASE JudgeSample
  BY <1>2, JudgeStep
<1>3. CASE PostAccepted \/ PostRaises
  BY <1>3, PostStep
<1>4. CASE Sleep
  <2>1. now' \in now..MaxTime
    BY <1>4, Amounts DEF Sleep, MonitorIInv, MonitorTypeOK
  <2> QED BY <1>4, <2>1, LaterStep DEF Sleep
<1>5. CASE MonitorCrash
  BY <1>5, CrashStep
<1>6. CASE Restart
  <2>1. now' \in now..MaxTime /\ todo = <<>> /\ phase' = "collect"
    BY <1>6, Amounts DEF Restart, MonitorIInv, MonitorTypeOK
  <2>2. current = NoSample
    BY <1>6 DEF Restart, MonitorIInv, CurrentIsNewest
  <2> QED BY <1>6, <2>1, <2>2, LaterStep DEF Restart
<1>7. CASE UNCHANGED monitorVars
  BY <1>7 DEF monitorVars, ioVars, storeVars, alertVars, MonitorIInv, MonitorTypeOK, BaselineIsReference,
       CurrentIsNewest, IoReportedOnce, IoCovered, AlertsAreKnown, CooldownMeansTold,
       CooledDown, Hour
<1> QED BY <1>1, <1>2, <1>3, <1>4, <1>5, <1>6, <1>7 DEF MonitorNext

\* Whatever happens to containers, posts and the process: the rows agree with all samples,
\* the I/O with the counters, and _last_alert with the posts that arrived.
THEOREM MonitorInductive == MonitorSpec => []MonitorIInv
  BY MonitorInitIInv, MonitorNextIInv, PTL DEF MonitorSpec

\* The samples, rows and readings keep their types: no reading is reported as a negative
\* amount, and no sum of squares is negative.
THEOREM MonitorTypeCorrect == MonitorSpec => []MonitorTypeOK
<1>1. MonitorIInv => MonitorTypeOK
  BY DEF MonitorIInv
<1> QED BY <1>1, MonitorInductive, PTL

\* BaselineStore.update, one sample at a time and over restarts, leaves what the definition
\* of the weighted mean and of the sum says of all samples, however many there are.
THEOREM RowsAreRight == MonitorSpec => []BaselineIsReference
<1>1. MonitorIInv => BaselineIsReference
  BY DEF MonitorIInv
<1> QED BY <1>1, MonitorInductive, PTL

\* For any failed readings, restarts and replacements: the deltas of the collector report
\* each block of I/O once, and never what was not done.
THEOREM ReportedOnce == MonitorSpec => []IoReportedOnce
<1>1. MonitorIInv => IoReportedOnce
  BY DEF MonitorIInv
<1> QED BY <1>1, MonitorInductive, PTL

\* A cooldown starts with a post that arrived, and a post about a key is followed by another
\* within it only if Alerter could not know of the first.
THEOREM PostedOnce == MonitorSpec => OneAlertPerCooldown
<1>1. MonitorIInv => CooldownMeansTold
  BY DEF MonitorIInv, AlertsAreKnown
<1>2. ASSUME MonitorIInv, [MonitorNext]_monitorVars
      PROVE  [\A k \in KeySet : (told'[k] # told[k] /\ told[k] # Never) =>
                told'[k] - told[k] >= Cooldown \/ k \in forgotten]_monitorVars
  <2>1. CASE PostAccepted \/ PostRaises
    <3>1. /\ phase = "post" /\ current.key \in KeySet /\ CooledDown(current.key)
          /\ told \in [KeySet -> Never..now]
      BY <1>2, <2>1, PostedKey DEF PostAccepted, PostRaises, MonitorIInv, AlertsAreKnown, MonitorTypeOK
    <3>2. told' = told \/ told' = [told EXCEPT ![current.key] = now]
      BY <2>1 DEF PostAccepted, PostRaises
    <3>3. ASSUME NEW k \in KeySet, told'[k] # told[k], told[k] # Never, k \notin forgotten
          PROVE  told'[k] - told[k] >= Cooldown
      <4>1. k = current.key /\ told'[k] = now
        BY <3>1, <3>2, <3>3
      <4>2. told[k] = lastAlert[k]
        BY <1>2, <3>3 DEF MonitorIInv, AlertsAreKnown
      <4> QED BY <3>1, <3>3, <4>1, <4>2 DEF CooledDown
    <3> QED BY <3>3
  <2>2. CASE Collect \/ JudgeSample \/ Sleep \/ MonitorCrash \/ Restart \/ UNCHANGED monitorVars
    <3>1. told' = told
      BY <2>2 DEF Collect, JudgeSample, Sleep, MonitorCrash, Restart, alertVars, monitorVars
    <3> QED BY <3>1
  <2> QED BY <1>2, <2>1, <2>2 DEF MonitorNext
<1> QED BY <1>1, <1>2, MonitorInductive, PTL DEF MonitorSpec, OneAlertPerCooldown

-----------------------------------------------------------------------------
(* What stands out. *)

\* A sum of squares is not negative.
LEMMA SquaresPositive ==
  ASSUME NEW n \in Nat \ {0}, NEW s, \A i \in 1..n : s[i] \in Int
  PROVE  ReferenceSum(s, n) \in Nat
<1> DEFINE S == {k \in Nat : (k # 0 /\ k <= n) => ReferenceSum(s, k) \in Nat}
<1>1. 0 \in S
  OBVIOUS
<1>2. ASSUME NEW k \in Nat, k \in S PROVE k + 1 \in S
  <2> SUFFICES ASSUME k + 1 <= n PROVE ReferenceSum(s, k + 1) \in Nat
    OBVIOUS
  <2>1. CASE k = 0
    <3>1. s[1] \in Int
      OBVIOUS
    <3>2. ReferenceSum(s, 1) = 0
      BY <3>1, FirstSample
    <3> QED BY <2>1, <3>2
  <2>2. CASE k # 0
    <3>1. ReferenceSum(s, k) \in Nat /\ k \in Nat \ {0} /\ \A i \in 1..(k + 1) : s[i] \in Int
      BY <1>2, <2>2
    <3> DEFINE d == Distance(s, k + 1)
    <3>2. ReferenceSum(s, k + 1) = AlphaDen * AlphaDen * ReferenceSum(s, k) + OldWeight * d * d
      BY <3>1, SquaresStep
    <3>3. d \in Int
      BY <3>1, NewDistance
    <3> HIDE DEF d
    <3>4. \A x \in Int : x * x \in Nat
      OBVIOUS
    <3>5. \A a \in Int, x \in Int : a * x * x = a * (x * x)
      OBVIOUS
    <3>6. \A a, b, x, y \in Nat : a * a * x + b * y \in Nat
      OBVIOUS
    <3>7. OldWeight * d * d = OldWeight * (d * d) /\ d * d \in Nat
      BY <3>3, <3>4, <3>5, Alpha
    <3> QED BY <3>1, <3>2, <3>6, <3>7, Alpha
  <2> QED BY <2>1, <2>2
<1> HIDE DEF S
<1>3. n \in S
  BY <1>1, <1>2, Induction
<1> QED BY <1>3 DEF S

\* Equal samples are their own mean, and add nothing to the sum.
LEMMA EqualSamples ==
  ASSUME NEW n \in Nat \ {0}, NEW s, s[1] \in Int, \A i \in 1..n : s[i] = s[1]
  PROVE  ReferenceMean(s, n) = s[1] * Power(AlphaDen, n - 1) /\ ReferenceSum(s, n) = 0
<1> DEFINE Right(k) == ReferenceMean(s, k) = s[1] * Power(AlphaDen, k - 1) /\ ReferenceSum(s, k) = 0
           S == {k \in Nat : (k # 0 /\ k <= n) => Right(k)}
<1>1. 0 \in S
  OBVIOUS
<1>2. ASSUME NEW k \in Nat, k \in S PROVE k + 1 \in S
  <2> SUFFICES ASSUME k + 1 <= n PROVE Right(k + 1)
    OBVIOUS
  <2>1. CASE k = 0
    <3>1. ReferenceMean(s, 1) = s[1] /\ ReferenceSum(s, 1) = 0
      BY FirstSample
    <3>2. Power(AlphaDen, 0) = 1
      BY PowerFacts, Alpha
    <3>3. k + 1 = 1 /\ 1 - 1 = 0 /\ s[1] * 1 = s[1]
      BY <2>1
    <3> QED BY <3>1, <3>2, <3>3
  <2>2. CASE k # 0
    <3> DEFINE a == s[1]
               p == Power(AlphaDen, k - 1)
               d == Distance(s, k + 1)
    <3>1. k \in Nat \ {0} /\ (\A i \in 1..(k + 1) : s[i] \in Int) /\ s[k + 1] = a
      BY <2>2
    <3>2. ReferenceMean(s, k) = a * p /\ ReferenceSum(s, k) = 0
      BY <1>2, <2>2
    <3>3. p \in Nat /\ Power(AlphaDen, k) = AlphaDen * p /\ (k + 1) - 1 = k
      <4>1. k - 1 \in Nat /\ (k - 1) + 1 = k /\ (k + 1) - 1 = k
        BY <2>2
      <4> QED BY <4>1, PowerFacts, Alpha
    <3>4. d = 0
      <4>1. k + 1 # 1 /\ (k + 1) - 2 = k - 1
        BY <2>2
      <4>2. d = a * p - ReferenceMean(s, k)
        BY <3>1, <3>3, <4>1 DEF Distance
      <4> QED BY <3>2, <3>3, <4>2
    <3>5. ReferenceMean(s, k + 1) = OldWeight * (a * p) + AlphaNum * p * a
      BY <3>1, <3>2, MeanStep
    <3>6. ReferenceSum(s, k + 1) = AlphaDen * AlphaDen * 0 + OldWeight * d * d
      BY <3>1, <3>2, SquaresStep
    <3>7. ASSUME NEW r \in Int, NEW b \in Int, NEW x \in Int, NEW y \in Int
          PROVE  r * (x * y) + b * y * x = x * ((r + b) * y)
      OBVIOUS
    <3>8. AlphaDen = OldWeight + AlphaNum
      BY Alpha
    <3> HIDE DEF a, p, d
    <3>9. ReferenceMean(s, k + 1) = a * (AlphaDen * p)
      <4>1. a \in Int
        BY DEF a
      <4> QED BY <3>3, <3>5, <3>7, <3>8, <4>1, Alpha
    <3>10. ReferenceSum(s, k + 1) = 0
      <4>1. \A x, r \in Int : x * x * 0 + r * 0 * 0 = 0
        OBVIOUS
      <4> QED BY <3>4, <3>6, <4>1, Alpha
    <3> QED BY <3>3, <3>9, <3>10 DEF a
  <2> QED BY <2>1, <2>2
<1> HIDE DEF S
<1>3. n \in S
  BY <1>1, <1>2, Induction
<1> QED BY <1>3 DEF S

\* The z-score of a value in the row that it is in: its square is at most OldWeight / AlphaDen
\* times the number of samples before it, and is exactly that after equal ones.
LEMMA ZScore ==
  ASSUME NEW n \in Nat \ {0}, NEW s, \A i \in 1..(n + 1) : s[i] \in Int, NEW limit \in Nat
  PROVE  LET row == Row(s, n + 1)
             v == s[n + 1]
             Reaches == OldWeight * n > limit * AlphaDen
         IN /\ Beyond(row, v, limit) => Reaches
            /\ (ReferenceSum(s, n) = 0 /\ row.m2 > 0) => (Beyond(row, v, limit) <=> Reaches)
            /\ (ReferenceSum(s, n) = 0 /\ Distance(s, n + 1) # 0) => (row.m2 > 0 <=> OldWeight # 0)
<1> DEFINE d == Distance(s, n + 1)
           q == OldWeight * (d * d)
           x == AlphaDen * AlphaDen * ReferenceSum(s, n)
           row == Row(s, n + 1)
           v == s[n + 1]
<1>1. Deviation(row, v) = OldWeight * d /\ d \in Int
  BY NewDistance
<1>2. row.m2 = x + OldWeight * d * d /\ row.count = n + 1
  BY SquaresStep DEF Row
<1>3. d * d \in Nat /\ (d # 0 => d * d > 0)
  <2>1. \A y \in Int : y * y \in Nat /\ (y # 0 => y * y > 0)
    OBVIOUS
  <2> HIDE DEF d
  <2> QED BY <1>1, <2>1
<1>4. x \in Nat /\ (ReferenceSum(s, n) = 0 => x = 0)
  <2>1. ReferenceSum(s, n) \in Nat
    BY SquaresPositive
  <2>2. \A a, y \in Nat : a * a * y \in Nat /\ a * a * 0 = 0
    OBVIOUS
  <2> QED BY <2>1, <2>2, Alpha
<1> HIDE DEF d, x, row, v
<1>5. q \in Nat /\ (d # 0 => (q > 0 <=> OldWeight # 0))
  <2>1. \A a, y \in Nat : a * y \in Nat /\ (y > 0 => (a * y > 0 <=> a # 0))
    OBVIOUS
  <2> QED BY <1>3, <2>1, Alpha
<1>6. row.m2 = x + q
  <2>1. \A a, y \in Int : a * y * y = a * (y * y)
    OBVIOUS
  <2> QED BY <1>1, <1>2, <2>1, Alpha
<1>7. Beyond(row, v, limit) <=> OldWeight * q * n > limit * (x + q) * AlphaDen
  <2>1. Beyond(row, v, limit) <=> (OldWeight * d) * (OldWeight * d) * n > limit * (x + q) * AlphaDen
    <3>1. row.count - 1 = n
      BY <1>2
    <3> QED BY <1>1, <1>6, <3>1 DEF Beyond
  <2>2. (OldWeight * d) * (OldWeight * d) = OldWeight * q
    <3>1. \A a, y \in Int : (a * y) * (a * y) = a * (a * (y * y))
      OBVIOUS
    <3> QED BY <1>1, <3>1, Alpha
  <2> QED BY <2>1, <2>2
<1> HIDE DEF q
<1> DEFINE a == OldWeight * n
           b == limit * AlphaDen
<1>8. a \in Nat /\ b \in Nat
  BY Alpha
<1>9. OldWeight * q * n = q * a
  <2>1. \A y, z, w \in Int : y * z * w = z * (y * w)
    OBVIOUS
  <2> QED BY <2>1, <1>5, Alpha
<1>10. limit * (x + q) * AlphaDen = x * b + q * b
  <2>1. \A y, z, w, t \in Int : y * (z + w) * t = z * (y * t) + w * (y * t)
    OBVIOUS
  <2> QED BY <2>1, <1>4, <1>5, Alpha
<1> HIDE DEF a, b
<1>11. x * b \in Nat /\ q * b \in Nat /\ q * a \in Nat
  <2>1. \A y, z \in Nat : y * z \in Nat
    OBVIOUS
  <2> QED BY <2>1, <1>4, <1>5, <1>8
<1>12. q * a > q * b => a > b
  <2>1. \A y, z, w \in Nat : z <= w => y * z <= y * w
    OBVIOUS
  <2> QED BY <2>1, <1>5, <1>8, <1>11
<1>13. (q > 0 /\ a > b) => q * a > q * b
  <2>1. \A y, z, w \in Nat : (y > 0 /\ z > w) => y * z > y * w
    OBVIOUS
  <2> QED BY <2>1, <1>5, <1>8
<1>14. Beyond(row, v, limit) => a > b
  BY <1>7, <1>9, <1>10, <1>11, <1>12
<1>15. (x = 0 /\ q > 0) => (Beyond(row, v, limit) <=> a > b)
  <2> SUFFICES ASSUME x = 0, q > 0 PROVE Beyond(row, v, limit) <=> a > b
    OBVIOUS
  <2>1. x * b = 0
    BY <1>8
  <2> QED BY <2>1, <1>7, <1>9, <1>10, <1>11, <1>12, <1>13
<1> QED BY <1>4, <1>5, <1>6, <1>14, <1>15 DEF a, b, d, row, v

\* What the invariant says of the sample judged last.
LEMMA AlarmsFollow == MonitorIInv => AlarmsAreOfCount
<1> SUFFICES ASSUME MonitorIInv, current # NoSample PROVE AlarmsAreOfCount
  BY DEF AlarmsAreOfCount
<1> DEFINE key == current.key
           s == seen[key][Hour]
           n == Len(s)
           r == baseline[key][Hour]
           v == s[n]
           Reaches(limit) == OldWeight * (n - 1) > limit * AlphaDen
           severity == current.severity
           abs == AbsThreshold[key[2]]
           critical == CriticalAbs[key[2]]
<1>1. key \in KeySet /\ Hour \in Hours /\ s \in Seq(Nat)
  <2>1. key \in KeySet /\ now \in Nat /\ seen \in [KeySet -> [Hours -> Seq(Nat)]]
    BY DEF MonitorIInv, MonitorTypeOK
  <2> QED BY <2>1, HourType
<1>2. /\ s # <<>> /\ v = current.value
      /\ severity = Detect(r, key[2], v)
  BY DEF MonitorIInv, CurrentIsNewest
<1>3. r = Row(s, n)
  BY <1>1, <1>2 DEF MonitorIInv, BaselineIsReference, Row
<1>4. n \in Nat \ {0} /\ \A i \in 1..n : s[i] \in Nat
  BY <1>1, <1>2, LenProperties, ElementOfSeq, EmptySeq
<1>5. ThresholdSq \in Nat /\ CriticalSq \in Nat
  BY ResourceMonitorAssumption
<1>6. /\ severity # "none" <=> IsAnomaly(r, key[2], v)
      /\ severity = "critical" <=> /\ severity # "none"
                                   /\ Beyond(r, v, CriticalSq) \/ v > critical
  BY <1>2 DEF Detect, Severity
<1>7. IsAnomaly(r, key[2], v) <=> /\ n >= MinSamples /\ r.m2 > 0
                                  /\ Beyond(r, v, ThresholdSq) /\ v >= abs
  BY <1>3 DEF IsAnomaly, Row
<1>8. AlarmsAreOfCount <=>
        /\ severity # "none" => Reaches(ThresholdSq)
        /\ (n >= 2 /\ v # s[1] /\ \A i \in 1..(n - 1) : s[i] = s[1]) =>
             /\ severity # "none"
                  <=> n >= MinSamples /\ Reaches(ThresholdSq) /\ v >= abs
             /\ severity = "critical"
                  <=> severity # "none" /\ (Reaches(CriticalSq) \/ v > critical)
  BY DEF AlarmsAreOfCount, OldWeight
<1> HIDE DEF key, s, n, r, v, severity, abs, critical
<1>9. CASE n = 1
  <2>1. s[1] \in Int
    BY <1>4
  <2>2. r.m2 = 0
    BY <1>3, <1>9, <2>1, FirstSample DEF Row
  <2> QED BY <1>6, <1>7, <1>8, <1>9, <2>2
<1>10. CASE n # 1
  <2> DEFINE m == n - 1
  <2>1. m \in Nat \ {0} /\ n = m + 1 /\ v = s[m + 1] /\ n >= 2
    BY <1>4, <1>10 DEF v
  <2>2. \A i \in 1..(m + 1) : s[i] \in Int
    BY <1>4, <2>1
  <2>3. r = Row(s, m + 1)
    BY <1>3, <2>1
  <2>4. \A limit \in Nat : Reaches(limit) <=> OldWeight * m > limit * AlphaDen
    OBVIOUS
  <2> HIDE DEF m, Reaches
  <2>5. ASSUME NEW limit \in Nat
        PROVE  /\ Beyond(r, v, limit) => Reaches(limit)
               /\ (ReferenceSum(s, m) = 0 /\ r.m2 > 0) => (Beyond(r, v, limit) <=> Reaches(limit))
               /\ (ReferenceSum(s, m) = 0 /\ Distance(s, m + 1) # 0) => (r.m2 > 0 <=> OldWeight # 0)
    BY <2>1, <2>2, <2>3, <2>4, ZScore
  <2>6. severity # "none" => Reaches(ThresholdSq)
    BY <1>5, <1>6, <1>7, <2>5
  <2>7. ASSUME v # s[1], \A i \in 1..m : s[i] = s[1]
        PROVE  /\ severity # "none"
                    <=> n >= MinSamples /\ Reaches(ThresholdSq) /\ v >= abs
               /\ severity = "critical"
                    <=> severity # "none" /\ (Reaches(CriticalSq) \/ v > critical)
    <3> DEFINE p == Power(AlphaDen, m - 1)
    <3>1. s[1] \in Int /\ v \in Int
      BY <2>1, <2>2
    <3>2. ReferenceMean(s, m) = s[1] * p /\ ReferenceSum(s, m) = 0
      BY <2>1, <2>7, <3>1, EqualSamples
    <3>3. p \in Nat /\ p # 0
      <4>1. m - 1 \in Nat
        BY <2>1
      <4> QED BY <4>1, PowerFacts, Alpha
    <3>4. Distance(s, m + 1) = v * p - s[1] * p
      <4>1. m + 1 # 1 /\ (m + 1) - 2 = m - 1 /\ (m + 1) - 1 = m
        BY <2>1
      <4> QED BY <2>1, <3>2, <4>1 DEF Distance
    <3> HIDE DEF p
    <3>5. v * p - s[1] * p # 0
      <4>1. \A x, y \in Int, z \in Nat : (z # 0 /\ x # y) => x * z - y * z # 0
        <5> TAKE x \in Int, y \in Int, z \in Nat
        <5> HAVE z # 0 /\ x # y
        <5>1. x * z - y * z = (x - y) * z
          OBVIOUS
        <5>2. x - y # 0 /\ x - y \in Int
          OBVIOUS
        <5>3. \A w \in Int : w # 0 => w * z # 0
          OBVIOUS
        <5> QED BY <5>1, <5>2, <5>3
      <4> QED BY <4>1, <2>7, <3>1, <3>3
    <3>6. r.m2 > 0 <=> OldWeight # 0
      BY <1>5, <2>5, <3>2, <3>4, <3>5
    <3>7. CASE OldWeight = 0
      <4>1. ~ Reaches(ThresholdSq)
        <5>1. 0 * m = 0 /\ ThresholdSq * AlphaDen \in Nat
          BY <1>5, <2>1, Alpha
        <5> QED BY <1>5, <2>4, <3>7, <5>1
      <4> QED BY <1>6, <1>7, <3>6, <3>7, <4>1
    <3>8. CASE OldWeight # 0
      <4>1. /\ r.m2 > 0
            /\ Beyond(r, v, ThresholdSq) <=> Reaches(ThresholdSq)
            /\ Beyond(r, v, CriticalSq) <=> Reaches(CriticalSq)
        BY <1>5, <2>5, <3>2, <3>6, <3>8
      <4> QED BY <1>6, <1>7, <4>1
    <3> QED BY <3>7, <3>8
  <2> QED BY <1>8, <2>6, <2>7 DEF m
<1> QED BY <1>9, <1>10

\* For any smoothing factor and thresholds: detect lets a value stand out by the number of
\* its samples, however extreme it is, and after equal samples as soon as there are enough,
\* however near it is.
THEOREM AlarmsByCount == MonitorSpec => []AlarmsAreOfCount
  BY AlarmsFollow, MonitorInductive, PTL
=============================================================================
