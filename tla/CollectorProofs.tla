--------------------------- MODULE CollectorProofs ---------------------------
(***************************************************************************)
(* Proofs about Collector for every stream, batch size, time-out and       *)
(* back-off: IInv is inductive, and the safety invariants follow from it.  *)
(***************************************************************************)
EXTENDS Collector, TLAPS

Elems(s) == {s[i] : i \in DOMAIN s}

\* Appending adds one element and disturbs no other.
LEMMA AppendElems ==
  ASSUME NEW S, NEW s \in Seq(S), NEW e \in S
  PROVE  /\ Append(s, e) \in Seq(S)
         /\ Len(Append(s, e)) = Len(s) + 1
         /\ DOMAIN s = 1..Len(s)
         /\ DOMAIN Append(s, e) = 1..(Len(s) + 1)
         /\ \A i \in 1..Len(s) : Append(s, e)[i] = s[i]
         /\ Append(s, e)[Len(s) + 1] = e
         /\ Elems(Append(s, e)) = Elems(s) \cup {e}
<1>1. /\ Append(s, e) \in Seq(S)
      /\ Len(Append(s, e)) = Len(s) + 1
      /\ DOMAIN s = 1..Len(s)
      /\ DOMAIN Append(s, e) = 1..(Len(s) + 1)
      /\ \A i \in 1..Len(s) : Append(s, e)[i] = s[i]
      /\ Append(s, e)[Len(s) + 1] = e
      /\ Len(s) \in Nat
  OBVIOUS
<1>2. Elems(Append(s, e)) = Elems(s) \cup {e}
  BY <1>1 DEF Elems
<1>3. QED
  BY <1>1, <1>2

\* Nothing is in the empty buffer.
LEMMA EmptyElems ==
  /\ <<>> \in Seq(Events)
  /\ Len(<<>>) = 0
  /\ DOMAIN <<>> = {}
  /\ Elems(<<>>) = {}
BY DEF Elems

\* What the rest of the loop body does to the buffer, the id and the place.
LEMMA TakeEffect ==
  ASSUME TypeOK, NEW e \in 0..StreamLen, NEW buf \in Seq(Events),
         Len(buf) < BatchSize, Take(e, buf)
  PROVE  /\ eventBuffer' \in Seq(Events)
         /\ Len(eventBuffer') <= BatchSize
         /\ pc' \in {"streaming", "sizeFlush"}
         /\ pc' = "streaming" => Len(eventBuffer') < BatchSize
         /\ \/ /\ e = 0 \/ Kind[e] = "malformed"
               /\ eventBuffer' = buf
               /\ Held' = Elems(buf)
               /\ lastEventId' = lastEventId
            \/ /\ e \in Events
               /\ Kind[e] # "malformed"
               /\ eventBuffer' = Append(buf, e)
               /\ Held' = Elems(buf) \cup {e}
               /\ lastEventId' = IF Identified(e) THEN e ELSE lastEventId
<1> USE CollectorAssumption
<1>1. CASE e = 0 \/ Kind[e] = "malformed"
  BY <1>1 DEF Take, Held, Elems
<1>2. CASE e # 0 /\ Kind[e] # "malformed"
  <2>1. e \in Events
    BY <1>2 DEF Events
  <2>2. /\ eventBuffer' = Append(buf, e)
        /\ lastEventId' = IF Identified(e) THEN e ELSE lastEventId
        /\ pc' = IF BufferFull(Len(buf) + 1) THEN "sizeFlush" ELSE "streaming"
    BY <1>2 DEF Take
  <2>3. Held' = Elems(buf) \cup {e}
    BY <2>1, <2>2, AppendElems DEF Held, Elems
  <2>4. Len(eventBuffer') = Len(buf) + 1 /\ eventBuffer' \in Seq(Events)
    BY <2>1, <2>2, AppendElems
  <2>5. Len(buf) \in Nat
    OBVIOUS
  <2>6. QED
    BY <1>2, <2>1, <2>2, <2>3, <2>4, <2>5 DEF BufferFull
<1>3. QED
  BY <1>1, <1>2

\* What was taken is of the stream.
LEMMA TakenAreEvents == TypeOK => Held \cup Resolved \subseteq Events
<1> SUFFICES ASSUME TypeOK PROVE Held \cup Resolved \subseteq Events
  OBVIOUS
<1>1. Held \subseteq Events
  BY DEF TypeOK, Held
<1>2. Resolved \subseteq Events
  BY DEF TypeOK, Resolved
<1>3. QED
  BY <1>1, <1>2

-----------------------------------------------------------------------------
(* The initial state and the steps that leave the buffer and the fates alone. *)

\* Nothing is taken at the start.
LEMMA InitIInv == Init => IInv
<1> SUFFICES ASSUME Init PROVE IInv
  OBVIOUS
<1> USE CollectorAssumption, EmptyElems DEF Init
<1>1. Held = {}
  BY DEF Held
<1>2. TypeOK
  BY DEF TypeOK, Places
<1>3. InHand /\ RoomLeft /\ DeliveredTaken /\ IdBehindCursor /\ GapFree
  BY DEF InHand, RoomLeft, DeliveredTaken, IdBehindCursor, GapFree, Connected, Events
<1>4. TakenBehind /\ InStreamOrder /\ OneFate
  BY <1>1 DEF TakenBehind, InStreamOrder, OneFate, Resolved
<1>5. QED
  BY <1>2, <1>3, <1>4 DEF IInv

\* Publishing, time, and everything between a lost connection and the next attempt.
LEMMA QuietStep ==
  ASSUME IInv,
         Publish \/ Tick \/ ConnectionFails \/ Wake \/ StreamEnds \/ Restart
  PROVE  IInv'
<1> USE CollectorAssumption
<1>1. /\ published \in Nat /\ published' \in Nat
      /\ published <= published' /\ published' <= StreamLen
      /\ cursor' = cursor /\ current' = current /\ eventBuffer' = eventBuffer
      /\ lastEventId' = lastEventId /\ start' = start
      /\ handed' = handed /\ failed' = failed /\ crashed' = crashed
      /\ elapsed' \in 0..BatchTimeout
      /\ retryDelay' \in RetryBase..RetryMax
      /\ pc' = pc \/ (pc' \in {"connecting", "sleeping"} /\ pc \notin {"sizeFlush", "timeoutFlush"})
      /\ pc' \in Places
  <2>1. /\ published \in Nat /\ published <= StreamLen /\ elapsed \in 0..BatchTimeout
        /\ retryDelay \in RetryBase..RetryMax /\ pc \in Places
    BY DEF IInv, TypeOK
  <2>2. CASE Publish
    BY <2>1, <2>2 DEF Publish, bufferVars, fateVars
  <2>3. CASE Tick
    BY <2>1, <2>3 DEF Tick, streamVars, fateVars
  <2>4. CASE ConnectionFails \/ StreamEnds
    BY <2>1, <2>4 DEF ConnectionFails, StreamEnds, streamVars, bufferVars, fateVars, Places
  <2>5. CASE Wake \/ Restart
    BY <2>1, <2>5 DEF Wake, Restart, streamVars, bufferVars, fateVars, Smaller, Places
  <2> QED BY <2>2, <2>3, <2>4, <2>5
<1>2. Held' = Held /\ Resolved' = Resolved
  BY <1>1 DEF Held, Resolved
<1>3. TypeOK'
  BY <1>1 DEF IInv, TypeOK
<1>4. InHand' /\ RoomLeft'
  BY <1>1 DEF IInv, InHand, RoomLeft
<1>5. DeliveredTaken' /\ IdBehindCursor' /\ GapFree'
  BY <1>1, <1>2 DEF IInv, DeliveredTaken, IdBehindCursor, GapFree, Connected
<1>6. TakenBehind'
  <2> SUFFICES ASSUME NEW e \in Held \cup Resolved
               PROVE  /\ e <= published'
                      /\ Identified(e) => /\ lastEventId # 0 => e <= lastEventId
                                          /\ Connected' => e <= cursor /\ e # current
    BY <1>1, <1>2 DEF TakenBehind, Identified
  <2>1. e \in Nat
    BY TakenAreEvents DEF IInv, Events
  <2>2. QED
    BY <1>1, <2>1 DEF IInv, TakenBehind, Connected
<1>7. InStreamOrder' /\ OneFate'
  BY <1>1, <1>2 DEF IInv, InStreamOrder, OneFate, Identified
<1>8. QED
  BY <1>3, <1>4, <1>5, <1>6, <1>7 DEF IInv

\* A connection resumes behind the last id, before which all was taken, or at the tip.
LEMMA ConnectStep == IInv /\ Connect => IInv'
<1> SUFFICES ASSUME IInv, Connect PROVE IInv'
  OBVIOUS
<1> USE CollectorAssumption
<1>1. /\ published' = published /\ current' = current /\ eventBuffer' = eventBuffer
      /\ lastEventId' = lastEventId /\ elapsed' = elapsed
      /\ handed' = handed /\ failed' = failed /\ crashed' = crashed
      /\ cursor' = IF lastEventId # 0 THEN lastEventId ELSE published
      /\ start' = IF lastEventId # 0 THEN start ELSE published
      /\ pc = "connecting" /\ pc' = "streaming"
      /\ retryDelay' = RetryBase
      /\ current = 0
  BY DEF IInv, InHand, Connect, ResumePosition, bufferVars, fateVars
<1>2. Held' = Held /\ Resolved' = Resolved
  BY <1>1 DEF Held, Resolved
<1>3. TypeOK'
  BY <1>1 DEF IInv, TypeOK, Places
<1>4. InHand' /\ RoomLeft' /\ IdBehindCursor'
  BY <1>1 DEF IInv, TypeOK, InHand, RoomLeft, IdBehindCursor
<1>5. DeliveredTaken' /\ GapFree'
  BY <1>1, <1>2 DEF IInv, TypeOK, DeliveredTaken, GapFree, Events
<1>6. TakenBehind'
  <2> SUFFICES ASSUME NEW e \in Held \cup Resolved
               PROVE  /\ e <= published
                      /\ Identified(e) => /\ lastEventId # 0 => e <= lastEventId
                                          /\ e <= cursor' /\ e # current
    BY <1>1, <1>2 DEF TakenBehind, Identified
  <2>1. e \in Events
    BY TakenAreEvents DEF IInv
  <2>2. QED
    BY <1>1, <2>1 DEF IInv, TakenBehind, Events
<1>7. InStreamOrder' /\ OneFate'
  BY <1>1, <1>2 DEF IInv, InStreamOrder, OneFate, Identified
<1>8. QED
  BY <1>3, <1>4, <1>5, <1>6, <1>7 DEF IInv

\* The process dies: what was buffered joins the events with a fate.
LEMMA CrashStep == IInv /\ Crash => IInv'
<1> SUFFICES ASSUME IInv, Crash PROVE IInv'
  OBVIOUS
<1> USE CollectorAssumption, EmptyElems
<1>1. /\ published' = published /\ start' = start
      /\ handed' = handed /\ failed' = failed /\ crashed' = crashed \cup Held
      /\ pc' = "down" /\ cursor' = 0 /\ current' = 0 /\ eventBuffer' = <<>>
      /\ lastEventId' = 0 /\ elapsed' = 0 /\ retryDelay' = RetryBase
  BY DEF Crash
<1>2. Held' = {} /\ Resolved' = Resolved \cup Held
  BY <1>1 DEF Held, Resolved
<1>3. Held \subseteq Events
  BY DEF IInv, TypeOK, Held
<1>4. TypeOK'
  BY <1>1, <1>3 DEF IInv, TypeOK, Places
<1>5. InHand' /\ RoomLeft' /\ IdBehindCursor' /\ DeliveredTaken' /\ GapFree'
  BY <1>1 DEF InHand, RoomLeft, IdBehindCursor, DeliveredTaken, GapFree, Connected, Events
<1>6. TakenBehind'
  BY <1>1, <1>2 DEF IInv, TakenBehind, Connected
<1>7. InStreamOrder'
  BY <1>1, <1>2 DEF InStreamOrder
<1>8. OneFate'
  <2>1. \A e \in Events : Identified(e) => ~(e \in Resolved /\ e \in Held)
    BY DEF IInv, InStreamOrder, Events
  <2>2. QED
    BY <1>1, <2>1 DEF IInv, OneFate, Identified, Resolved
<1>9. QED
  BY <1>4, <1>5, <1>6, <1>7, <1>8 DEF IInv

-----------------------------------------------------------------------------
(* The steps that take an event or empty the buffer. *)

\* The end of the loop body for event e: straight after the time-out check (buf is
\* the buffer) or after the callback of a flush returned (buf is empty).
LEMMA TakeStep ==
  ASSUME IInv, Connected,
         NEW e \in 0..StreamLen, NEW buf \in Seq(Events), Len(buf) < BatchSize,
         Take(e, buf),
         \/ buf = eventBuffer /\ handed' = handed
         \/ buf = <<>> /\ handed' = handed \cup Held,
         e = 0 => current = 0 /\ cursor' = cursor,
         e # 0 => /\ cursor' = e
                  /\ \/ current = 0 /\ e = cursor + 1
                     \/ current = e /\ e = cursor,
         cursor' \in 0..published,
         current' = 0, published' = published, start' = start,
         failed' = failed, crashed' = crashed, retryDelay' = retryDelay,
         elapsed' \in 0..BatchTimeout
  PROVE  IInv'
<1> USE CollectorAssumption
<1>1. /\ eventBuffer' \in Seq(Events)
      /\ Len(eventBuffer') <= BatchSize
      /\ pc' \in {"streaming", "sizeFlush"}
      /\ pc' = "streaming" => Len(eventBuffer') < BatchSize
      /\ \/ /\ e = 0 \/ Kind[e] = "malformed"
            /\ eventBuffer' = buf
            /\ Held' = Elems(buf)
            /\ lastEventId' = lastEventId
         \/ /\ e \in Events
            /\ Kind[e] # "malformed"
            /\ eventBuffer' = Append(buf, e)
            /\ Held' = Elems(buf) \cup {e}
            /\ lastEventId' = IF Identified(e) THEN e ELSE lastEventId
  BY TakeEffect DEF IInv
<1>2. Elems(buf) \cup Resolved' = Held \cup Resolved /\ Elems(buf) \subseteq Held
      /\ Elems(buf) \cup handed' \cup failed' = Held \cup handed \cup failed
  BY EmptyElems DEF Held, Elems, Resolved
<1>3. Held \cup Resolved \subseteq Events
  BY TakenAreEvents DEF IInv
<1>4. /\ published \in Nat /\ cursor \in Nat /\ cursor' \in Nat /\ current \in Nat
      /\ lastEventId \in Nat /\ start \in Nat /\ e \in Nat
      /\ cursor <= cursor' /\ cursor' <= published
      /\ published <= StreamLen /\ Events \subseteq Nat
  BY DEF IInv, TypeOK, Events
<1>5. \A x \in Held \cup Resolved :
        /\ x <= published
        /\ Identified(x) => /\ lastEventId # 0 => x <= lastEventId
                            /\ x <= cursor
                            /\ e # 0 => x < e
  BY SMTT(30), <1>3, <1>4 DEF IInv, TakenBehind
<1>6. Held' \cup Resolved' \subseteq Held \cup Resolved \cup {e}
  BY <1>1, <1>2
<1>7. TypeOK'
  <2>1. lastEventId' \in 0..published
    BY <1>1, <1>4 DEF IInv, TypeOK
  <2>2. handed' \in SUBSET Events
    BY <1>3 DEF IInv, TypeOK
  <2>3. QED
    BY <1>1, <2>1, <2>2 DEF IInv, TypeOK, Places
<1>8. InHand' /\ RoomLeft'
  BY <1>1 DEF InHand, RoomLeft
<1>9. lastEventId <= cursor
  BY DEF IInv, IdBehindCursor
<1>10. IdBehindCursor'
  BY <1>1, <1>4, <1>9 DEF IdBehindCursor
<1>11. DeliveredTaken'
  <2> SUFFICES ASSUME NEW x \in Events, start < x, x <= cursor', Kind[x] # "malformed"
               PROVE  x \in Held' \cup handed' \cup failed'
    BY DEF DeliveredTaken
  <2>1. CASE x = e
    BY <1>1, <1>4, <2>1 DEF Events
  <2>2. CASE x # e
    <3>1. x <= cursor /\ x # current
      BY <1>4, <2>2 DEF Events
    <3>2. x \in Held \cup handed \cup failed
      BY <3>1 DEF IInv, DeliveredTaken
    <3>3. QED
      BY <1>1, <1>2, <3>2
  <2>3. QED
    BY <2>1, <2>2
<1>12. GapFree'
  <2> SUFFICES ASSUME NEW x \in Events, start < x, x <= lastEventId',
                      Kind[x] # "malformed"
               PROVE  x \in Held' \cup handed' \cup failed'
    BY DEF GapFree
  <2>1. x <= cursor'
    BY SMTT(30), <1>1, <1>4, <1>9 DEF Events
  <2>2. pc' \in {"streaming", "sizeFlush"}
    BY <1>1
  <2>3. QED
    BY <1>11, <2>1, <2>2 DEF DeliveredTaken, Connected, Events
<1>13. TakenBehind'
  <2> SUFFICES ASSUME NEW x \in Held' \cup Resolved'
               PROVE  /\ x <= published
                      /\ Identified(x) => /\ lastEventId' # 0 => x <= lastEventId'
                                          /\ x <= cursor' /\ x # current'
    BY DEF TakenBehind, Identified
  <2>1. CASE x \in Held \cup Resolved
    BY SMTT(30), <1>1, <1>3, <1>4, <1>5, <2>1 DEF Events
  <2>2. CASE x \notin Held \cup Resolved
    <3>1. x = e /\ e \in Events /\ (Identified(e) => lastEventId' = e)
      BY <1>1, <1>2, <2>2
    <3>2. QED
      BY <3>1, <1>4 DEF Events
  <2>3. QED
    BY <2>1, <2>2
<1>14. InStreamOrder'
  <2>1. ASSUME NEW i \in DOMAIN eventBuffer', NEW j \in DOMAIN eventBuffer',
               i < j, Identified(eventBuffer'[i])
        PROVE  eventBuffer'[i] < eventBuffer'[j]
    <3>1. \A k, l \in DOMAIN buf :
            (k < l /\ Identified(buf[k])) => buf[k] < buf[l]
      BY EmptyElems DEF IInv, InStreamOrder
    <3>2. CASE eventBuffer' = buf
      BY <2>1, <3>1, <3>2
    <3>3. CASE e \in Events /\ eventBuffer' = Append(buf, e)
      <4>1. /\ DOMAIN buf = 1..Len(buf)
            /\ DOMAIN eventBuffer' = 1..(Len(buf) + 1)
            /\ \A k \in 1..Len(buf) : eventBuffer'[k] = buf[k]
            /\ eventBuffer'[Len(buf) + 1] = e
            /\ Len(buf) \in Nat
        BY <3>3, AppendElems
      <4>2. i \in 1..Len(buf)
        BY <2>1, <4>1
      <4>3. eventBuffer'[i] \in Held
        BY <1>2, <4>1, <4>2 DEF Elems
      <4>4. CASE j \in 1..Len(buf)
        BY <2>1, <3>1, <4>1, <4>2, <4>4
      <4>5. CASE j = Len(buf) + 1
        BY <2>1, <1>5, <3>3, <4>1, <4>3, <4>5 DEF Events
      <4>6. QED
        BY <2>1, <4>1, <4>4, <4>5
    <3>4. QED
      BY <1>1, <3>2, <3>3
  <2>2. ASSUME NEW x \in Resolved', NEW b \in Held', Identified(x)
        PROVE  x < b
    <3>1. CASE b \in Elems(buf)
      <4>1. buf = eventBuffer /\ Resolved' = Resolved /\ b \in Held
        BY <3>1, <1>2, EmptyElems DEF Resolved
      <4>2. QED
        BY <2>2, <4>1 DEF IInv, InStreamOrder
    <3>2. CASE b \notin Elems(buf)
      <4>1. b = e /\ e \in Events
        BY <1>1, <2>2, <3>2
      <4>2. x \in Held \cup Resolved
        BY <1>2, <2>2
      <4>3. QED
        BY <1>4, <1>5, <2>2, <4>1, <4>2 DEF Events
    <3>3. QED
      BY <3>1, <3>2
  <2>3. QED
    BY <2>1, <2>2 DEF InStreamOrder, Identified
<1>15. OneFate'
  <2>1. \A x \in Events : Identified(x) => ~(x \in Resolved /\ x \in Held)
    BY DEF IInv, InStreamOrder, Events
  <2>2. QED
    BY <2>1 DEF IInv, OneFate, Identified, Resolved
<1>16. QED
  BY <1>7, <1>8, <1>10, <1>11, <1>12, <1>13, <1>14, <1>15 DEF IInv

\* A flush is due: the callback starts with event e in hand (0: blank).
LEMMA FlushStep ==
  ASSUME IInv, pc = "streaming", FlushDue,
         NEW e \in 0..StreamLen,
         pc' = "timeoutFlush", current' = e,
         \/ e = 0 /\ cursor' = cursor
         \/ e = cursor + 1 /\ cursor' = e /\ e <= published,
         published' = published, start' = start, eventBuffer' = eventBuffer,
         lastEventId' = lastEventId, elapsed' = elapsed, retryDelay' = retryDelay,
         handed' = handed, failed' = failed, crashed' = crashed
  PROVE  IInv'
<1> USE CollectorAssumption
<1>1. Held' = Held /\ Resolved' = Resolved
  BY DEF Held, Resolved
<1>2. /\ published \in Nat /\ cursor \in Nat /\ lastEventId \in Nat
      /\ cursor <= published /\ lastEventId <= cursor /\ current = 0
      /\ cursor' \in 0..published /\ current' \in 0..cursor' /\ cursor <= cursor'
      /\ published <= StreamLen
  BY DEF IInv, TypeOK, IdBehindCursor, Connected, InHand
<1>3. TypeOK'
  BY <1>2 DEF IInv, TypeOK, Places
<1>4. InHand' /\ RoomLeft'
  BY <1>2 DEF IInv, InHand, RoomLeft
<1>5. IdBehindCursor' /\ GapFree'
  BY <1>1, <1>2 DEF IInv, IdBehindCursor, GapFree
<1>6. DeliveredTaken'
  BY <1>1, <1>2 DEF IInv, DeliveredTaken, Connected, Events
<1>7. TakenBehind'
  <2>1. Held \cup Resolved \subseteq Events
    BY TakenAreEvents DEF IInv
  <2>2. QED
    BY <1>1, <1>2, <2>1 DEF IInv, TakenBehind, Connected, Identified, Events
<1>8. InStreamOrder' /\ OneFate'
  BY <1>1 DEF IInv, InStreamOrder, OneFate, Identified
<1>9. QED
  BY <1>3, <1>4, <1>5, <1>6, <1>7, <1>8 DEF IInv

\* One round of the loop, with or without a flush before the event is taken.
LEMMA ReceiveStep == IInv /\ Receive => IInv'
<1> SUFFICES ASSUME IInv, Receive PROVE IInv'
  OBVIOUS
<1> USE CollectorAssumption
<1>1. /\ pc = "streaming" /\ cursor' = cursor + 1 /\ cursor' \in 0..published
      /\ cursor' \in 0..StreamLen /\ cursor' # 0 /\ current = 0 /\ cursor \in Nat
      /\ published' = published /\ start' = start /\ elapsed' = elapsed
      /\ retryDelay' = retryDelay
      /\ handed' = handed /\ failed' = failed /\ crashed' = crashed
      /\ elapsed' \in 0..BatchTimeout
      /\ cursor + 1 \in 0..StreamLen /\ cursor + 1 <= published
  BY DEF IInv, TypeOK, InHand, Receive, fateVars
<1>2. CASE FlushDue
  <2>1. /\ pc' = "timeoutFlush" /\ current' = cursor + 1
        /\ eventBuffer' = eventBuffer /\ lastEventId' = lastEventId
    BY <1>2 DEF Receive
  <2>2. QED
    BY <1>1, <1>2, <2>1, FlushStep
<1>3. CASE ~FlushDue
  <2>1. Take(cursor + 1, eventBuffer) /\ current' = 0
    BY <1>1, <1>3 DEF Receive
  <2>2. eventBuffer \in Seq(Events) /\ Len(eventBuffer) < BatchSize
    BY <1>1 DEF IInv, TypeOK, RoomLeft
  <2>3. Connected
    BY <1>1 DEF Connected
  <2>4. QED
    BY <1>1, <2>1, <2>2, <2>3, TakeStep
<1>4. QED
  BY <1>2, <1>3

\* A blank line can only start a flush.
LEMMA ReceiveBlankStep == IInv /\ ReceiveBlank => IInv'
<1> SUFFICES ASSUME IInv, ReceiveBlank PROVE IInv'
  OBVIOUS
<1>1. 0 \in 0..StreamLen
  BY CollectorAssumption
<1>2. QED
  BY <1>1, FlushStep DEF ReceiveBlank, streamVars, bufferVars, fateVars

\* The buffer was handed over, and the event in hand of a time-out flush is taken.
LEMMA CallbackReturnsStep == IInv /\ CallbackReturns => IInv'
<1> SUFFICES ASSUME IInv, CallbackReturns PROVE IInv'
  OBVIOUS
<1> USE CollectorAssumption
<1>1. /\ Connected /\ handed' = handed \cup Held /\ elapsed' \in 0..BatchTimeout
      /\ current' = 0 /\ published' = published /\ cursor' = cursor /\ start' = start
      /\ retryDelay' = retryDelay /\ failed' = failed /\ crashed' = crashed
      /\ cursor' \in 0..published
      /\ <<>> \in Seq(Events) /\ Len(<<>>) < BatchSize
  BY EmptyElems DEF IInv, TypeOK, Connected, CallbackReturns, InCallback, streamVars
<1>2. CASE pc = "timeoutFlush"
  <2>1. Take(current, <<>>)
    BY <1>2 DEF CallbackReturns
  <2>2. current \in 0..StreamLen
    BY DEF IInv, TypeOK
  <2>3. current # 0 => current = cursor
    BY DEF IInv, InHand
  <2>4. QED
    BY <1>1, <2>1, <2>2, <2>3, TakeStep
<1>3. CASE pc = "sizeFlush"
  <2>1. eventBuffer' = <<>> /\ pc' = "streaming" /\ lastEventId' = lastEventId
    BY <1>3 DEF CallbackReturns
  <2>2. current = 0 /\ 0 \in 0..StreamLen
    BY <1>3 DEF IInv, InHand
  <2>3. Take(0, <<>>)
    BY <2>1 DEF Take
  <2>4. QED
    BY <1>1, <2>2, <2>3, TakeStep
<1>4. QED
  BY <1>2, <1>3 DEF CallbackReturns, InCallback

\* The buffer is lost, and the event in hand is not taken.
LEMMA CallbackRaisesStep == IInv /\ CallbackRaises => IInv'
<1> SUFFICES ASSUME IInv, CallbackRaises PROVE IInv'
  OBVIOUS
<1> USE CollectorAssumption, EmptyElems
<1>1. /\ Connected /\ failed' = failed \cup Held /\ eventBuffer' = <<>>
      /\ current' = 0 /\ pc' = "sleeping"
      /\ published' = published /\ cursor' = cursor /\ start' = start
      /\ lastEventId' = lastEventId /\ elapsed' = elapsed /\ retryDelay' = retryDelay
      /\ handed' = handed /\ crashed' = crashed
  BY DEF Connected, CallbackRaises, InCallback, streamVars
<1>2. Held' = {} /\ Resolved' = Resolved \cup Held
  BY <1>1 DEF Held, Resolved
<1>3. Held \cup Resolved \subseteq Events
  BY TakenAreEvents DEF IInv
<1>4. TypeOK'
  BY <1>1, <1>3 DEF IInv, TypeOK, Places
<1>5. InHand' /\ RoomLeft' /\ DeliveredTaken' /\ IdBehindCursor'
  BY <1>1 DEF InHand, RoomLeft, DeliveredTaken, IdBehindCursor, Connected
<1>6. GapFree' /\ TakenBehind' /\ InStreamOrder'
  BY <1>1, <1>2 DEF IInv, GapFree, TakenBehind, InStreamOrder, Connected, Identified
<1>7. OneFate'
  <2>1. \A e \in Events : Identified(e) => ~(e \in Resolved /\ e \in Held)
    BY DEF IInv, InStreamOrder, Events
  <2>2. QED
    BY <1>1, <2>1 DEF IInv, OneFate, Identified, Resolved
<1>8. QED
  BY <1>4, <1>5, <1>6, <1>7 DEF IInv

-----------------------------------------------------------------------------
\* Every step keeps the invariant.
LEMMA NextIInv == IInv /\ [Next]_vars => IInv'
<1> SUFFICES ASSUME IInv, [Next]_vars PROVE IInv'
  OBVIOUS
<1>1. CASE Publish \/ Tick \/ ConnectionFails \/ Wake \/ StreamEnds \/ Restart
  BY <1>1, QuietStep
<1>2. CASE Connect
  BY <1>2, ConnectStep
<1>3. CASE Receive
  BY <1>3, ReceiveStep
<1>4. CASE ReceiveBlank
  BY <1>4, ReceiveBlankStep
<1>5. CASE CallbackReturns
  BY <1>5, CallbackReturnsStep
<1>6. CASE CallbackRaises
  BY <1>6, CallbackRaisesStep
<1>7. CASE Crash
  BY <1>7, CrashStep
<1>8. CASE UNCHANGED vars
  <2>1. Held' = Held /\ Resolved' = Resolved
    BY <1>8 DEF vars, Held, Resolved
  <2>2. TypeOK' /\ InHand' /\ RoomLeft' /\ IdBehindCursor'
    BY <1>8 DEF vars, IInv, TypeOK, InHand, RoomLeft, IdBehindCursor, Connected
  <2>3. DeliveredTaken' /\ TakenBehind' /\ GapFree'
    BY <1>8, <2>1
       DEF vars, IInv, DeliveredTaken, TakenBehind, GapFree, Connected, Identified
  <2>4. InStreamOrder' /\ OneFate'
    BY <1>8, <2>1 DEF vars, IInv, InStreamOrder, OneFate, Identified
  <2>5. QED
    BY <2>2, <2>3, <2>4 DEF IInv
<1>9. QED
  BY <1>1, <1>2, <1>3, <1>4, <1>5, <1>6, <1>7, <1>8 DEF Next

\* IInv is an invariant of the collector, whatever the stream and the settings.
THEOREM Inductive == Spec => []IInv
BY InitIInv, NextIInv, PTL DEF Spec

\* The state stays well formed; in particular the buffer never outgrows BatchSize
\* and the delay stays between _RETRY_BASE_DELAY and _RETRY_MAX_DELAY.
THEOREM TypeCorrect == Spec => []TypeOK
<1>1. IInv => TypeOK
  BY DEF IInv
<1>2. QED
  BY <1>1, Inductive, PTL

\* Reconnecting with Last-Event-ID never leaves a gap behind it.
THEOREM NoGap == Spec => []GapFree
<1>1. IInv => GapFree
  BY DEF IInv
<1>2. QED
  BY <1>1, Inductive, PTL

\* Identified events are taken in stream order, each at most once, over any number
\* of reconnections and restarts.
THEOREM TakenInOrder == Spec => []InStreamOrder
<1>1. IInv => InStreamOrder
  BY DEF IInv
<1>2. QED
  BY <1>1, Inductive, PTL

\* No identified event is both handed over and lost.
THEOREM FateIsUnique == Spec => []OneFate
<1>1. IInv => OneFate
  BY DEF IInv
<1>2. QED
  BY <1>1, Inductive, PTL
=============================================================================
