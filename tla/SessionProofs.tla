--------------------------- MODULE SessionProofs ---------------------------
(***************************************************************************)
(* Proofs about EventStream, for any payloads and bounds, and about App,   *)
(* for any runs of a session.                                              *)
(***************************************************************************)
EXTENDS App, FiniteSetTheorems, SequenceTheorems, TLAPS

-----------------------------------------------------------------------------
(* Consecutive places of the log are put in order by counting on.          *)
LEMMA IntervalInOrder ==
  ASSUME NEW m \in Nat, NEW n \in Nat, m <= n
  PROVE  InOrder((m + 1)..n) = [i \in 1..(n - m) |-> m + i]
<1> DEFINE S == (m + 1)..n
<1>1. Cardinality(S) = n - m
  <2>1. Cardinality(S) = IF m + 1 > n THEN 0 ELSE n - (m + 1) + 1
    BY FS_Interval
  <2> QED
    BY <2>1
<1>2. ASSUME NEW s \in S PROVE Place(s, S) = s - m
  <2>1. {t \in S : t < s} = (m + 1)..(s - 1)
    OBVIOUS
  <2>2. Cardinality((m + 1)..(s - 1)) = IF m + 1 > s - 1 THEN 0 ELSE (s - 1) - (m + 1) + 1
    BY FS_Interval
  <2>3. Cardinality((m + 1)..(s - 1)) = s - m - 1
    BY <2>2
  <2>4. Place(s, S) = Cardinality((m + 1)..(s - 1)) + 1
    BY <2>1 DEF Place
  <2> QED
    BY <2>3, <2>4
<1>3. ASSUME NEW i \in 1..(n - m)
      PROVE  (CHOOSE s \in S : Place(s, S) = i) = m + i
  <2>1. m + i \in S /\ \A s \in S : Place(s, S) = i <=> s = m + i
    BY <1>2
  <2> HIDE DEF S
  <2> QED
    BY <2>1
<1> QED
  BY <1>1, <1>3 DEF InOrder

(* The frames of all events after a place of the log.                      *)
After(events, id) ==
  [i \in 1..(Len(events) - id) |-> [id |-> id + i, data |-> events[id + i]]]

LEMMA AfterSeq ==
  ASSUME NEW events \in Seq(Payloads), Len(events) <= MaxEvents, NEW id \in 0..Len(events)
  PROVE  /\ After(events, id) \in Seq(Frames)
         /\ Len(After(events, id)) = Len(events) - id
<1>1. Len(events) \in Nat /\ Len(events) - id \in Nat
  OBVIOUS
<1>2. ASSUME NEW i \in 1..(Len(events) - id)
      PROVE  [id |-> id + i, data |-> events[id + i]] \in Frames
  <2>1. id + i \in 1..Len(events) /\ id + i \in 1..MaxEvents
    BY <1>1, EventStreamAssumption
  <2>2. events[id + i] \in Payloads
    BY <2>1
  <2> QED
    BY <2>1, <2>2 DEF Frames
<1>3. After(events, id) \in [1..(Len(events) - id) -> Frames]
  BY <1>2 DEF After
<1> QED
  BY <1>1, <1>3

(* What was sent, and the live tail behind it, is one sequence of frames.  *)
LEMMA AfterExtended ==
  ASSUME NEW events \in Seq(Payloads), NEW more \in Seq(Payloads),
         Len(events) <= Len(more), Len(more) <= MaxEvents,
         \A i \in 1..Len(events) : more[i] = events[i],
         NEW id \in 0..Len(events)
  PROVE  After(events, id) \o After(more, Len(events)) = After(more, id)
<1> DEFINE n == Len(events) - id
           sent == After(events, id)
           tail == After(more, Len(events))
           all == After(more, id)
<1> HIDE DEF sent, tail, all
<1>1. Len(events) \in Nat /\ Len(more) \in Nat /\ n \in Nat
  OBVIOUS
<1>2. sent \in Seq(Frames) /\ Len(sent) = n
  BY <1>1, EventStreamAssumption, AfterSeq DEF sent
<1>3. tail \in Seq(Frames) /\ Len(tail) = Len(more) - Len(events)
  BY <1>1, AfterSeq DEF tail
<1>4. all \in Seq(Frames) /\ Len(all) = Len(more) - id
  BY <1>1, AfterSeq DEF all
<1>5. /\ sent \o tail \in Seq(Frames)
      /\ Len(sent \o tail) = Len(sent) + Len(tail)
      /\ \A i \in 1..(Len(sent) + Len(tail)) :
           (sent \o tail)[i] = IF i <= Len(sent) THEN sent[i] ELSE tail[i - Len(sent)]
  BY <1>2, <1>3, ConcatProperties
<1>6. Len(sent \o tail) = Len(all)
  BY <1>1, <1>2, <1>3, <1>4, <1>5
<1>7. ASSUME NEW i \in 1..Len(all) PROVE (sent \o tail)[i] = all[i]
  <2>1. i \in Nat /\ 1 <= i /\ i <= Len(more) - id
    BY <1>1, <1>4
  <2>2. all[i] = [id |-> id + i, data |-> more[id + i]]
    BY <1>1, <2>1 DEF After, all
  <2>3. CASE i <= n
    <3>1. (sent \o tail)[i] = sent[i]
      BY <1>1, <1>2, <1>3, <1>5, <2>1, <2>3
    <3>2. sent[i] = [id |-> id + i, data |-> events[id + i]]
      BY <1>1, <2>1, <2>3 DEF After, sent
    <3>3. id + i \in 1..Len(events)
      BY <1>1, <2>1, <2>3
    <3> QED
      BY <2>2, <3>1, <3>2, <3>3
  <2>4. CASE i > n
    <3>1. (sent \o tail)[i] = tail[i - n]
      BY <1>1, <1>2, <1>3, <1>5, <2>1, <2>4
    <3>2. i - n \in 1..(Len(more) - Len(events)) /\ Len(events) + (i - n) = id + i
      BY <1>1, <2>1, <2>4
    <3>3. tail[i - n] = [id |-> Len(events) + (i - n), data |-> more[Len(events) + (i - n)]]
      BY <3>2 DEF After, tail
    <3> QED
      BY <2>2, <3>1, <3>2, <3>3
  <2>5. i <= n \/ i > n
    BY <1>1, <2>1
  <2> QED
    BY <2>3, <2>4, <2>5
<1>8. \A i \in 1..Len(sent \o tail) : (sent \o tail)[i] = all[i]
  BY <1>6, <1>7
<1> QED
  BY <1>4, <1>5, <1>6, <1>8, SeqEqual DEF sent, tail, all

(* A frame received in full is that of the next event.                     *)
LEMMA AfterReceived ==
  ASSUME NEW events \in Seq(Payloads), Len(events) <= MaxEvents, NEW id \in 0..Len(events),
         After(events, id) # <<>>
  PROVE  /\ id + 1 \in 1..Len(events)
         /\ Head(After(events, id)) = [id |-> id + 1, data |-> events[id + 1]]
         /\ Tail(After(events, id)) = After(events, id + 1)
<1> DEFINE sent == After(events, id)
           rest == After(events, id + 1)
<1>1. sent \in Seq(Frames) /\ Len(sent) = Len(events) - id
  BY AfterSeq
<1>2. Len(sent) # 0
  BY <1>1
<1>3. id + 1 \in 1..Len(events) /\ id + 1 \in 0..Len(events)
  BY <1>1, <1>2
<1>4. rest \in Seq(Frames) /\ Len(rest) = Len(events) - (id + 1)
  BY <1>3, AfterSeq
<1>5. Head(sent) = [id |-> id + 1, data |-> events[id + 1]]
  <2>1. Head(sent) = sent[1]
    BY <1>1
  <2> QED
    BY <1>3, <2>1 DEF After
<1>6. /\ Tail(sent) \in Seq(Frames)
      /\ Len(Tail(sent)) = Len(sent) - 1
      /\ \A i \in 1..Len(Tail(sent)) : Tail(sent)[i] = sent[i + 1]
  BY <1>1, HeadTailProperties
<1>7. ASSUME NEW i \in 1..Len(Tail(sent)) PROVE Tail(sent)[i] = rest[i]
  <2>1. i \in 1..(Len(events) - (id + 1)) /\ i + 1 \in 1..(Len(events) - id)
    BY <1>1, <1>3, <1>6
  <2>2. sent[i + 1] = [id |-> id + (i + 1), data |-> events[id + (i + 1)]]
    BY <2>1 DEF After
  <2>3. rest[i] = [id |-> (id + 1) + i, data |-> events[(id + 1) + i]]
    BY <2>1 DEF After
  <2>4. id + (i + 1) = (id + 1) + i
    BY <2>1
  <2> QED
    BY <1>6, <2>2, <2>3, <2>4
<1>8. Len(Tail(sent)) = Len(rest)
  BY <1>1, <1>4, <1>6
<1> HIDE DEF sent, rest
<1>9. Tail(sent) = rest
  BY <1>4, <1>6, <1>7, <1>8, SeqEqual
<1> QED
  BY <1>3, <1>5, <1>9 DEF sent, rest

-----------------------------------------------------------------------------
(* The inductive invariant of the stream: the client is not ahead of the   *)
(* log, the handler's guard is not either, nothing is on a wire without a  *)
(* connection, and what is in the buffer came over this connection.        *)
WithinLog ==
  /\ Len(log) <= MaxEvents
  /\ lastEventId <= Len(log)
  /\ conn = "open" => highWater <= Len(log)
  /\ conn # "open" => wire = <<>>
  /\ conn = "open" /\ buffer # None => buffer.from = drops

StreamSound == TypeOK /\ PlaceKept /\ WithinLog

LEMMA PlaceKeptIs ==
  PlaceKept <=> /\ lastEventId = Len(applied)
                /\ conn = "open" => wire = After(log, lastEventId)
BY DEF PlaceKept, After

LEMMA StreamInit == Init => StreamSound
<1> SUFFICES ASSUME Init PROVE StreamSound
  OBVIOUS
<1>1. TypeOK
  BY EventStreamAssumption DEF Init, TypeOK
<1> QED
  BY <1>1, EventStreamAssumption DEF Init, StreamSound, PlaceKept, WithinLog

(* What a commit puts on the wire is what comes next in the log.           *)
LEMMA LiveIsAfter ==
  ASSUME NEW m \in Nat, log' \in Seq(Payloads), m <= Len(log')
  PROVE  Live(InOrder((m + 1)..Len(log'))) = After(log', m)
<1>1. Len(log') \in Nat /\ Len(log') - m \in Nat
  OBVIOUS
<1> DEFINE seqs == [i \in 1..(Len(log') - m) |-> m + i]
<1>2. InOrder((m + 1)..Len(log')) = seqs
  BY <1>1, IntervalInOrder
<1>3. Len(seqs) = Len(log') - m
  BY <1>1
<1>4. \A i \in 1..(Len(log') - m) : Frame(seqs[i]) = [id |-> m + i, data |-> log'[m + i]]
  BY <1>1 DEF Frame
<1> HIDE DEF seqs
<1> QED
  BY <1>2, <1>3, <1>4 DEF Live, After

(* A transaction appends.                                                  *)
LEMMA CommitAppends ==
  ASSUME log \in Seq(Payloads), Commit
  PROVE  /\ log' \in Seq(Payloads)
         /\ Len(log) \in Nat /\ Len(log') \in Nat
         /\ Len(log) <= Len(log')
         /\ \A i \in 1..Len(log) : log'[i] = log[i]
         /\ Reader!Publish
<1>1. PICK p \in Payloads, q \in Payloads \cup {None} :
        log' = IF q = None THEN Append(log, p) ELSE log \o <<p, q>>
  BY DEF Commit
<1>2. UNCHANGED <<conn, applied>>
  BY DEF Commit
<1>3. CASE q = None
  <2>1. log' = Append(log, p)
    BY <1>1, <1>3
  <2>2. Reader!Publish
    BY <1>2, <2>1 DEF Reader!Publish
  <2> QED
    BY <2>1, <2>2
<1>4. CASE q # None
  <2>1. log' = log \o <<p, q>> /\ q \in Payloads
    BY <1>1, <1>4
  <2>2. Reader!Publish
    BY <1>2, <2>1 DEF Reader!Publish
  <2>3. <<p, q>> \in Seq(Payloads) /\ Len(<<p, q>>) = 2
    BY <2>1
  <2>4. /\ log' \in Seq(Payloads)
        /\ Len(log') = Len(log) + 2
        /\ \A i \in 1..Len(log) + 2 :
             log'[i] = IF i <= Len(log) THEN log[i] ELSE <<p, q>>[i - Len(log)]
    BY <2>1, <2>3, ConcatProperties
  <2> QED
    BY <2>2, <2>4
<1> QED
  BY <1>3, <1>4

LEMMA CommitSound ==
  ASSUME StreamSound, Commit
  PROVE  StreamSound'
<1>0. TypeOK /\ PlaceKept /\ WithinLog
  BY DEF StreamSound
<1>1. /\ log' \in Seq(Payloads)
      /\ Len(log) \in Nat /\ Len(log') \in Nat
      /\ Len(log) <= Len(log')
      /\ \A i \in 1..Len(log) : log'[i] = log[i]
  BY <1>0, CommitAppends DEF TypeOK
<1>2. /\ Len(log') <= MaxEvents
      /\ wire' = IF conn = "open" THEN wire \o Live(Listened) ELSE wire
      /\ UNCHANGED <<conn, highWater, buffer, lastEventId, applied, drops>>
  BY DEF Commit
<1>3. lastEventId \in 0..Len(log) /\ lastEventId \in 0..Len(log')
  BY <1>0, <1>1 DEF TypeOK, WithinLog
<1>4. CASE conn = "open"
  <2>1. {s \in Emitted : s > highWater} = (Len(log) + 1)..Len(log')
    BY <1>0, <1>1, <1>4 DEF Emitted, WithinLog, TypeOK
  <2>2. Live(Listened) = After(log', Len(log))
    BY <1>1, <2>1, LiveIsAfter DEF Listened
  <2>3. wire = After(log, lastEventId)
    BY <1>0, <1>4, PlaceKeptIs
  <2>4. log \in Seq(Payloads)
    BY <1>0 DEF TypeOK
  <2>5. After(log, lastEventId) \o After(log', Len(log)) = After(log', lastEventId)
    BY <1>1, <1>2, <1>3, <2>4, AfterExtended
  <2>6. wire' = After(log', lastEventId)
    BY <1>2, <1>4, <2>2, <2>3, <2>5
  <2>7. wire' \in Seq(Frames)
    BY <1>1, <1>2, <1>3, <2>6, AfterSeq
  <2>8. TypeOK'
    BY <1>0, <1>1, <1>2, <2>7 DEF TypeOK
  <2>9. PlaceKept'
    BY <1>0, <1>2, <2>6 DEF PlaceKept, After
  <2>10. WithinLog'
    BY <1>0, <1>1, <1>2, <1>3, <1>4 DEF WithinLog, TypeOK
  <2> QED
    BY <2>8, <2>9, <2>10 DEF StreamSound
<1>5. CASE conn # "open"
  <2>1. TypeOK'
    BY <1>0, <1>1, <1>2, <1>5 DEF TypeOK
  <2>2. PlaceKept'
    BY <1>0, <1>2, <1>5 DEF PlaceKept
  <2>3. WithinLog'
    BY <1>0, <1>1, <1>2, <1>3, <1>5 DEF WithinLog, TypeOK
  <2> QED
    BY <2>1, <2>2, <2>3 DEF StreamSound
<1> QED
  BY <1>4, <1>5

LEMMA SubscribeSound ==
  ASSUME StreamSound, Subscribe
  PROVE  StreamSound' /\ Reader!Come
<1>1. TypeOK /\ PlaceKept /\ WithinLog
  BY DEF StreamSound
<1>2. TypeOK'
  BY <1>1, EventStreamAssumption DEF TypeOK, Subscribe
<1>3. PlaceKept' /\ WithinLog'
  BY <1>1 DEF TypeOK, PlaceKept, WithinLog, Subscribe
<1>4. Reader!Come
  BY DEF Subscribe, Reader!Come
<1> QED
  BY <1>2, <1>3, <1>4 DEF StreamSound

LEMMA UnsubscribeSound ==
  ASSUME StreamSound, Unsubscribe
  PROVE  StreamSound' /\ Reader!Leave
<1>1. TypeOK /\ PlaceKept /\ WithinLog
  BY DEF StreamSound
<1>2. TypeOK'
  BY <1>1 DEF TypeOK, Unsubscribe
<1>3. PlaceKept' /\ WithinLog'
  BY <1>1 DEF PlaceKept, WithinLog, Unsubscribe
<1>4. Reader!Leave
  BY DEF Unsubscribe, Reader!Leave
<1> QED
  BY <1>2, <1>3, <1>4 DEF StreamSound

(* The backfill after the client's place is everything it has not got.     *)
LEMMA ConnectSound ==
  ASSUME StreamSound, Connect
  PROVE  StreamSound' /\ UNCHANGED Reader!vars
<1>1. TypeOK /\ PlaceKept /\ WithinLog
  BY DEF StreamSound
<1>2. /\ conn = "connecting" /\ conn' = "open"
      /\ highWater' = Len(log)
      /\ log' = log
      /\ buffer' = None
      /\ UNCHANGED <<lastEventId, applied, drops>>
  BY DEF Connect, NewBuffer
<1>3. log \in Seq(Payloads) /\ Len(log) \in Nat /\ Len(log) <= MaxEvents /\ lastEventId \in 0..Len(log)
  BY <1>1 DEF TypeOK, WithinLog
<1>4. {s \in DOMAIN log : s > lastEventId} = (lastEventId + 1)..Len(log')
  BY <1>2, <1>3
<1>5. wire' = After(log', lastEventId)
  <2>1. wire' = Live(InOrder((lastEventId + 1)..Len(log')))
    BY <1>4 DEF Connect, BackfillAfter
  <2> QED
    BY <2>1, <1>2, <1>3, LiveIsAfter
<1>6. wire' \in Seq(Frames)
  BY <1>2, <1>3, <1>5, AfterSeq
<1>7. TypeOK'
  BY <1>1, <1>2, <1>3, <1>6, EventStreamAssumption DEF TypeOK
<1>8. PlaceKept'
  BY <1>1, <1>2, <1>5 DEF PlaceKept, After
<1>9. WithinLog'
  BY <1>1, <1>2, <1>3 DEF WithinLog
<1>10. UNCHANGED Reader!vars
  BY <1>2 DEF Reader!vars
<1> QED
  BY <1>7, <1>8, <1>9, <1>10 DEF StreamSound

LEMMA DropSound ==
  ASSUME StreamSound, Drop
  PROVE  StreamSound' /\ UNCHANGED Reader!vars
<1>1. TypeOK /\ PlaceKept /\ WithinLog
  BY DEF StreamSound
<1>2. TypeOK'
  BY <1>1, EventStreamAssumption DEF TypeOK, Drop
<1>3. PlaceKept' /\ WithinLog'
  BY <1>1 DEF PlaceKept, WithinLog, Drop
<1>4. UNCHANGED Reader!vars
  BY DEF Drop, Reader!vars
<1> QED
  BY <1>2, <1>3, <1>4 DEF StreamSound

LEMMA ChunkEndsSound ==
  ASSUME StreamSound, ChunkEndsInFrame
  PROVE  StreamSound' /\ UNCHANGED Reader!vars
<1>1. TypeOK /\ PlaceKept /\ WithinLog
  BY DEF StreamSound
<1>2. Head(wire) \in Frames
  BY <1>1, HeadTailProperties DEF TypeOK, ChunkEndsInFrame
<1>3. buffer' = [frame |-> Head(wire), from |-> drops]
  BY DEF ChunkEndsInFrame
<1>4. TypeOK'
  BY <1>1, <1>2, <1>3 DEF TypeOK, ChunkEndsInFrame
<1>5. PlaceKept' /\ WithinLog'
  BY <1>1, <1>3 DEF PlaceKept, WithinLog, ChunkEndsInFrame
<1>6. UNCHANGED Reader!vars
  BY DEF ChunkEndsInFrame, Reader!vars
<1> QED
  BY <1>4, <1>5, <1>6 DEF StreamSound

(* The frame completed is never glued to that of an earlier connection, so *)
(* it is the event after the client's place.                               *)
LEMMA ChunkCompletesSound ==
  ASSUME StreamSound, ChunkCompletesFrame
  PROVE  StreamSound' /\ Reader!Read
<1>1. TypeOK /\ PlaceKept /\ WithinLog
  BY DEF StreamSound
<1>2. conn = "open" /\ wire # <<>> /\ ~Glued
  BY <1>1 DEF ChunkCompletesFrame, WithinLog, Glued
<1>3. log \in Seq(Payloads) /\ Len(log) \in Nat /\ Len(log) <= MaxEvents /\ lastEventId \in 0..Len(log)
  BY <1>1 DEF TypeOK, WithinLog
<1>4. wire = After(log, lastEventId)
  BY <1>1, <1>2, PlaceKeptIs
<1>5. /\ lastEventId + 1 \in 1..Len(log)
      /\ Head(wire) = [id |-> lastEventId + 1, data |-> log[lastEventId + 1]]
      /\ Tail(wire) = After(log, lastEventId + 1)
  BY <1>2, <1>3, <1>4, AfterReceived
<1>6. Parsed.id = lastEventId + 1 /\ Parsed.data = log[lastEventId + 1]
  BY <1>2, <1>5 DEF Parsed
<1>7. log[lastEventId + 1] \in Payloads /\ log[lastEventId + 1] # None
  BY <1>3, <1>5, EventStreamAssumption
<1>8. /\ lastEventId' = lastEventId + 1
      /\ applied' = Append(applied, log[lastEventId + 1])
      /\ wire' = After(log, lastEventId + 1)
      /\ buffer' = None
      /\ UNCHANGED <<log, conn, highWater, drops>>
  BY <1>3, <1>5, <1>6, <1>7 DEF ChunkCompletesFrame, SeenId
<1>9. wire' \in Seq(Frames)
  BY <1>1, <1>2, <1>8, HeadTailProperties DEF TypeOK, ChunkCompletesFrame
<1>10. applied \in Seq(Payloads) /\ applied' \in Seq(Payloads) /\ Len(applied') = Len(applied) + 1
  BY <1>1, <1>7, <1>8 DEF TypeOK
<1>11. lastEventId + 1 \in 0..MaxEvents
  BY <1>3, <1>5, EventStreamAssumption
<1>12. TypeOK'
  BY <1>1, <1>8, <1>9, <1>10, <1>11 DEF TypeOK
<1>13. lastEventId = Len(applied)
  BY <1>1 DEF PlaceKept
<1>14. PlaceKept'
  BY <1>8, <1>10, <1>13 DEF PlaceKept, After
<1>15. WithinLog'
  BY <1>1, <1>2, <1>3, <1>5, <1>8 DEF WithinLog
<1>16. Reader!Read
  <2>1. conn # "closed" /\ (conn # "closed")' = (conn # "closed")
    BY <1>2, <1>8
  <2>2. Len(applied) < Len(log)
    BY <1>3, <1>5, <1>13
  <2> QED
    BY <1>8, <1>13, <2>1, <2>2 DEF Reader!Read
<1> QED
  BY <1>12, <1>14, <1>15, <1>16 DEF StreamSound

LEMMA StreamStepSound ==
  ASSUME StreamSound, [Next]_vars
  PROVE  StreamSound' /\ [Reader!Next]_(Reader!vars)
<1>1. CASE UNCHANGED vars
  <2>1. UNCHANGED Reader!vars
    BY <1>1 DEF vars, Reader!vars
  <2>2. StreamSound'
    BY <1>1 DEF vars, StreamSound, TypeOK, PlaceKept, WithinLog
  <2> QED
    BY <2>1, <2>2
<1>2. CASE Commit
  <2>1. log \in Seq(Payloads)
    BY DEF StreamSound, TypeOK
  <2> QED
    BY <1>2, <2>1, CommitAppends, CommitSound DEF Reader!Next
<1>3. CASE Subscribe
  BY <1>3, SubscribeSound DEF Reader!Next
<1>4. CASE Unsubscribe
  BY <1>4, UnsubscribeSound DEF Reader!Next
<1>5. CASE Connect
  BY <1>5, ConnectSound
<1>6. CASE Drop
  BY <1>6, DropSound
<1>7. CASE ChunkEndsInFrame
  BY <1>7, ChunkEndsSound
<1>8. CASE ChunkCompletesFrame
  BY <1>8, ChunkCompletesSound DEF Reader!Next
<1> QED
  BY <1>1, <1>2, <1>3, <1>4, <1>5, <1>6, <1>7, <1>8 DEF Next

(* The stream by itself: the client's place is what it has been handed,    *)
(* wherever connections break (startEventStream, handleSse).               *)
THEOREM PlaceIsKept == Spec => []StreamInv
<1>1. Init => StreamSound
  BY StreamInit
<1>2. StreamSound /\ [Next]_vars => StreamSound'
  BY StreamStepSound
<1>3. StreamSound => StreamInv
  BY DEF StreamSound, StreamInv
<1> QED
  BY <1>1, <1>2, <1>3, PTL DEF Spec

(* Every step of the stream is one that a reader of the log may take: it   *)
(* comes, is handed the next event, or leaves.                             *)
ReadsInOrder == Reader!Init /\ [][Reader!Next]_(Reader!vars)

THEOREM StreamReadsInOrder == Spec => ReadsInOrder
<1>1. Init => StreamSound /\ Reader!Init
  BY StreamInit DEF Init, Reader!Init
<1>2. StreamSound /\ [Next]_vars => StreamSound' /\ [Reader!Next]_(Reader!vars)
  BY StreamStepSound
<1> QED
  BY <1>1, <1>2, PTL DEF Spec, ReadsInOrder

-----------------------------------------------------------------------------
(* The inductive invariant of the session: what the last render showed,    *)
(* against what is current. Once the session is quit no state is set any   *)
(* more, and nobody looks.                                                 *)
BusyShown == command # Idle => view.busy

OneAtATime ==
  ~exited =>
    /\ StartingRun => runId = None /\ view.runId = None
    /\ ~view.busy /\ view.runId = None => runId = None
    /\ RunActive => runId = view.runId

RunsKnown ==
  /\ printed \in Seq(Runs)
  /\ committed \subseteq viewed
  /\ runId # None => runId \in viewed
  /\ \A r \in viewed : EventsOf(log, r) # {}
  /\ command.phase = "answering" =>
       command.run \in Runs \ viewed /\ EventsOf(log, command.run) # {}

PressesNoted ==
  /\ cancelRequested => StartingRun
  /\ ~exited =>
       /\ cancelling => runId # None
       /\ ~pressed => ~cancelling /\ ~cancelRequested
       /\ pressed /\ StartingRun => cancelRequested
       /\ pressed /\ runId # None => cancelling

SessionSound ==
  /\ AppTypeOK /\ BusyShown /\ OneAtATime /\ RunsKnown
  /\ NoRunLost /\ PrintedOnce /\ PressesNoted

LEMMA SessionInit == AppInit => StreamSound /\ SessionSound
<1> SUFFICES ASSUME AppInit PROVE StreamSound /\ SessionSound
  OBVIOUS
<1>1. StreamSound /\ log = <<>>
  BY StreamInit DEF AppInit, Init
<1>2. RunsKnown
  BY DEF AppInit, RunsKnown, Idle
<1>5. AppTypeOK
  BY DEF AppInit, AppTypeOK, Idle
<1>3. BusyShown /\ OneAtATime /\ NoRunLost /\ PressesNoted
  BY DEF AppInit, BusyShown, OneAtATime, RunActive, StartingRun, Idle, NoRunLost, PressesNoted
<1>4. PrintedOnce
  BY <1>2 DEF AppInit, PrintedOnce, IsInjective, ToSet, RunsKnown
<1> QED
  BY <1>1, <1>2, <1>3, <1>4, <1>5 DEF SessionSound

(* The events of a run stay in the log.                                    *)
LogGrows == \A r \in Runs : EventsOf(log, r) # {} => EventsOf(log', r) # {}

LEMMA CommitGrows ==
  ASSUME StreamSound, [Next]_vars
  PROVE  LogGrows
<1>1. log \in Seq(Payloads)
  BY DEF StreamSound, TypeOK
<1>2. Len(log) \in Nat /\ Len(log') \in Nat /\ Len(log) <= Len(log') /\ log' \in Seq(Payloads)
      /\ \A i \in 1..Len(log) : log'[i] = log[i]
  <2>1. Commit \/ log' = log
    BY DEF Next, vars, Subscribe, Unsubscribe, Connect, Drop, ChunkEndsInFrame, ChunkCompletesFrame
  <2>2. CASE Commit
    BY <1>1, <2>2, CommitAppends
  <2>3. CASE log' = log
    BY <1>1, <2>3
  <2> QED
    BY <2>1, <2>2, <2>3
<1>3. DOMAIN log = 1..Len(log) /\ DOMAIN log' = 1..Len(log')
  BY <1>1, <1>2
<1> SUFFICES ASSUME NEW r \in Runs, EventsOf(log, r) # {} PROVE EventsOf(log', r) # {}
  BY DEF LogGrows
<1>4. PICK i \in DOMAIN log : log[i].run = r
  BY DEF EventsOf
<1>5. i \in DOMAIN log' /\ log'[i].run = r
  BY <1>2, <1>3, <1>4
<1> QED
  BY <1>5 DEF EventsOf

(* A step that touches the session only in its stream or its requests.     *)
LEMMA ElsewhereSound ==
  ASSUME SessionSound, LogGrows, AppTypeOK',
         UNCHANGED <<screen, command, refs, exited, printed, viewed, pressed>>
  PROVE  SessionSound'
<1> USE DEF SessionSound, screen, refs
<1>1. BusyShown' /\ OneAtATime' /\ NoRunLost' /\ PressesNoted'
  BY DEF BusyShown, OneAtATime, RunActive, StartingRun, NoRunLost, PressesNoted
<1>2. PrintedOnce'
  BY DEF PrintedOnce, IsInjective, ToSet
<1>3. viewed \subseteq Runs
  BY DEF AppTypeOK
<1>4. RunsKnown'
  BY <1>3 DEF RunsKnown, LogGrows
<1> QED
  BY <1>1, <1>2, <1>4

(* Every step of the session is one of the stream, or leaves it alone.     *)
LEMMA SessionStepsStream ==
  ASSUME [AppNext]_appVars
  PROVE  [Next]_vars
<1>1. \A r \in Runs : RoundEnds(r) \/ OtherClientAddsRound(r) \/ DaemonStartsRun(r) => Next
  BY DEF RoundEnds, OtherClientAddsRound, DaemonStartsRun, Publish, Next
<1>2. \A r \in Runs : CancelArrives(r) \/ CancelFails(r) => [Next]_vars
  BY DEF CancelArrives, CancelFails, Publish, Next
<1>3. SubmitRun \/ SubmitOther \/ DaemonEnsured \/ Answered \/ FailsOrEnds => UNCHANGED vars
  BY DEF SubmitRun, SubmitOther, DaemonEnsured, Answered, FailsOrEnds
<1>4. Quit \/ CtrlC => [Next]_vars
  BY DEF Quit, CtrlC, CancelActiveRun, CancelStartingRun, Exit, Next
<1>5. Render => [Next]_vars
  BY DEF Render, FollowRun, HandOver, Repaint, Next
<1>6. StreamStep => Next
  BY DEF StreamStep, Next
<1>7. UNCHANGED appVars => UNCHANGED vars
  BY DEF appVars
<1> QED
  BY <1>1, <1>2, <1>3, <1>4, <1>5, <1>6, <1>7 DEF AppNext

(* What happens at the daemon and on the connections.                      *)
LEMMA OutsideSound ==
  ASSUME SessionSound, LogGrows, NEW r \in Runs,
         RoundEnds(r) \/ OtherClientAddsRound(r) \/ CancelArrives(r) \/ CancelFails(r) \/ StreamStep
  PROVE  SessionSound'
<1>1. UNCHANGED <<screen, command, refs, exited, printed, viewed, pressed>>
  BY DEF RoundEnds, OtherClientAddsRound, CancelArrives, CancelFails, StreamStep, history
<1>2. cancels' \subseteq cancels /\ refused' \subseteq refused \cup {r}
  BY DEF RoundEnds, OtherClientAddsRound, CancelArrives, CancelFails, StreamStep, history
<1>3. AppTypeOK'
  BY <1>1, <1>2 DEF SessionSound, AppTypeOK, screen, refs
<1> QED
  BY <1>1, <1>3, ElsewhereSound

(* A command is submitted by what the last render showed, which is current *)
(* as far as that no command was busy and no run on view.                  *)
LEMMA SubmitRunSound ==
  ASSUME SessionSound, SubmitRun
  PROVE  SessionSound'
<1> USE DEF SessionSound, SubmitRun, Submit, refs, Idle
<1>1. /\ command' = [phase |-> "ensuring", run |-> None]
      /\ view' = [view EXCEPT !.busy = TRUE]
      /\ UNCHANGED <<log, runId, streamed, refs, cancels, exited, printed, viewed, refused>>
      /\ pressed' = FALSE
      /\ ~exited /\ ~view.busy /\ view.runId = None
  BY DEF vars, HasNoActiveRun
<1>2. view \in [runId : Runs \cup {None}, timeline : {"none", "live", "terminal"}, busy : BOOLEAN]
  BY DEF AppTypeOK
<1>3. view'.runId = None /\ view'.busy /\ view' \in [runId : Runs \cup {None}, timeline : {"none", "live", "terminal"}, busy : BOOLEAN]
  BY <1>1, <1>2
<1>4. command = Idle /\ ~StartingRun /\ ~cancelRequested
  BY <1>1 DEF BusyShown, PressesNoted, StartingRun
<1>5. runId = None /\ ~cancelling
  BY <1>1 DEF OneAtATime, PressesNoted
<1>6. AppTypeOK'
  <2>1. pressed' \in BOOLEAN
    BY <1>1
  <2>2. command' \in [phase : {"none", "ensuring", "starting", "answering", "other"},
                      run : Runs \cup {None}]
    BY <1>1
  <2>3. {cancelRequested, cancelling, exited} \subseteq BOOLEAN
    BY DEF AppTypeOK
  <2>4. {cancelRequested', cancelling', exited', pressed'} \subseteq BOOLEAN
    BY <1>1, <2>1, <2>3
  <2> QED
    BY <1>1, <1>3, <2>2, <2>4 DEF AppTypeOK
<1>7. BusyShown' /\ OneAtATime'
  BY <1>1, <1>3, <1>5 DEF BusyShown, OneAtATime, RunActive
<1>8. RunsKnown' /\ NoRunLost'
  BY <1>1 DEF RunsKnown, NoRunLost, EventsOf
<1>9. PrintedOnce'
  BY <1>1 DEF PrintedOnce, IsInjective, ToSet
<1>10. PressesNoted'
  BY <1>1, <1>4, <1>5 DEF PressesNoted
<1> QED
  BY <1>6, <1>7, <1>8, <1>9, <1>10

LEMMA SubmitOtherSound ==
  ASSUME SessionSound, SubmitOther
  PROVE  SessionSound'
<1> USE DEF SessionSound, SubmitOther, Submit, refs, Idle
<1>1. /\ command' = [phase |-> "other", run |-> None]
      /\ view' = [view EXCEPT !.busy = TRUE]
      /\ UNCHANGED <<log, runId, streamed, refs, cancels, exited, printed, viewed, refused, pressed>>
      /\ ~exited /\ ~view.busy
  BY DEF vars, history
<1>2. view \in [runId : Runs \cup {None}, timeline : {"none", "live", "terminal"}, busy : BOOLEAN]
  BY DEF AppTypeOK
<1>3. /\ view'.runId = view.runId /\ view'.timeline = view.timeline /\ view'.busy
      /\ view' \in [runId : Runs \cup {None}, timeline : {"none", "live", "terminal"}, busy : BOOLEAN]
  BY <1>1, <1>2
<1>4. ~StartingRun /\ ~StartingRun' /\ ~cancelRequested
  BY <1>1 DEF BusyShown, PressesNoted, StartingRun
<1>5. AppTypeOK'
  BY <1>1, <1>3 DEF AppTypeOK
<1>6. BusyShown' /\ OneAtATime'
  BY <1>1, <1>3, <1>4 DEF BusyShown, OneAtATime, RunActive
<1>7. RunsKnown' /\ NoRunLost'
  BY <1>1 DEF RunsKnown, NoRunLost, EventsOf
<1>8. PrintedOnce'
  BY <1>1 DEF PrintedOnce, IsInjective, ToSet
<1>9. PressesNoted'
  BY <1>1, <1>4 DEF PressesNoted
<1> QED
  BY <1>5, <1>6, <1>7, <1>8, <1>9

LEMMA QuitSound ==
  ASSUME SessionSound, LogGrows, Quit
  PROVE  SessionSound'
<1> USE DEF SessionSound, Quit, screen, refs, history
<1>1. exited' = TRUE /\ UNCHANGED <<screen, command, refs, cancels, history>>
  OBVIOUS
<1>2. AppTypeOK'
  BY <1>1 DEF AppTypeOK
<1>3. BusyShown' /\ OneAtATime' /\ NoRunLost' /\ PressesNoted'
  BY <1>1 DEF BusyShown, OneAtATime, NoRunLost, PressesNoted, StartingRun
<1>4. viewed \subseteq Runs
  BY DEF AppTypeOK
<1>5. RunsKnown'
  BY <1>1, <1>4 DEF RunsKnown, LogGrows
<1>6. PrintedOnce'
  BY <1>1 DEF PrintedOnce, IsInjective, ToSet
<1> QED
  BY <1>2, <1>3, <1>5, <1>6

LEMMA DaemonEnsuredSound ==
  ASSUME SessionSound, DaemonEnsured
  PROVE  SessionSound'
<1> USE DEF SessionSound, DaemonEnsured, screen, refs, history
<1>1. /\ command.phase = "ensuring" /\ command' = [command EXCEPT !.phase = "starting"]
      /\ UNCHANGED <<log, screen, refs, cancels, exited, history>>
  BY DEF vars
<1>2. /\ command'.phase = "starting" /\ command'.run = command.run
      /\ command' \in [phase : {"none", "ensuring", "starting", "answering", "other"},
                       run : Runs \cup {None}]
  BY <1>1 DEF AppTypeOK
<1>3. command # Idle /\ StartingRun /\ StartingRun'
  BY <1>1, <1>2 DEF StartingRun, Idle
<1>4. AppTypeOK'
  BY <1>1, <1>2 DEF AppTypeOK
<1>5. BusyShown' /\ OneAtATime' /\ NoRunLost'
  BY <1>1, <1>3 DEF BusyShown, OneAtATime, RunActive, NoRunLost
<1>6. RunsKnown'
  BY <1>1, <1>2 DEF RunsKnown, EventsOf
<1>7. PrintedOnce'
  BY <1>1 DEF PrintedOnce, IsInjective, ToSet
<1>8. PressesNoted'
  BY <1>1, <1>3 DEF PressesNoted
<1> QED
  BY <1>4, <1>5, <1>6, <1>7, <1>8

(* The daemon draws a new id, so the run was never on view.                *)
LEMMA DaemonStartsRunSound ==
  ASSUME StreamSound, SessionSound, NEW r \in Runs, DaemonStartsRun(r), LogGrows
  PROVE  SessionSound'
<1> USE DEF SessionSound, DaemonStartsRun, screen, refs, history
<1>1. /\ command.phase = "starting" /\ command' = [phase |-> "answering", run |-> r]
      /\ UNCHANGED <<screen, refs, cancels, exited, history>>
      /\ EventsOf(log, r) = {}
  OBVIOUS
<1>2. r \notin viewed
  BY <1>1 DEF RunsKnown
<1>3. command # Idle /\ StartingRun /\ StartingRun'
  BY <1>1 DEF StartingRun, Idle
<1>4. EventsOf(log', r) # {}
  <2>1. log \in Seq(Payloads) /\ log' = Append(log, [run |-> r, kind |-> "started"])
    BY DEF Publish, StreamSound, TypeOK
  <2>2. [run |-> r, kind |-> "started"] \in Payloads
    BY AppAssumption
  <2>3. Len(log) + 1 \in DOMAIN log' /\ log'[Len(log) + 1] = [run |-> r, kind |-> "started"]
    BY <2>1, <2>2
  <2> QED
    BY <2>3 DEF EventsOf
<1>5. viewed \subseteq Runs
  BY DEF AppTypeOK
<1>6. AppTypeOK'
  BY <1>1 DEF AppTypeOK
<1>7. BusyShown' /\ OneAtATime' /\ NoRunLost'
  BY <1>1, <1>3 DEF BusyShown, OneAtATime, RunActive, NoRunLost
<1>8. RunsKnown'
  BY <1>1, <1>2, <1>4, <1>5 DEF RunsKnown, LogGrows
<1>9. PrintedOnce'
  BY <1>1 DEF PrintedOnce, IsInjective, ToSet
<1>10. PressesNoted'
  BY <1>1, <1>3 DEF PressesNoted
<1> QED
  BY <1>6, <1>7, <1>8, <1>9, <1>10

(* The answer puts its run on view, where no other run is any more.        *)
LEMMA AnsweredSound ==
  ASSUME SessionSound, Answered
  PROVE  SessionSound'
<1> USE DEF SessionSound
<1>1. /\ command.phase = "answering"
      /\ runId' = IF exited THEN runId ELSE command.run
      /\ viewed' = viewed \cup {command.run}
      /\ cancels' = cancels \cup SentIfRequested(command.run)
      /\ cancelling' = (cancelling \/ cancelRequested)
      /\ command' = Idle
      /\ UNCHANGED <<log, view, streamed, committed, exited, printed, refused, pressed>>
  BY DEF Answered, CommandEnds, SentNoted, vars
<1>2. StartingRun /\ ~StartingRun' /\ command # Idle
  BY <1>1 DEF StartingRun, Idle
<1>3. cancelRequested' = FALSE
  BY <1>2 DEF Answered, CommandEnds
<1>4. command.run \in Runs /\ command.run \notin viewed /\ EventsOf(log, command.run) # {}
  BY <1>1 DEF RunsKnown
<1>5. view.busy
  BY <1>2 DEF BusyShown
<1>6. ~exited => runId = None /\ view.runId = None /\ runId' = command.run /\ runId' # None
  BY <1>1, <1>2, <1>4, AppAssumption DEF OneAtATime
<1>7. AppTypeOK'
  <2>1. runId' \in Runs \cup {None}
    BY <1>1, <1>4 DEF AppTypeOK
  <2>2. cancels' \subseteq Runs /\ viewed' \subseteq Runs
    BY <1>1, <1>4 DEF AppTypeOK, SentIfRequested
  <2>3. {cancelRequested', cancelling', exited', pressed'} \subseteq BOOLEAN
    BY <1>1, <1>3 DEF AppTypeOK
  <2>4. command' \in [phase : {"none", "ensuring", "starting", "answering", "other"},
                      run : Runs \cup {None}]
    BY <1>1 DEF Idle
  <2> QED
    BY <1>1, <2>1, <2>2, <2>3, <2>4 DEF AppTypeOK
<1>8. BusyShown'
  BY <1>1 DEF BusyShown
<1>9. OneAtATime'
  BY <1>1, <1>2, <1>5, <1>6 DEF OneAtATime, RunActive
<1>10. RunsKnown'
  <2>1. command'.phase # "answering"
    BY <1>1 DEF Idle
  <2>2. runId' # None => runId' \in viewed'
    BY <1>1 DEF RunsKnown
  <2> QED
    BY <1>1, <1>4, <2>1, <2>2 DEF RunsKnown, EventsOf
<1>11. NoRunLost'
  <2>1. None \notin viewed
    BY AppAssumption DEF AppTypeOK
  <2> QED
    BY <1>1, <1>6, <2>1 DEF NoRunLost
<1>12. PrintedOnce'
  <2>1. committed \subseteq viewed
    BY DEF RunsKnown
  <2>2. runId' \notin committed
    BY <1>1, <1>4, <2>1 DEF PrintedOnce
  <2> QED
    BY <1>1, <2>2 DEF PrintedOnce, IsInjective, ToSet
<1>13. PressesNoted'
  BY <1>1, <1>2, <1>3, <1>6 DEF PressesNoted
<1> QED
  BY <1>7, <1>8, <1>9, <1>10, <1>11, <1>12, <1>13

LEMMA FailsOrEndsSound ==
  ASSUME SessionSound, FailsOrEnds
  PROVE  SessionSound'
<1> USE DEF SessionSound
<1>1. /\ command' = Idle
      /\ UNCHANGED <<log, screen, cancelling, committed, cancels, exited, history>>
  BY DEF FailsOrEnds, CommandEnds, vars
<1>2. ~StartingRun' /\ command'.phase # "answering"
  BY <1>1 DEF StartingRun, Idle
<1>3. cancelRequested' = FALSE
  BY DEF FailsOrEnds, CommandEnds, PressesNoted, AppTypeOK
<1>4. AppTypeOK'
  <2>1. {cancelRequested', cancelling', exited', pressed'} \subseteq BOOLEAN
    BY <1>1, <1>3 DEF AppTypeOK, history
  <2>2. command' \in [phase : {"none", "ensuring", "starting", "answering", "other"},
                      run : Runs \cup {None}]
    BY <1>1 DEF Idle
  <2> QED
    BY <1>1, <2>1, <2>2 DEF AppTypeOK, screen, history
<1>5. BusyShown' /\ OneAtATime' /\ NoRunLost'
  BY <1>1, <1>2 DEF BusyShown, OneAtATime, RunActive, NoRunLost, screen, history
<1>6. RunsKnown'
  BY <1>1, <1>2 DEF RunsKnown, EventsOf, screen, history
<1>7. PrintedOnce'
  BY <1>1 DEF PrintedOnce, IsInjective, ToSet, screen, history
<1>8. PressesNoted'
  BY <1>1, <1>2, <1>3 DEF PressesNoted, screen, history
<1> QED
  BY <1>4, <1>5, <1>6, <1>7, <1>8

-----------------------------------------------------------------------------
(* Ctrl+C: what it does follows from the last render and the refs, and     *)
(* whatever the refs say is of a run that is current.                      *)
LEMMA CtrlCSound ==
  ASSUME SessionSound, LogGrows, CtrlC
  PROVE  SessionSound'
<1> USE DEF SessionSound, screen
<1>1. /\ ~exited /\ pressed' = TRUE
      /\ UNCHANGED <<screen, command, committed, printed, viewed, refused>>
  BY DEF CtrlC
<1>2. viewed \subseteq Runs /\ view.runId \in Runs \cup {None}
  BY DEF AppTypeOK
<1>3. /\ cancels' = cancels \/ (view.runId # None /\ cancels' = cancels \cup {view.runId})
      /\ {cancelRequested', cancelling', exited'} \subseteq BOOLEAN
  BY DEF CtrlC, CancelActiveRun, CancelStartingRun, Exit, RunActive, AppTypeOK
<1>4. AppTypeOK'
  BY <1>1, <1>2, <1>3 DEF AppTypeOK
<1>5. BusyShown' /\ OneAtATime' /\ NoRunLost'
  BY <1>1 DEF BusyShown, OneAtATime, RunActive, StartingRun, NoRunLost
<1>6. RunsKnown'
  BY <1>1, <1>2 DEF RunsKnown, LogGrows
<1>7. PrintedOnce'
  BY <1>1 DEF PrintedOnce, IsInjective, ToSet
<1>8. StartingRun' = StartingRun
  BY <1>1 DEF StartingRun
<1>9. PressesNoted'
  <2>1. CASE CancelActiveRun
    <3>1. RunActive /\ cancelling' = TRUE /\ UNCHANGED <<cancelRequested, exited>>
      BY <2>1 DEF CancelActiveRun
    <3>2. runId # None /\ ~StartingRun
      BY <1>1, <3>1 DEF OneAtATime, RunActive
    <3> QED
      BY <1>1, <1>8, <3>1, <3>2 DEF PressesNoted
  <2>2. CASE CancelStartingRun
    <3>1. StartingRun /\ cancelRequested' = TRUE /\ UNCHANGED <<cancelling, exited>>
      BY <2>2 DEF CancelStartingRun
    <3>2. runId = None
      BY <1>1, <3>1 DEF OneAtATime
    <3> QED
      BY <1>1, <1>8, <3>1, <3>2 DEF PressesNoted
  <2>3. CASE Exit
    BY <1>8, <2>3 DEF PressesNoted, Exit
  <2> QED
    BY <2>1, <2>2, <2>3 DEF CtrlC
<1> QED
  BY <1>4, <1>5, <1>6, <1>7, <1>9

(* What a render shows is what was current.                                *)
LEMMA RenderedIs ==
  ASSUME AppTypeOK, runId' \in {runId, None}, Render
  PROVE  /\ view'.runId = runId
         /\ view'.busy <=> command # Idle
         /\ view'.timeline = TimelineOf(runId)
         /\ view' \in [runId : Runs \cup {None}, timeline : {"none", "live", "terminal"}, busy : BOOLEAN]
<1>1. view' = [runId |-> runId, timeline |-> TimelineOf(runId), busy |-> command # Idle]
  BY DEF Render, Rendered
<1>2. TimelineOf(runId) \in {"none", "live", "terminal"}
  BY DEF TimelineOf
<1>3. runId \in Runs \cup {None} /\ (command # Idle) \in BOOLEAN
  BY DEF AppTypeOK
<1> QED
  BY <1>1, <1>2, <1>3

(* A render that hands nothing over: it shows the run on view, or follows  *)
(* another.                                                                *)
LEMMA ShowSound ==
  ASSUME SessionSound, LogGrows, Render, FollowRun \/ Repaint
  PROVE  SessionSound'
<1> USE DEF SessionSound
<1>1. /\ ~exited
      /\ streamed' \in {streamed, runId}
      /\ UNCHANGED <<runId, cancelling, committed, printed, command, cancelRequested,
                     cancels, exited, viewed, refused, pressed>>
  BY DEF Render, FollowRun, Repaint
<1>2. /\ view'.runId = runId
      /\ view'.busy <=> command # Idle
      /\ view' \in [runId : Runs \cup {None}, timeline : {"none", "live", "terminal"}, busy : BOOLEAN]
  BY <1>1, RenderedIs
<1>3. AppTypeOK'
  BY <1>1, <1>2 DEF AppTypeOK
<1>4. StartingRun' = StartingRun
  BY <1>1 DEF StartingRun
<1>5. BusyShown' /\ OneAtATime' /\ NoRunLost'
  BY <1>1, <1>2, <1>4 DEF BusyShown, OneAtATime, RunActive, NoRunLost
<1>6. viewed \subseteq Runs
  BY DEF AppTypeOK
<1>7. RunsKnown'
  BY <1>1, <1>6 DEF RunsKnown, LogGrows
<1>8. PrintedOnce'
  BY <1>1 DEF PrintedOnce, IsInjective, ToSet
<1>9. PressesNoted'
  BY <1>1, <1>4 DEF PressesNoted
<1> QED
  BY <1>3, <1>5, <1>7, <1>8, <1>9

(* What is handed over is printed behind what was printed before.          *)
LEMMA PrintedAppend ==
  ASSUME printed \in Seq(Runs), PrintedOnce, NEW r \in Runs, r \notin committed
  PROVE  /\ Append(printed, r) \in Seq(Runs)
         /\ IsInjective(Append(printed, r))
         /\ ToSet(Append(printed, r)) = committed \cup {r}
<1> DEFINE more == Append(printed, r)
<1>1. /\ more \in Seq(Runs)
      /\ Len(printed) \in Nat /\ DOMAIN printed = 1..Len(printed)
      /\ DOMAIN more = 1..(Len(printed) + 1)
      /\ \A i \in 1..Len(printed) : more[i] = printed[i]
      /\ more[Len(printed) + 1] = r
  OBVIOUS
<1> HIDE DEF more
<1>2. \A i \in 1..Len(printed) : printed[i] # r
  BY <1>1 DEF PrintedOnce, ToSet
<1>3. IsInjective(more)
  <2> SUFFICES ASSUME NEW i \in DOMAIN more, NEW j \in DOMAIN more, more[i] = more[j]
               PROVE  i = j
    BY DEF IsInjective
  <2>1. \A k \in DOMAIN more : k \in 1..Len(printed) \/ k = Len(printed) + 1
    BY <1>1
  <2>2. CASE i \in 1..Len(printed) /\ j \in 1..Len(printed)
    <3>1. printed[i] = printed[j] /\ i \in DOMAIN printed /\ j \in DOMAIN printed
      BY <1>1, <2>2
    <3> QED
      BY <3>1 DEF PrintedOnce, IsInjective
  <2> QED
    BY <1>1, <1>2, <2>1, <2>2
<1>4. ToSet(more) = ToSet(printed) \cup {r}
  <2>1. DOMAIN more = DOMAIN printed \cup {Len(printed) + 1}
    BY <1>1
  <2> QED
    BY <1>1, <2>1 DEF ToSet
<1> QED
  BY <1>1, <1>3, <1>4 DEF more, PrintedOnce

LEMMA HandOverSound ==
  ASSUME SessionSound, Render, HandOver
  PROVE  SessionSound'
<1> USE DEF SessionSound
<1>1. /\ ~exited
      /\ streamed = runId /\ TimelineOf(runId) = "terminal" /\ runId \notin committed
      /\ committed' = committed \cup {runId}
      /\ printed' = Append(printed, runId)
      /\ runId' = None
      /\ cancelling' = FALSE
      /\ UNCHANGED <<log, streamed, command, cancelRequested, cancels, exited, viewed,
                     refused, pressed>>
  BY DEF Render, HandOver, vars
<1>2. runId \in Runs /\ runId \in viewed
  <2>1. runId = None => TimelineOf(runId) = "none"
    BY DEF TimelineOf
  <2>2. runId # None
    BY <1>1, <2>1
  <2> QED
    BY <2>2 DEF AppTypeOK, RunsKnown
<1>3. /\ view'.runId = runId
      /\ view'.busy <=> command # Idle
      /\ view'.timeline = "terminal"
      /\ view' \in [runId : Runs \cup {None}, timeline : {"none", "live", "terminal"}, busy : BOOLEAN]
  BY <1>1, RenderedIs
<1>4. runId # None
  BY <1>2, AppAssumption
<1>5. ~StartingRun /\ ~StartingRun'
  BY <1>1, <1>4 DEF OneAtATime, StartingRun
<1>6. AppTypeOK'
  <2>1. {cancelRequested', cancelling', exited', pressed'} \subseteq BOOLEAN
    BY <1>1 DEF AppTypeOK
  <2> QED
    BY <1>1, <1>2, <1>3, <2>1 DEF AppTypeOK
<1>7. BusyShown' /\ OneAtATime'
  BY <1>1, <1>3, <1>5 DEF BusyShown, OneAtATime, RunActive
<1>8. /\ printed' \in Seq(Runs)
      /\ IsInjective(printed')
      /\ ToSet(printed') = committed \cup {runId}
  BY <1>1, <1>2, PrintedAppend DEF RunsKnown
<1>9. PrintedOnce'
  <2>1. None \notin committed'
    BY <1>1, <1>6, AppAssumption DEF AppTypeOK
  <2> QED
    BY <1>1, <1>8, <2>1 DEF PrintedOnce
<1>10. RunsKnown'
  BY <1>1, <1>2, <1>8 DEF RunsKnown, EventsOf
<1>11. NoRunLost'
  BY <1>1 DEF NoRunLost
<1>12. PressesNoted'
  BY <1>1, <1>5 DEF PressesNoted
<1> QED
  BY <1>6, <1>7, <1>9, <1>10, <1>11, <1>12

-----------------------------------------------------------------------------
LEMMA SessionStepSound ==
  ASSUME StreamSound, SessionSound, [AppNext]_appVars
  PROVE  StreamSound' /\ SessionSound'
<1>1. [Next]_vars
  BY SessionStepsStream
<1>2. StreamSound'
  BY <1>1, StreamStepSound
<1>3. LogGrows
  BY <1>1, CommitGrows
<1>4. CASE UNCHANGED appVars
  <2>1. UNCHANGED <<screen, command, refs, exited, printed, viewed, pressed>> /\ UNCHANGED <<cancels, refused>>
    BY <1>4 DEF appVars, history
  <2>2. AppTypeOK'
    BY <2>1 DEF SessionSound, AppTypeOK, screen, refs
  <2> QED
    BY <1>2, <1>3, <2>1, <2>2, ElsewhereSound
<1>5. CASE \E r \in Runs : RoundEnds(r) \/ OtherClientAddsRound(r) \/ CancelArrives(r) \/ CancelFails(r)
  BY <1>2, <1>3, <1>5, OutsideSound
<1>6. CASE \E r \in Runs : DaemonStartsRun(r)
  BY <1>2, <1>3, <1>6, DaemonStartsRunSound
<1>7. CASE SubmitRun \/ SubmitOther
  BY <1>2, <1>7, SubmitRunSound, SubmitOtherSound
<1>8. CASE Quit
  BY <1>2, <1>3, <1>8, QuitSound
<1>9. CASE CtrlC
  BY <1>2, <1>3, <1>9, CtrlCSound
<1>10. CASE DaemonEnsured \/ Answered \/ FailsOrEnds
  BY <1>2, <1>10, DaemonEnsuredSound, AnsweredSound, FailsOrEndsSound
<1>11. CASE Render
  <2>1. FollowRun \/ Repaint \/ HandOver
    BY <1>11 DEF Render
  <2> QED
    BY <1>2, <1>3, <1>11, <2>1, ShowSound, HandOverSound
<1>12. CASE StreamStep
  <2>1. UNCHANGED <<screen, command, refs, exited, printed, viewed, pressed>> /\ UNCHANGED <<cancels, refused>>
    BY <1>12 DEF StreamStep, history
  <2>2. AppTypeOK'
    BY <2>1 DEF SessionSound, AppTypeOK, screen, refs
  <2> QED
    BY <1>2, <1>3, <2>1, <2>2, ElsewhereSound
<1> QED
  BY <1>4, <1>5, <1>6, <1>7, <1>8, <1>9, <1>10, <1>11, <1>12 DEF AppNext

LEMMA SessionInvariant == AppSpec => [](StreamSound /\ SessionSound)
<1>1. AppInit => StreamSound /\ SessionSound
  BY SessionInit
<1>2. StreamSound /\ SessionSound /\ [AppNext]_appVars => StreamSound' /\ SessionSound'
  BY SessionStepSound
<1> QED
  BY <1>1, <1>2, PTL DEF AppSpec

(* One run is on view at a time, none is displaced without being printed,  *)
(* and none is printed twice, whatever order answers, events, renders,     *)
(* broken connections and keys come in (app.tsx:34-37, 85-88).             *)
THEOREM NoRunIsLost == AppSpec => []SessionInv
<1>1. StreamSound /\ SessionSound => SessionInv
  BY DEF StreamSound, SessionSound, SessionInv, StreamInv
<1> QED
  BY SessionInvariant, <1>1, PTL

(* The second of two presses quits, and the first of them never quits      *)
(* while a run is on the screen that has not ended (app.tsx:150-157).      *)
LEMMA PressObeyed ==
  ASSUME SessionSound, CtrlC
  PROVE  TwoPressesQuit /\ FirstPressCancels
<1> USE DEF SessionSound
<1>1. ~exited
  BY DEF CtrlC
<1>2. ASSUME pressed PROVE exited'
  <2>1. ~(RunActive /\ ~cancelling)
    BY <1>1, <1>2 DEF OneAtATime, PressesNoted, RunActive
  <2>2. ~(StartingRun /\ ~cancelRequested)
    BY <1>1, <1>2 DEF PressesNoted
  <2>3. Exit
    BY <2>1, <2>2 DEF CtrlC, CancelActiveRun, CancelStartingRun
  <2> QED
    BY <2>3 DEF Exit
<1>3. ASSUME exited', ~pressed, NEW r \in Runs PROVE ~Seen(r)
  <2>1. ~cancelling
    BY <1>1, <1>3 DEF PressesNoted
  <2>2. Exit
    BY <1>1, <1>3 DEF CtrlC, CancelActiveRun, CancelStartingRun
  <2>3. ~RunActive
    BY <2>1, <2>2 DEF Exit
  <2>4. r # None
    BY AppAssumption
  <2> QED
    BY <2>3, <2>4 DEF Seen, RunActive
<1> QED
  BY <1>2, <1>3 DEF TwoPressesQuit, FirstPressCancels

THEOREM CtrlCIsObeyed == AppSpec => PressesObeyed
<1> DEFINE Obeyed == TwoPressesQuit /\ FirstPressCancels
<1>1. SessionSound /\ [AppNext]_appVars => [Obeyed]_appVars
  <2>1. SessionSound /\ CtrlC => Obeyed
    BY PressObeyed
  <2>2. ~CtrlC => Obeyed
    BY DEF TwoPressesQuit, FirstPressCancels
  <2> QED
    BY <2>1, <2>2
<1>2. AppSpec => [][AppNext]_appVars
  BY DEF AppSpec
<1> HIDE DEF Obeyed
<1>3. AppSpec => [][Obeyed]_appVars
  BY SessionInvariant, <1>1, <1>2, PTL
<1> QED
  BY <1>3 DEF Obeyed, PressesObeyed

(* A session, too, is handed the log in order: whatever renders subscribe  *)
(* for and give up, each step of App is one of EventStream's.              *)
THEOREM SessionReadsInOrder == AppSpec => ReadsInOrder
<1>1. AppInit => StreamSound /\ SessionSound /\ Reader!Init
  BY SessionInit DEF AppInit, Init, Reader!Init
<1>2. StreamSound /\ SessionSound /\ [AppNext]_appVars
        => StreamSound' /\ SessionSound' /\ [Reader!Next]_(Reader!vars)
  BY SessionStepsStream, StreamStepSound, SessionStepSound
<1> QED
  BY <1>1, <1>2, PTL DEF AppSpec, ReadsInOrder
=============================================================================
