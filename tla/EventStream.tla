---------------------------- MODULE EventStream ----------------------------
(***************************************************************************)
(* The event log as a live stream: the daemon's /events handler (backfill  *)
(* after Last-Event-ID, then the live tail of the engine's bus), and the   *)
(* TUI's subscription that reconnects (startEventStream, SseParser).       *)
(* The events' sequence numbers are their places in the log.               *)
(***************************************************************************)
EXTENDS Integers, Sequences, FiniteSets

CONSTANTS
  Payloads,   (* What an event may hold.                                    *)
  MaxEvents,  (* Bound: length of the log.                                  *)
  MaxDrops,   (* Bound: connections that break.                             *)
  None

ASSUME EventStreamAssumption ==
  /\ MaxEvents \in Nat /\ MaxDrops \in Nat
  /\ None \notin Payloads

VARIABLES
  log,          (* Table events.                                            *)
  conn,         (* "closed" without a subscription, else its connection.    *)
  highWater,    (* The handler's guard against what it has backfilled.      *)
  wire,         (* The frames sent on the connection and not yet received.  *)
  buffer,       (* The parser's buffer: the frame received in part, if any. *)
  lastEventId,  (* What the client asks for at the next connect.            *)
  applied,      (* History: the events handed to onEvent.                   *)
  drops         (* Bound counter: connections broken so far.                *)

vars == <<log, conn, highWater, wire, buffer, lastEventId, applied, drops>>

Frame(seq) == [id |-> seq, data |-> log'[seq]]

(* Some places of the log, in the order of their numbers.                  *)
Place(s, S) == Cardinality({t \in S : t < s}) + 1

InOrder(S) == [i \in 1..Cardinality(S) |-> CHOOSE s \in S : Place(s, S) = i]

Init ==
  /\ log = <<>>
  /\ conn = "closed"
  /\ highWater = 0
  /\ wire = <<>>
  /\ buffer = None
  /\ lastEventId = 0
  /\ applied = <<>>
  /\ drops = 0

(***************************************************************************)
(* persistWith: one or two events are committed, then put on the bus.      *)
(***************************************************************************)
Emitted == (Len(log) + 1)..Len(log')

Live(seqs) == [i \in 1..Len(seqs) |-> Frame(seqs[i])]

Listened == InOrder({s \in Emitted : s > highWater})

Commit ==
  /\ \E p \in Payloads, q \in Payloads \cup {None} :
       log' = IF q = None THEN Append(log, p) ELSE log \o <<p, q>>
  /\ Len(log') <= MaxEvents
  /\ wire' = IF conn = "open" THEN wire \o Live(Listened) ELSE wire
  /\ UNCHANGED <<conn, highWater, buffer, lastEventId, applied, drops>>

(***************************************************************************)
(* startEventStream: a subscription starts without a place, so that the    *)
(* log is read from its beginning. It lasts until close(), which gives up  *)
(* the connection and the timer of a reconnect.                            *)
(***************************************************************************)
Subscribe ==
  /\ conn = "closed"
  /\ conn' = "connecting"
  /\ buffer' = None
  /\ lastEventId' = 0
  /\ applied' = <<>>
  /\ UNCHANGED <<log, highWater, wire, drops>>

Unsubscribe ==
  /\ conn # "closed"
  /\ conn' = "closed"
  /\ wire' = <<>>
  /\ UNCHANGED <<log, highWater, buffer, lastEventId, applied, drops>>

(***************************************************************************)
(* A connect: the handler subscribes and backfills, page by page, in one   *)
(* turn of the event loop; the client starts with an empty parser. The     *)
(* daemon may not be there, or refuse: the client tries again later.       *)
(***************************************************************************)
BackfillAfter(id) == InOrder({s \in DOMAIN log : s > id})

(* Mutated: the buffer of the old connection.                              *)
OldBuffer == buffer

NewBuffer == None

Connect ==
  /\ conn = "connecting"
  /\ conn' = "open"
  /\ highWater' = Len(log)
  /\ UNCHANGED log
  /\ wire' = Live(BackfillAfter(lastEventId))
  /\ buffer' = NewBuffer
  /\ UNCHANGED <<lastEventId, applied, drops>>

(* The connection breaks: what is on the wire is lost.                     *)
Drop ==
  /\ conn = "open"
  /\ drops < MaxDrops
  /\ drops' = drops + 1
  /\ conn' = "connecting"
  /\ wire' = <<>>
  /\ UNCHANGED <<log, highWater, buffer, lastEventId, applied>>

(***************************************************************************)
(* The client: a chunk ends within a frame, or completes it. A frame glued *)
(* to what another connection left in the buffer keeps the first id and    *)
(* no data that could be decoded. The drops so far name the connection.    *)
(***************************************************************************)
ChunkEndsInFrame ==
  /\ conn = "open" /\ wire # <<>> /\ buffer = None
  /\ buffer' = [frame |-> Head(wire), from |-> drops]
  /\ UNCHANGED <<log, conn, highWater, wire, lastEventId, applied, drops>>

Glued == buffer # None /\ buffer.from # drops

Parsed == IF Glued THEN [buffer.frame EXCEPT !.data = None] ELSE Head(wire)

(* Mutated: the place kept is the next event's.                            *)
NextId(f) == f.id + 1

SeenId(f) == IF f.id > lastEventId THEN f.id ELSE lastEventId

ChunkCompletesFrame ==
  /\ conn = "open" /\ wire # <<>>
  /\ wire' = Tail(wire)
  /\ buffer' = None
  /\ lastEventId' = SeenId(Parsed)
  /\ applied' = IF Parsed.data # None THEN Append(applied, Parsed.data) ELSE applied
  /\ UNCHANGED <<log, conn, highWater, drops>>

Next ==
  \/ Commit \/ Subscribe \/ Unsubscribe
  \/ Connect \/ Drop \/ ChunkEndsInFrame \/ ChunkCompletesFrame

Spec == Init /\ [][Next]_vars

(* The reconnect timer fires and in the end finds a daemon that accepts    *)
(* the stream, and what was sent arrives while the connection lasts.       *)
FairSpec == Spec /\ WF_vars(Connect) /\ WF_vars(ChunkCompletesFrame)

(***************************************************************************)
(* Properties.                                                             *)
(***************************************************************************)
Frames == [id : 1..MaxEvents, data : Payloads]

(* Type invariant.                                                         *)
TypeOK ==
  /\ log \in Seq(Payloads)
  /\ conn \in {"closed", "connecting", "open"}
  /\ highWater \in 0..MaxEvents
  /\ wire \in Seq(Frames)
  /\ buffer \in [frame : Frames, from : 0..MaxDrops] \cup {None}
  /\ lastEventId \in 0..MaxEvents
  /\ applied \in Seq(Payloads)
  /\ drops \in 0..MaxDrops

(* Wherever the stream is cut, the client's place is exactly what it has   *)
(* been handed, and what is on the wire is what comes next: nothing is     *)
(* lost or doubled between backfill and live tail.                         *)
PlaceKept ==
  /\ lastEventId = Len(applied)
  /\ conn = "open" =>
       wire = [i \in 1..(Len(log) - lastEventId) |->
                 [id |-> lastEventId + i, data |-> log[lastEventId + i]]]

StreamInv == TypeOK /\ PlaceKept

(* A subscriber is handed the log: every event, once, in order, and in the *)
(* end all of them, across broken connections and restarts, if it stays.   *)
Reader == INSTANCE LogReader WITH read <- applied, reading <- conn # "closed"

ReadsTheLog == Reader!Spec
=============================================================================
