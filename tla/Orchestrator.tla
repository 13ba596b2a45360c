---------------------------- MODULE Orchestrator ----------------------------
(***************************************************************************)
(* An orchestrating agent that drives a run through the MCP server         *)
(* (packages/mcp) as docs/mcp.md tells it to: ask a question under an      *)
(* idempotency key, poll its round, page the raw output when an answer was *)
(* truncated, judge, ask the next one; re-anchor after its own restart.    *)
(* The MCP server holds no state but the endpoint and the token it read    *)
(* when it started. The daemon (module Daemon) is abstracted to one run,   *)
(* its rounds, one member each, and its crashes.                           *)
(***************************************************************************)
EXTENDS RawOutput

CONSTANTS
  Answers,     (* For each question, what the member may answer.           *)
  Noise,       (* For each question, what it may write to stderr meanwhile. *)
  CaptureBytes,(* MAX_OUTPUT_BYTES of the raw capture.                     *)
  CapBytes,    (* The cap of distill.                                      *)
  PageSizes,   (* The maxBytes the orchestrator asks for.                  *)
  MaxStarts,   (* Bound: starts of the daemon.                             *)
  MaxForgets   (* Bound: restarts of the orchestrator.                     *)

(* The answers are decoded text: a member's stdout is read as UTF-8.        *)
ASSUME OrchestratorAssumption ==
  /\ Answers \in Seq(SUBSET Seq(Bytes)) /\ Answers # <<>>
  /\ \A q \in DOMAIN Answers : \A answer \in Answers[q] : Decoded(answer) = answer
  /\ Noise \in [DOMAIN Answers -> SUBSET Seq(Bytes)] /\ CaptureBytes \in Nat
  /\ CapBytes \in Nat /\ PageSizes \subseteq Nat \ {0}
  /\ MaxStarts \in Nat \ {0} /\ MaxForgets \in Nat

Questions == DOMAIN Answers

VARIABLES
  daemon,   (* Is it up, and which start of it is this?                    *)
  run,      (* The state of the run.                                       *)
  rounds,   (* The rounds of the run, in order, each with its dedup key.   *)
  server,   (* The start of the daemon whose token the MCP server has.     *)
  host,     (* What the orchestrator is at, and what it holds.             *)
  call,     (* Its tool call, on the way to the daemon or back.            *)
  late,     (* Questions given up by the caller, but still on their way.   *)
  forgets,  (* Counts the restarts of the orchestrator.                    *)
  judged    (* History: what each question was judged on.                  *)

vars == <<daemon, run, rounds, server, host, call, late, forgets, judged>>

Anchoring == [phase |-> "anchor", question |-> 0, round |-> 0, cursor |-> 0,
              text |-> <<>>, met |-> FALSE]

Init ==
  /\ daemon = [up |-> TRUE, start |-> 1]
  /\ run = "none" /\ rounds = <<>>
  /\ server = 0
  /\ host = Anchoring
  /\ call = None
  /\ late = {} /\ forgets = 0
  /\ judged = [q \in Questions |-> None]

(***************************************************************************)
(* The daemon.                                                             *)
(***************************************************************************)
Running(i) == rounds[i].state = "running"

(* Mutated: a key is known for as long as its round is in flight.          *)
KnownInFlight(q) == \E i \in DOMAIN rounds : rounds[i].question = q /\ Running(i)

Known(q) == \E i \in DOMAIN rounds : rounds[i].question = q

RoundOf(q) == CHOOSE i \in DOMAIN rounds : rounds[i].question = q

NewRound(q) ==
  [question |-> q, state |-> "running", verdict |-> "none", answer |-> <<>>,
   output |-> <<>>, raw |-> None]

(* startRun and startRound: the key is looked up first, a parked run takes *)
(* no round.                                                               *)
Asked(q) ==
  \/ Known(q) /\ UNCHANGED <<run, rounds>>
  \/ /\ ~Known(q) /\ run # "abandoned"
     /\ run' = "running"
     /\ rounds' = Append(rounds, NewRound(q))

Refused(q) == ~Known(q) /\ run = "abandoned"

(* What the member prints ends its last line; the adapter's answer is      *)
(* trimmed. A member that fails leaves what it printed so far. What it     *)
(* writes to stderr arrives among it, within a character too.              *)
Printed(answer) == Append(answer, "newline")

Mixed(stdout, stderr, at) ==
  SubSeq(stdout, 1, at) \o stderr \o SubSeq(stdout, at + 1, Len(stdout))

(* onRaw keeps the first bytes of both streams together, silently; the     *)
(* runner's cap, beyond which a member is killed, is one of each stream.   *)
(* Redaction is left out, and a replacement counts as one byte.            *)
Captured(output) == Decoded(SubSeq(output, 1, Smaller(CaptureBytes, Len(output))))

Left(answer, output) == [answer |-> answer, output |-> output, raw |-> Captured(output)]

Outcomes ==
  [q \in Questions |->
     UNION {{Left(answer, Mixed(Printed(answer), noise, at)) : at \in 0..Len(Printed(answer))} :
              answer \in Answers[q], noise \in Noise[q]}]

RoundCompletes(i) ==
  /\ daemon.up /\ Running(i)
  /\ \E left \in Outcomes[rounds[i].question], verdict \in {"met", "failed"} :
       rounds' = [rounds EXCEPT ![i].state = "complete", ![i].verdict = verdict,
                                ![i].answer = left.answer, ![i].output = left.output,
                                ![i].raw = left.raw]
  /\ UNCHANGED <<daemon, run, server, host, call, late, forgets, judged>>

(* reapIdle: no call reaches the run for as long as the idle TTL, because  *)
(* the orchestrator reasons or starts up, or because every call of it is   *)
(* refused for its token.                                                  *)
Park ==
  /\ daemon.up /\ run = "running"
  /\ \A i \in DOMAIN rounds : ~Running(i)
  /\ host.phase \in {"anchor", "reason", "end"} \/ server # daemon.start
  /\ run' = "abandoned"
  /\ UNCHANGED <<daemon, rounds, server, host, call, late, forgets, judged>>

Crash ==
  /\ daemon.up /\ daemon.start < MaxStarts
  /\ daemon' = [daemon EXCEPT !.up = FALSE]
  /\ late' = {}
  /\ UNCHANGED <<run, rounds, server, host, call, forgets, judged>>

(* A client starts the daemon again: it repairs the rounds that were in    *)
(* flight and makes a new token.                                           *)
Interrupted(r) ==
  IF r.state = "running" THEN [r EXCEPT !.state = "complete", !.verdict = "failed"] ELSE r

Restart ==
  /\ ~daemon.up
  /\ daemon' = [up |-> TRUE, start |-> daemon.start + 1]
  /\ rounds' = [i \in DOMAIN rounds |-> Interrupted(rounds[i])]
  /\ UNCHANGED <<run, server, host, call, late, forgets, judged>>

LateAsk(q) ==
  /\ q \in late
  /\ late' = late \ {q}
  /\ IF Refused(q) THEN UNCHANGED <<run, rounds>> ELSE Asked(q)
  /\ UNCHANGED <<daemon, server, host, call, forgets, judged>>

(***************************************************************************)
(* The MCP server. The client is resolved once, when it starts.            *)
(***************************************************************************)
StartServer ==
  /\ server = 0 /\ daemon.up
  /\ server' = daemon.start
  /\ UNCHANGED <<daemon, run, rounds, host, call, late, forgets, judged>>

(* Somebody restarts the MCP server, that is of no use with its old token. *)
ReplaceServer ==
  /\ server # 0 /\ daemon.up /\ server # daemon.start
  /\ server' = daemon.start
  /\ call' = None
  /\ UNCHANGED <<daemon, run, rounds, host, late, forgets, judged>>

Call(tool) ==
  /\ call = None /\ server # 0
  /\ call' = tool
  /\ UNCHANGED <<daemon, run, rounds, server, host, late, forgets, judged>>

Calls ==
  \/ host.phase = "anchor" /\ Call([tool |-> "list_runs"])
  \/ host.phase = "ask" /\ Call([tool |-> "ask"])
  \/ host.phase = "poll" /\ Call([tool |-> "poll"])
  \/ host.phase = "adopt" /\ Call([tool |-> "status"])
  \/ host.phase = "read"
     /\ \E n \in PageSizes : Call([tool |-> "get_raw", maxBytes |-> n])

Waiting(tool) == call # None /\ call.tool = tool

Served == daemon.up /\ server = daemon.start

(* A refused connection, one that breaks, or a token of another start: the *)
(* first two of a poll are called transient, every other is a tool error.  *)
Fails ==
  /\ call # None /\ call.tool # "answer" /\ ~Served
  /\ call' = None
  /\ UNCHANGED <<daemon, run, rounds, server, host, late, forgets, judged>>

(* The host gives up on a tool call; a question may be handled all the     *)
(* same, unless the daemon dies.                                           *)
GiveUp ==
  /\ call # None
  /\ call' = None
  /\ late' = IF Waiting("ask") /\ Served THEN late \cup {host.question} ELSE late
  /\ UNCHANGED <<daemon, run, rounds, server, host, forgets, judged>>

Answer(next) == call' = [tool |-> "answer", host |-> next]

(***************************************************************************)
(* The tools, as the daemon serves them, and what the orchestrator is to   *)
(* do with each answer.                                                    *)
(***************************************************************************)
ListRuns ==
  /\ Waiting("list_runs") /\ Served
  /\ Answer(IF run = "none" THEN [host EXCEPT !.phase = "ask", !.question = 1]
                            ELSE [host EXCEPT !.phase = "adopt"])
  /\ UNCHANGED <<daemon, run, rounds, server, host, late, forgets, judged>>

Ask ==
  /\ Waiting("ask") /\ Served
  /\ LET q == host.question
     IN  \/ /\ Asked(q)
            /\ Answer([host EXCEPT !.phase = "poll",
                                   !.round = IF Known(q) THEN RoundOf(q) ELSE Len(rounds')])
         \/ /\ Refused(q)
            /\ Answer([host EXCEPT !.phase = "adopt"])
            /\ UNCHANGED <<run, rounds>>
  /\ UNCHANGED <<daemon, server, host, late, forgets, judged>>

(* Mutated: a round is done once its quorum is met.                        *)
DoneIfMet(r) == r.verdict = "met"

Done(r) == r.state = "complete"

(* nextActionFor and shapeRound: the answers are there once the round is   *)
(* done, and a note when one of them was truncated. The long-poll returns  *)
(* at the end of the round, or of its time.                                *)
Shaped(r) ==
  LET answer == Distill(r.answer, CapBytes)
      seen   == [host EXCEPT !.met = r.verdict = "met"]
  IN  CASE ~Done(r) -> host
        [] answer.truncated -> [seen EXCEPT !.phase = "read", !.cursor = 0, !.text = <<>>]
        [] OTHER -> [seen EXCEPT !.phase = "reason", !.text = answer.distilled]

Poll ==
  /\ Waiting("poll") /\ Served
  /\ Answer(Shaped(rounds[host.round]))
  /\ UNCHANGED <<daemon, run, rounds, server, host, late, forgets, judged>>

(* Re-adopts a parked run, and shows its latest round to an orchestrator   *)
(* that has forgotten where it was.                                        *)
Status ==
  /\ Waiting("status") /\ Served
  /\ run' = "running"
  /\ LET latest == Len(rounds)
     IN  Answer(IF host.question = 0
                THEN [host EXCEPT !.phase = "poll", !.round = latest,
                                  !.question = rounds[latest].question]
                ELSE [host EXCEPT !.phase = "ask"])
  /\ UNCHANGED <<daemon, rounds, server, host, late, forgets, judged>>

GetRaw ==
  /\ Waiting("get_raw") /\ Served
  /\ LET page == ReadRaw(rounds[host.round].raw, host.cursor, call.maxBytes)
     IN  Answer([host EXCEPT !.text = @ \o page.chunk, !.cursor = page.nextCursor,
                             !.phase = IF page.eof THEN "reason" ELSE "read"])
  /\ UNCHANGED <<daemon, run, rounds, server, host, late, forgets, judged>>

Returns ==
  /\ Waiting("answer")
  /\ host' = call.host
  /\ call' = None
  /\ judged' = IF host'.phase = "reason"
               THEN [judged EXCEPT ![host'.question] = [met |-> host'.met, text |-> host'.text]]
               ELSE judged
  /\ UNCHANGED <<daemon, run, rounds, server, late, forgets>>

(***************************************************************************)
(* The orchestrator goes on when it likes, or restarts with its MCP server *)
(* and has forgotten everything. A request on a local socket is handled    *)
(* before the next orchestrator is up.                                     *)
(***************************************************************************)
AskNext(q) ==
  /\ host.phase = "reason" /\ host.question = q - 1
  /\ host' = [Anchoring EXCEPT !.phase = "ask", !.question = q]
  /\ UNCHANGED <<daemon, run, rounds, server, call, late, forgets, judged>>

Finalize ==
  /\ host.phase = "reason"
  /\ host' = [Anchoring EXCEPT !.phase = "end"]
  /\ UNCHANGED <<daemon, run, rounds, server, call, late, forgets, judged>>

Forget ==
  /\ forgets < MaxForgets /\ late = {} /\ ~Waiting("ask")
  /\ forgets' = forgets + 1
  /\ host' = Anchoring
  /\ server' = 0
  /\ call' = None
  /\ UNCHANGED <<daemon, run, rounds, late, judged>>

(***************************************************************************)
(* The specification.                                                      *)
(***************************************************************************)
Tools == ListRuns \/ Ask \/ Poll \/ Status \/ GetRaw

Next ==
  \/ \E i \in DOMAIN rounds : RoundCompletes(i)
  \/ Park \/ Crash \/ Restart
  \/ \E q \in Questions : LateAsk(q) \/ AskNext(q)
  \/ StartServer \/ ReplaceServer
  \/ Calls \/ Fails \/ GiveUp \/ Tools \/ Returns
  \/ Finalize \/ Forget

(* Every round completes (EveryRoundCompletes of Engine), a client starts  *)
(* the daemon again, the host starts its MCP server and follows            *)
(* next_action, and a tool call that is made again and again is answered   *)
(* in the end.                                                             *)
Fairness ==
  /\ \A i \in DOMAIN Answers : WF_vars(i \in DOMAIN rounds /\ RoundCompletes(i))
  /\ WF_vars(Restart)
  /\ WF_vars(StartServer)
  /\ WF_vars(Calls)
  /\ WF_vars(Fails)
  /\ SF_vars(Tools)
  /\ SF_vars(Returns)

UnaidedSpec == Init /\ [][Next]_vars /\ Fairness

(* A user who sees the tools fail restarts the MCP server.                 *)
Spec == UnaidedSpec /\ WF_vars(ReplaceServer)

(***************************************************************************)
(* Properties.                                                             *)
(***************************************************************************)

(* Type invariant.                                                         *)
RoundRow ==
  [question : Questions, state : {"running", "complete"}, verdict : {"none", "met", "failed"},
   answer : Seq(Bytes), output : Seq(Bytes), raw : Seq(Bytes) \cup {None}]

HostState ==
  [phase : {"anchor", "ask", "poll", "adopt", "read", "reason", "end"},
   question : {0} \cup Questions, round : Nat, cursor : Nat, text : Seq(Bytes), met : BOOLEAN]

TypeOK ==
  /\ daemon \in [up : BOOLEAN, start : 1..MaxStarts]
  /\ run \in {"none", "running", "abandoned"}
  /\ rounds \in Seq(RoundRow)
  /\ server \in 0..MaxStarts
  /\ host \in HostState
  /\ late \subseteq Questions
  /\ forgets \in 0..MaxForgets
  /\ judged \in [Questions -> [met : BOOLEAN, text : Seq(Bytes)] \cup {None}]

(* distill.ts:26-34: what is kept of an answer is a tail of it, made of    *)
(* whole characters and within the cap; it is flagged whenever something   *)
(* is missing, and the marker never claims that more was cut than was.     *)
DistillHonest ==
  \A i \in DOMAIN rounds :
    LET text == rounds[i].answer
        d    == Distill(text, CapBytes)
        gone == Len(text) - Len(d.distilled)
    IN  /\ gone >= 0 /\ d.distilled = SubSeq(text, gone + 1, Len(text))
        /\ Decoded(d.distilled) = d.distilled
        /\ Len(d.distilled) <= CapBytes
        /\ d.truncated <=> gone > 0
        /\ d.omitted <= gone

(* tools.ts:70, 242, store.ts:361-366: the orchestrator judges a question  *)
(* on the verdict and on the whole answer of its round, or, where that is  *)
(* truncated, on everything the member printed to both streams, as far as  *)
(* the capture goes, however pages, lost answers, restarts and repeated    *)
(* questions follow each other.                                            *)
KeptOf(output) ==
  IF Len(output) <= CaptureBytes THEN Decoded(output)
                                 ELSE Decoded(SubSeq(output, 1, CaptureBytes))

JudgedOn(r, j) ==
  /\ r.state = "complete"
  /\ j.met = (r.verdict = "met")
  /\ j.text = IF Len(r.answer) <= CapBytes THEN r.answer ELSE KeptOf(r.output)

KeptTextJudged ==
  \A q \in Questions : judged[q] # None => Known(q) /\ JudgedOn(rounds[RoundOf(q)], judged[q])

(* docs/mcp.md:53-56: a question is put to the panel once, whatever is     *)
(* retried, answered late, parked, crashed or forgotten.                   *)
AskedOnce ==
  \A i, j \in DOMAIN rounds : rounds[i].question = rounds[j].question => i = j

OrchestratorInv == TypeOK /\ AskedOnce

(* docs/mcp.md:15-35: whoever follows the next_action of each answer gets  *)
(* each question decided, across lost answers, parked runs, restarts of    *)
(* the daemon, of the MCP server and of the orchestrator itself.           *)
EveryQuestionDecided ==
  \A q \in Questions :
    /\ Known(q) ~> (judged[q] # None)
    /\ (host.phase = "ask" /\ host.question = q) ~> (Known(q) \/ host.phase = "anchor")

(* docs/mcp.md:28, tools.ts:168: a tool error of a poll is transient, just *)
(* poll again with the same ids.                                           *)
PollingAgainSuffices == (host.phase = "poll") ~> (host.phase # "poll")
=============================================================================
