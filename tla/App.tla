-------------------------------- MODULE App --------------------------------
(***************************************************************************)
(* A session of the TUI (packages/tui app.tsx, useDaemonEvents.ts, the     *)
(* /run of slash/registry.ts, Prompt.tsx): one run at a time is started,   *)
(* watched over the event stream (module EventStream) and handed over to   *)
(* the scrollback when it ends; Ctrl+C cancels it, or quits. A key is      *)
(* handled by the closures of the last render, so what was set since then  *)
(* is not seen by it, but for the refs. That a command is busy is rendered *)
(* before the next key or answer: nobody types two lines in one frame.     *)
(***************************************************************************)
EXTENDS EventStream, SequencesExt

CONSTANT Runs  (* Bound: runs the daemon creates for this session.          *)

ASSUME AppAssumption ==
  /\ Payloads = [run : Runs, kind : {"started", "completed"}]
  /\ None \notin Runs

VARIABLES
  runId,            (* The run that is on view: the state of App.           *)
  view,             (* What the closures of the last render hold.           *)
  streamed,         (* The run that useDaemonEvents subscribed for.         *)
  command,          (* The slash command that was submitted, and its place. *)
  cancelRequested,  (* Ref: Ctrl+C came while a run was being started.      *)
  cancelling,       (* Ref: a cancel of the run on view was requested.      *)
  committed,        (* Ref: the runs handed over to the scrollback.         *)
  cancels,          (* The cancel requests on their way to the daemon.      *)
  exited,           (* Has the session been quit?                           *)
  printed,          (* History: the final timelines printed, in order.      *)
  viewed,           (* History: the runs given to viewRun.                  *)
  refused,          (* History: the runs whose cancel request failed.       *)
  pressed           (* History: Ctrl+C was pressed since the last /run.     *)

screen  == <<runId, view, streamed>>
refs    == <<cancelRequested, cancelling, committed>>
history == <<printed, viewed, refused, pressed>>
appVars == <<vars, screen, command, refs, cancels, exited, history>>

Idle == [phase |-> "none", run |-> None]

AppInit ==
  /\ Init
  /\ runId = None
  /\ view = [runId |-> None, timeline |-> "none", busy |-> FALSE]
  /\ streamed = None
  /\ command = Idle
  /\ cancelRequested = FALSE /\ cancelling = FALSE /\ committed = {}
  /\ cancels = {}
  /\ exited = FALSE
  /\ printed = <<>> /\ viewed = {} /\ refused = {} /\ pressed = FALSE

(***************************************************************************)
(* The daemon. A round of a run ends by itself or because it is cancelled, *)
(* and another client may add a round to the run.                          *)
(***************************************************************************)
EventsOf(events, r) == {i \in DOMAIN events : events[i].run = r}

Status(events, r) ==
  IF EventsOf(events, r) = {} THEN "unknown" ELSE events[Max(EventsOf(events, r))].kind

Alive(r) == Status(log, r) = "started"

Publish(r, kind) ==
  /\ log' = Append(log, [run |-> r, kind |-> kind])
  /\ Commit

RoundEnds(r) ==
  /\ Alive(r)
  /\ Publish(r, "completed")
  /\ UNCHANGED <<screen, command, refs, cancels, exited, history>>

OtherClientAddsRound(r) ==
  /\ Status(log, r) = "completed"
  /\ Publish(r, "started")
  /\ UNCHANGED <<screen, command, refs, cancels, exited, history>>

CancelArrives(r) ==
  /\ r \in cancels
  /\ cancels' = cancels \ {r}
  /\ IF Alive(r) THEN Publish(r, "completed") ELSE UNCHANGED vars
  /\ UNCHANGED <<screen, command, refs, exited, history>>

(* The failure is printed; the run stays on view.                          *)
CancelFails(r) ==
  /\ r \in cancels
  /\ cancels' = cancels \ {r}
  /\ refused' = refused \cup {r}
  /\ UNCHANGED <<vars, screen, command, refs, exited, printed, viewed, pressed>>

(***************************************************************************)
(* The prompt takes a line while nothing is busy. The command it starts    *)
(* goes on after the session was quit, until its requests are answered.    *)
(***************************************************************************)
StartingRun == command.phase \in {"ensuring", "starting", "answering"}

(* Mutated: the prompt stays open for a run while one is streaming.        *)
AnyTime == TRUE

HasNoActiveRun == view.runId = None

Submit(phase) ==
  /\ ~exited /\ ~view.busy
  /\ view' = [view EXCEPT !.busy = TRUE]
  /\ command' = [Idle EXCEPT !.phase = phase]

SubmitRun ==
  /\ HasNoActiveRun
  /\ Submit("ensuring")
  /\ pressed' = FALSE
  /\ UNCHANGED <<vars, runId, streamed, refs, cancels, exited, printed, viewed, refused>>

SubmitOther ==
  /\ Submit("other")
  /\ UNCHANGED <<vars, runId, streamed, refs, cancels, exited, history>>

Quit ==
  /\ ~exited /\ ~view.busy
  /\ exited' = TRUE
  /\ IF conn = "closed" THEN UNCHANGED vars ELSE Unsubscribe
  /\ UNCHANGED <<screen, command, refs, cancels, history>>

DaemonEnsured ==
  /\ command.phase = "ensuring"
  /\ command' = [command EXCEPT !.phase = "starting"]
  /\ UNCHANGED <<vars, screen, refs, cancels, exited, history>>

DaemonStartsRun(r) ==
  /\ command.phase = "starting"
  /\ EventsOf(log, r) = {}
  /\ Publish(r, "started")
  /\ command' = [phase |-> "answering", run |-> r]
  /\ UNCHANGED <<screen, refs, cancels, exited, history>>

(* handleSubmit's finally; whatever was wanted of a start is forgotten.    *)
CommandEnds ==
  /\ command' = Idle
  /\ cancelRequested' = IF StartingRun THEN FALSE ELSE cancelRequested

(* The answer, viewRun and the finally are one turn of the event loop. A   *)
(* state set after the session was quit is lost, a request is still sent.  *)
SentNoted == cancelling \/ cancelRequested

(* Mutated: what was wanted during the start is forgotten with the start.  *)
ForgottenWithStart(r) == {}

SentIfRequested(r) == IF cancelRequested THEN {r} ELSE {}

Answered ==
  /\ command.phase = "answering"
  /\ runId' = IF exited THEN runId ELSE command.run
  /\ viewed' = viewed \cup {command.run}
  /\ cancels' = cancels \cup SentIfRequested(command.run)
  /\ cancelling' = SentNoted
  /\ CommandEnds
  /\ UNCHANGED <<vars, view, streamed, committed, exited, printed, refused, pressed>>

(* No daemon, an error, a lost or late answer; or the end of another       *)
(* command.                                                                *)
FailsOrEnds ==
  /\ command.phase # "none"
  /\ CommandEnds
  /\ UNCHANGED <<vars, screen, cancelling, committed, cancels, exited, history>>

(***************************************************************************)
(* Ctrl+C.                                                                 *)
(***************************************************************************)
(* Mutated: a run is active once its first timeline is there.              *)
RunShown == view.timeline = "live"

RunActive == view.runId # None /\ view.timeline # "terminal"

CancelActiveRun ==
  /\ RunActive /\ ~cancelling
  /\ cancelling' = TRUE
  /\ cancels' = cancels \cup {view.runId}
  /\ UNCHANGED <<vars, cancelRequested, exited>>

CancelStartingRun ==
  /\ ~(RunActive /\ ~cancelling)
  /\ StartingRun /\ ~cancelRequested
  /\ cancelRequested' = TRUE
  /\ UNCHANGED <<vars, cancelling, cancels, exited>>

Exit ==
  /\ ~(RunActive /\ ~cancelling)
  /\ ~(StartingRun /\ ~cancelRequested)
  /\ exited' = TRUE
  /\ IF conn = "closed" THEN UNCHANGED vars ELSE Unsubscribe
  /\ UNCHANGED <<cancelRequested, cancelling, cancels>>

CtrlC ==
  /\ ~exited
  /\ CancelActiveRun \/ CancelStartingRun \/ Exit
  /\ pressed' = TRUE
  /\ UNCHANGED <<screen, command, committed, printed, viewed, refused>>

(***************************************************************************)
(* A render with its effects. useDaemonEvents follows runId; a timeline of *)
(* another run is not shown. A terminal timeline is handed over once.      *)
(***************************************************************************)
TimelineOf(r) ==
  IF streamed # r \/ r = None THEN "none"
  ELSE IF Status(applied, r) = "completed" THEN "terminal" ELSE "live"

Rendered == [runId |-> runId, timeline |-> TimelineOf(runId), busy |-> command # Idle]

FollowRun ==
  /\ streamed # runId
  /\ streamed' = runId
  /\ IF runId = None THEN Unsubscribe ELSE Subscribe
  /\ UNCHANGED <<runId, cancelling, committed, printed>>

HandOver ==
  /\ streamed = runId /\ TimelineOf(runId) = "terminal" /\ runId \notin committed
  /\ committed' = committed \cup {runId}
  /\ printed' = Append(printed, runId)
  /\ runId' = None
  /\ cancelling' = FALSE
  /\ UNCHANGED <<vars, streamed>>

Repaint ==
  /\ streamed = runId
  /\ ~(TimelineOf(runId) = "terminal" /\ runId \notin committed)
  /\ view # Rendered
  /\ UNCHANGED <<vars, runId, streamed, cancelling, committed, printed>>

Render ==
  /\ ~exited
  /\ view' = Rendered
  /\ FollowRun \/ HandOver \/ Repaint
  /\ UNCHANGED <<command, cancelRequested, cancels, exited, viewed, refused, pressed>>

(* The connection of the stream, while somebody is subscribed.             *)
StreamStep ==
  /\ Connect \/ Drop \/ ChunkEndsInFrame \/ ChunkCompletesFrame
  /\ UNCHANGED <<screen, command, refs, cancels, exited, history>>

(***************************************************************************)
(* The specification.                                                      *)
(***************************************************************************)
AppNext ==
  \/ \E r \in Runs :
       \/ RoundEnds(r) \/ OtherClientAddsRound(r) \/ CancelArrives(r) \/ CancelFails(r)
       \/ DaemonStartsRun(r)
  \/ SubmitRun \/ SubmitOther \/ Quit \/ CtrlC
  \/ DaemonEnsured \/ Answered \/ FailsOrEnds
  \/ Render \/ StreamStep

(* Renders are scheduled, requests are answered or time out, and the       *)
(* stream is that of EventStream. Nothing is assumed of the user, nor that *)
(* a round ends unless it is cancelled.                                    *)
AppFairness ==
  /\ WF_appVars(Render)
  /\ WF_appVars(Answered \/ FailsOrEnds)
  /\ \A r \in Runs : WF_appVars(CancelArrives(r) \/ CancelFails(r))
  /\ WF_appVars(StreamStep /\ Connect)
  /\ WF_appVars(StreamStep /\ ChunkCompletesFrame)

AppSpec == AppInit /\ [][AppNext]_appVars /\ AppFairness

(***************************************************************************)
(* Properties.                                                             *)
(***************************************************************************)

(* Type invariant.                                                         *)
AppTypeOK ==
  /\ {runId, streamed} \subseteq Runs \cup {None}
  /\ view \in [runId : Runs \cup {None}, timeline : {"none", "live", "terminal"},
               busy : BOOLEAN]
  /\ command \in [phase : {"none", "ensuring", "starting", "answering", "other"},
                  run : Runs \cup {None}]
  /\ {cancelRequested, cancelling, exited, pressed} \subseteq BOOLEAN
  /\ committed \cup cancels \cup viewed \cup refused \subseteq Runs

(* app.tsx:34-37, 85-88: one run is on view at a time, and each goes to    *)
(* the scrollback once, in one step with leaving the live region: no run   *)
(* that was watched is displaced unprinted, or printed twice, whatever     *)
(* order answers, events, renders and keys come in.                        *)
NoRunLost == ~exited => viewed \subseteq committed \cup {runId}

PrintedOnce ==
  /\ IsInjective(printed)
  /\ committed = ToSet(printed)
  /\ runId \notin committed

SessionInv == AppTypeOK /\ StreamInv /\ NoRunLost /\ PrintedOnce

(* app.tsx:156-157, "so two presses always quit": when Ctrl+C was pressed  *)
(* since the last /run, the next one quits, whatever happened in between.  *)
TwoPressesQuit == (CtrlC /\ pressed) => exited'

(* app.tsx:150-151: the first Ctrl+C cancels a run instead of quitting. A  *)
(* run that lives on after a first press was not on the screen, or was     *)
(* last seen there as ended.                                               *)
Seen(r) == view.runId = r /\ view.timeline # "terminal"

FirstPressCancels ==
  (CtrlC /\ exited' /\ ~pressed) => \A r \in Runs : Alive(r) => ~Seen(r)

PressesObeyed == [][TwoPressesQuit /\ FirstPressCancels]_appVars

(* app.tsx:163-165: a Ctrl+C during the start of a run is carried out once *)
(* its id is known, even if the session is quit meanwhile, so that no run  *)
(* is left behind; unless the answer or the cancel request fails.          *)
Unanswered(r) == command.run # r /\ r \notin viewed

CancelReachesRun ==
  \A r \in Runs :
    (cancelRequested /\ command.run = r) ~> (~Alive(r) \/ r \in refused \/ Unanswered(r))

(* app.tsx:85-88: a run on view whose round has ended, by itself or by a   *)
(* cancel, is handed over to the scrollback and makes room for the next    *)
(* one, across broken connections.                                         *)
FinishedRunCommitted ==
  \A r \in Runs : (runId = r /\ ~Alive(r)) ~> (r \in committed \/ Alive(r) \/ exited)
=============================================================================
