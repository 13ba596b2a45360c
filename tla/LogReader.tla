----------------------------- MODULE LogReader -----------------------------
(***************************************************************************)
(* What a subscriber of the event log is promised: every event of the log, *)
(* once, in the order of the log, and sooner or later if it stays.         *)
(***************************************************************************)
EXTENDS Sequences, Naturals

CONSTANT Payloads

VARIABLES
  log,      (* The events committed.                                        *)
  reading,  (* Is the subscriber there?                                     *)
  read      (* The events it has been handed since it came.                 *)

vars == <<log, reading, read>>

Init == log = <<>> /\ reading = FALSE /\ read = <<>>

(* A transaction commits one event, or two.                                *)
Publish ==
  /\ \E p, q \in Payloads : log' \in {Append(log, p), log \o <<p, q>>}
  /\ UNCHANGED <<reading, read>>

(* A subscriber comes, and is to be handed the log from its beginning.     *)
Come ==
  /\ ~reading
  /\ reading' = TRUE
  /\ read' = <<>>
  /\ UNCHANGED log

Read ==
  /\ reading
  /\ Len(read) < Len(log)
  /\ read' = Append(read, log[Len(read) + 1])
  /\ UNCHANGED <<log, reading>>

Leave ==
  /\ reading
  /\ reading' = FALSE
  /\ UNCHANGED <<log, read>>

Next == Publish \/ Come \/ Read \/ Leave

Spec == Init /\ [][Next]_vars /\ WF_vars(Read)
=============================================================================
