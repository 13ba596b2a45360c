----------------------------- MODULE RawOutput -----------------------------
(***************************************************************************)
(* What of an answer reaches the orchestrator: the distilled tail          *)
(* (engine/src/distill.ts) and the pages of the raw blob (readRaw of       *)
(* engine/src/store.ts). A text is a sequence of bytes of which only the   *)
(* place in a character, and being a newline, are told apart; an offset    *)
(* counts the bytes before it.                                             *)
(***************************************************************************)
EXTENDS Naturals, Sequences, FiniteSetsExt

CONSTANT None

Bytes == {"ascii", "newline", "lead2", "lead3", "cont", "replacement"}

ASSUME RawOutputAssumption == None \notin Seq(Bytes)

Characters ==
  {<<"ascii">>, <<"newline">>, <<"lead2", "cont">>, <<"lead3", "cont", "cont">>}

(* Is the byte part of a whole character of these bytes?                   *)
InCharacter(bytes, i) ==
  \E c \in Characters, s \in 1..i :
    i < s + Len(c) /\ s + Len(c) - 1 <= Len(bytes) /\ SubSeq(bytes, s, s + Len(c) - 1) = c

(* A byte outside of a whole character decodes to U+FFFD.                  *)
Decoded(bytes) ==
  [i \in DOMAIN bytes |-> IF InCharacter(bytes, i) THEN bytes[i] ELSE "replacement"]

PastContinuation(bytes, offset) ==
  Min({o \in offset..Len(bytes) : o = Len(bytes) \/ bytes[o + 1] # "cont"})

(***************************************************************************)
(* readRaw.                                                                *)
(***************************************************************************)
Smaller(m, n) == IF m < n THEN m ELSE n

(* Mutated: a page ends where the count says, within a character too.      *)
PageEndAnywhere(blob, cursor, maxBytes) == Smaller(cursor + maxBytes, Len(blob))

PageEnd(blob, cursor, maxBytes) ==
  PastContinuation(blob, Smaller(cursor + maxBytes, Len(blob)))

ReadRaw(blob, cursor, maxBytes) ==
  IF blob = None
  THEN [chunk |-> <<>>, nextCursor |-> cursor, eof |-> TRUE]
  ELSE LET end == PageEnd(blob, cursor, maxBytes)
       IN  [chunk |-> Decoded(SubSeq(blob, cursor + 1, end)),
            nextCursor |-> end, eof |-> end >= Len(blob)]

(***************************************************************************)
(* distill: at most capBytes of the tail, less a partial first line. The   *)
(* marker tells how many bytes were cut.                                   *)
(***************************************************************************)
Newlines(text) == {i \in DOMAIN text : text[i] = "newline"}

FromLineStart(tail) ==
  IF Newlines(tail) # {} /\ Min(Newlines(tail)) < Len(tail)
  THEN SubSeq(tail, Min(Newlines(tail)) + 1, Len(tail)) ELSE tail

(* Mutated: the cut may fall within a character.                           *)
CutAnywhere(text, capBytes) == Len(text) - capBytes

Cut(text, capBytes) == PastContinuation(text, Len(text) - capBytes)

Distill(text, capBytes) ==
  IF Len(text) <= capBytes
  THEN [distilled |-> text, truncated |-> FALSE, omitted |-> 0]
  ELSE LET start == Cut(text, capBytes)
       IN  [distilled |-> FromLineStart(Decoded(SubSeq(text, start + 1, Len(text)))),
            truncated |-> TRUE, omitted |-> start]
=============================================================================
