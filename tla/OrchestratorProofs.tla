------------------------- MODULE OrchestratorProofs -------------------------
(***************************************************************************)
(* Proofs about module Orchestrator: a question is asked once, what is     *)
(* distilled of an answer is honest, and a question is judged on the whole *)
(* answer of its round or on all that was kept of its output. They rest on *)
(* what RawOutput does with text: a cut that is moved past continuation    *)
(* bytes splits no character, and what was decoded is whole.               *)
(***************************************************************************)
EXTENDS Orchestrator, FiniteSetTheorems, SequenceTheorems, WellFoundedInduction, TLAPS

(* Text of which every byte is part of a whole character, or a replacement. *)
Whole(text) ==
  \A i \in DOMAIN text : InCharacter(text, i) \/ text[i] = "replacement"

(* An offset that is not within a character.                               *)
Boundary(text, offset) == offset = Len(text) \/ text[offset + 1] # "cont"

(* The character c, at the bytes from s on.                                *)
Spelled(text, s, c) ==
  /\ s + Len(c) - 1 <= Len(text)
  /\ \A k \in 1..Len(c) : text[s + k - 1] = c[k]

LEMMA WholeIsDecoded ==
  ASSUME NEW text \in Seq(Bytes)
  PROVE  /\ Whole(text) <=> Decoded(text) = text
         /\ Decoded(text) \in Seq(Bytes)
<1>1. DOMAIN text = 1..Len(text) /\ Len(text) \in Nat /\ \A i \in 1..Len(text) : text[i] \in Bytes
  OBVIOUS
<1>2. DOMAIN Decoded(text) = 1..Len(text)
  BY <1>1 DEF Decoded
<1>3. \A i \in 1..Len(text) : Decoded(text)[i] \in Bytes
  BY <1>1 DEF Decoded, Bytes
<1>4. Decoded(text) \in [1..Len(text) -> Bytes]
  BY <1>1, <1>3 DEF Decoded
<1>5. ASSUME Whole(text) PROVE Decoded(text) = text
  <2>1. \A i \in 1..Len(text) : Decoded(text)[i] = text[i]
    BY <1>1, <1>5 DEF Decoded, Whole
  <2> QED
    BY <1>1, <1>2, <1>4, <2>1
<1>6. ASSUME Decoded(text) = text PROVE Whole(text)
  <2> SUFFICES ASSUME NEW i \in 1..Len(text), ~InCharacter(text, i) PROVE text[i] = "replacement"
    BY <1>1 DEF Whole
  <2>1. Decoded(text)[i] = "replacement"
    BY <1>1 DEF Decoded
  <2> QED
    BY <1>6, <2>1
<1>7. Decoded(text) \in Seq(Bytes)
  BY <1>1, <1>4
<1> QED
  BY <1>5, <1>6, <1>7

LEMMA CharacterFacts ==
  ASSUME NEW c \in Characters
  PROVE  /\ c \in Seq(Bytes) /\ Len(c) \in Nat /\ 1 <= Len(c)
         /\ \A k \in 1..Len(c) : k # 1 => c[k] = "cont"
         /\ \A k \in 1..Len(c) : c[k] = "newline" => Len(c) = 1
         /\ c[1] # "cont"
<1>1. ASSUME NEW b \in {"ascii", "newline"}, c = <<b>>
      PROVE  /\ c \in Seq(Bytes) /\ Len(c) = 1 /\ 1..Len(c) = {1} /\ c[1] # "cont"
  <2>1. Len(c) = 1 /\ 1..Len(c) = {1} /\ c[1] = b
    BY <1>1
  <2>2. <<b>> \in Seq(Bytes)
    BY <1>1 DEF Bytes
  <2> QED
    BY <1>1, <2>1, <2>2
<1>2. CASE c = <<"lead2", "cont">>
  <2>1. Len(c) = 2 /\ 1..Len(c) = {1, 2} /\ c[1] = "lead2" /\ c[2] = "cont"
    BY <1>2
  <2>2. c \in Seq(Bytes)
    BY <1>2 DEF Bytes
  <2> QED
    BY <2>1, <2>2
<1>3. CASE c = <<"lead3", "cont", "cont">>
  <2>1. Len(c) = 3 /\ 1..Len(c) = {1, 2, 3} /\ c[1] = "lead3" /\ c[2] = "cont" /\ c[3] = "cont"
    BY <1>3
  <2>2. c \in Seq(Bytes)
    BY <1>3 DEF Bytes
  <2> QED
    BY <2>1, <2>2
<1> QED
  BY <1>1, <1>2, <1>3 DEF Characters

(* A slice, byte by byte.                                                  *)
LEMMA SliceFacts ==
  ASSUME NEW text \in Seq(Bytes), NEW a \in Nat, NEW b \in Nat, a <= b, b <= Len(text)
  PROVE  /\ SubSeq(text, a + 1, b) \in Seq(Bytes)
         /\ Len(SubSeq(text, a + 1, b)) = b - a
         /\ \A i \in 1..(b - a) : SubSeq(text, a + 1, b)[i] = text[a + i]
<1>1. Len(text) \in Nat
  OBVIOUS
<1>2. b - a \in Nat /\ b - (a + 1) + 1 = b - a
  OBVIOUS
<1>3. \A i \in (a + 1)..b : i \in 1..Len(text) /\ text[i] \in Bytes
  BY <1>1
<1>4. SubSeq(text, a + 1, b) \in Seq(Bytes)
  BY <1>3, SubSeqProperties
<1>5. CASE a < b
  BY <1>1, <1>2, <1>4, <1>5, SubSeqProperties
<1>6. CASE a = b
  BY <1>1, <1>2, <1>4, <1>6, SubSeqProperties
<1> QED
  BY <1>5, <1>6

LEMMA CharacterIsSpelled ==
  ASSUME NEW text \in Seq(Bytes), NEW i \in 1..Len(text)
  PROVE  InCharacter(text, i)
           <=> \E c \in Characters, s \in 1..i : i < s + Len(c) /\ Spelled(text, s, c)
<1>1. ASSUME NEW c \in Characters, NEW s \in 1..i, s + Len(c) - 1 <= Len(text)
      PROVE  SubSeq(text, s, s + Len(c) - 1) = c <=> \A k \in 1..Len(c) : text[s + k - 1] = c[k]
  <2>1. /\ c \in Seq(Bytes) /\ Len(c) \in Nat /\ 1 <= Len(c) /\ Len(text) \in Nat /\ s - 1 \in Nat
        /\ (s - 1) + 1 = s /\ (s - 1) <= s + Len(c) - 1 /\ s + Len(c) - 1 \in Nat
        /\ (s + Len(c) - 1) - (s - 1) = Len(c)
        /\ \A k \in 1..Len(c) : (s - 1) + k = s + k - 1
    BY CharacterFacts
  <2> DEFINE w == SubSeq(text, s, s + Len(c) - 1)
  <2>2. /\ w \in Seq(Bytes) /\ Len(w) = Len(c)
        /\ \A k \in 1..Len(c) : w[k] = text[s + k - 1]
    <3> DEFINE lo == s - 1 hi == s + Len(c) - 1
    <3>1. lo \in Nat /\ hi \in Nat /\ lo <= hi /\ hi <= Len(text) /\ lo + 1 = s /\ hi - lo = Len(c)
      BY <1>1, <2>1
    <3> HIDE DEF lo, hi
    <3>2. /\ SubSeq(text, lo + 1, hi) \in Seq(Bytes)
          /\ Len(SubSeq(text, lo + 1, hi)) = hi - lo
          /\ \A k \in 1..(hi - lo) : SubSeq(text, lo + 1, hi)[k] = text[lo + k]
      BY <3>1, SliceFacts
    <3>3. SubSeq(text, lo + 1, hi) = w
      BY <3>1 DEF hi
    <3> QED
      BY <3>1, <3>2, <3>3, <2>1 DEF lo
  <2> HIDE DEF w
  <2>3. w = c <=> \A k \in 1..Len(c) : w[k] = c[k]
    BY <2>1, <2>2, SeqEqual
  <2> QED
    BY <2>2, <2>3 DEF w
<1> QED
  BY <1>1 DEF InCharacter, Spelled

(* What lies between two boundaries of whole text is whole.                *)
LEMMA SliceIsWhole ==
  ASSUME NEW text \in Seq(Bytes), Whole(text), NEW a \in Nat, NEW b \in Nat,
         a <= b, b <= Len(text), Boundary(text, a), Boundary(text, b)
  PROVE  Whole(SubSeq(text, a + 1, b))
<1> DEFINE w == SubSeq(text, a + 1, b)
<1>1. /\ w \in Seq(Bytes) /\ Len(w) = b - a /\ DOMAIN w = 1..(b - a)
      /\ \A i \in 1..(b - a) : w[i] = text[a + i]
  BY SliceFacts
<1> HIDE DEF w
<1>2. Len(text) \in Nat /\ DOMAIN text = 1..Len(text)
  OBVIOUS
<1> SUFFICES ASSUME NEW i \in 1..(b - a), w[i] # "replacement" PROVE InCharacter(w, i)
  BY <1>1 DEF Whole, w
<1>3. a + i \in 1..Len(text) /\ text[a + i] # "replacement"
  BY <1>1, <1>2
<1>4. InCharacter(text, a + i)
  BY <1>2, <1>3 DEF Whole
<1>5. PICK c \in Characters, s \in 1..(a + i) : a + i < s + Len(c) /\ Spelled(text, s, c)
  BY <1>3, <1>4, CharacterIsSpelled
<1>6. /\ Len(c) \in Nat /\ 1 <= Len(c)
      /\ \A k \in 1..Len(c) : k # 1 => text[s + k - 1] = "cont"
  BY <1>5, CharacterFacts DEF Spelled
<1>7. a < s
  <2> SUFFICES ASSUME s <= a PROVE FALSE
    BY <1>5
  <2>1. (a + 1 - s) + 1 \in 1..Len(c) /\ (a + 1 - s) + 1 # 1 /\ s + ((a + 1 - s) + 1) - 1 = a + 1
    BY <1>5, <1>6
  <2>2. text[a + 1] = "cont"
    BY <1>6, <2>1
  <2>3. a # Len(text)
    BY <1>3
  <2> QED
    BY <2>2, <2>3 DEF Boundary
<1>8. s + Len(c) - 1 <= b
  <2> SUFFICES ASSUME b < s + Len(c) - 1 PROVE FALSE
    BY <1>5, <1>6
  <2>1. s <= b
    BY <1>5
  <2>2. (b + 1 - s) + 1 \in 1..Len(c) /\ (b + 1 - s) + 1 # 1 /\ s + ((b + 1 - s) + 1) - 1 = b + 1
    BY <1>5, <1>6, <2>1
  <2>3. text[b + 1] = "cont"
    BY <1>6, <2>2
  <2>4. s \in Int /\ s + Len(c) - 1 <= Len(text)
    BY <1>5 DEF Spelled
  <2> DEFINE last == s + Len(c) - 1
  <2>5. last \in Int /\ last <= Len(text) /\ b < last
    BY <1>6, <2>4
  <2> HIDE DEF last
  <2>6. b < Len(text)
    BY <1>2, <2>5
  <2> QED
    BY <1>2, <2>3, <2>6 DEF Boundary
<1>9. s - a \in 1..i /\ i < (s - a) + Len(c)
  BY <1>5, <1>6, <1>7
<1>10. Spelled(w, s - a, c)
  <2>1. (s - a) + Len(c) - 1 <= Len(w)
    BY <1>1, <1>6, <1>8
  <2>2. ASSUME NEW k \in 1..Len(c) PROVE w[(s - a) + k - 1] = c[k]
    <3>1. (s - a) + k - 1 \in 1..(b - a) /\ a + ((s - a) + k - 1) = s + k - 1
      BY <1>6, <1>7, <1>8
    <3> QED
      BY <1>1, <1>5, <3>1 DEF Spelled
  <2> QED
    BY <2>1, <2>2 DEF Spelled
<1>11. i \in 1..Len(w)
  BY <1>1
<1> QED
  BY <1>1, <1>9, <1>10, <1>11, CharacterIsSpelled

(* What was decoded is whole, whatever it was decoded from.                *)
LEMMA DecodedIsWhole ==
  ASSUME NEW text \in Seq(Bytes)
  PROVE  Whole(Decoded(text))
<1> DEFINE w == Decoded(text)
<1>1. /\ w \in Seq(Bytes) /\ Len(w) = Len(text) /\ Len(text) \in Nat
      /\ \A i \in 1..Len(text) : InCharacter(text, i) => w[i] = text[i]
      /\ \A i \in 1..Len(text) : ~InCharacter(text, i) => w[i] = "replacement"
  BY WholeIsDecoded DEF Decoded
<1> HIDE DEF w
<1> SUFFICES ASSUME NEW i \in 1..Len(w), w[i] # "replacement" PROVE InCharacter(w, i)
  BY <1>1 DEF Whole, w
<1>2. i \in 1..Len(text) /\ InCharacter(text, i)
  BY <1>1
<1>3. PICK c \in Characters, s \in 1..i : i < s + Len(c) /\ Spelled(text, s, c)
  BY <1>2, CharacterIsSpelled
<1>4. Len(c) \in Nat
  BY CharacterFacts
<1>5. ASSUME NEW k \in 1..Len(c) PROVE w[s + k - 1] = c[k]
  <2>1. /\ s + k - 1 \in 1..Len(text) /\ s \in 1..(s + k - 1)
        /\ s + k - 1 < s + Len(c)
    BY <1>1, <1>3, <1>4 DEF Spelled
  <2>2. InCharacter(text, s + k - 1)
    BY <1>3, <2>1, CharacterIsSpelled
  <2> QED
    BY <1>1, <1>3, <2>1, <2>2 DEF Spelled
<1>6. Spelled(w, s, c)
  BY <1>1, <1>3, <1>5 DEF Spelled
<1> QED
  BY <1>1, <1>3, <1>6, CharacterIsSpelled

(* What a member prints is bytes, in whatever order they arrive.           *)
LEMMA MixedFacts ==
  ASSUME NEW answer \in Seq(Bytes), NEW noise \in Seq(Bytes), NEW at \in 0..Len(Printed(answer))
  PROVE  Mixed(Printed(answer), noise, at) \in Seq(Bytes)
<1> DEFINE w == Printed(answer)
<1>1. w \in Seq(Bytes) /\ Len(w) \in Nat
  BY AppendProperties DEF Printed, Bytes
<1> HIDE DEF w
<1>2. at \in Nat /\ at <= Len(w) /\ 0 \in Nat /\ 0 + 1 = 1
  BY <1>1 DEF w
<1>3. SubSeq(w, 1, at) \in Seq(Bytes)
  BY <1>1, <1>2, SliceFacts
<1>4. SubSeq(w, at + 1, Len(w)) \in Seq(Bytes)
  BY <1>1, <1>2, SliceFacts
<1>5. Mixed(w, noise, at) \in Seq(Bytes)
  BY <1>3, <1>4, ConcatProperties DEF Mixed
<1> QED
  BY <1>5 DEF w

(* The blob is whole text, of everything that fits the capture.            *)
LEMMA CapturedFacts ==
  ASSUME NEW output \in Seq(Bytes)
  PROVE  /\ Captured(output) \in Seq(Bytes) /\ Whole(Captured(output))
         /\ Captured(output) = KeptOf(output)
<1> DEFINE size == Smaller(CaptureBytes, Len(output))
           kept == SubSeq(output, 1, size)
<1>1. Len(output) \in Nat /\ CaptureBytes \in Nat
  BY OrchestratorAssumption
<1>2. size \in Nat /\ size <= Len(output) /\ 0 \in Nat /\ 0 + 1 = 1
  BY <1>1 DEF Smaller
<1>3. /\ Len(output) <= CaptureBytes => size = Len(output)
      /\ ~(Len(output) <= CaptureBytes) => size = CaptureBytes
  BY <1>1 DEF Smaller
<1> HIDE DEF size
<1>4. kept \in Seq(Bytes)
  BY <1>2, SliceFacts
<1>5. Captured(output) = Decoded(kept)
  BY DEF Captured, size
<1>6. Captured(output) = KeptOf(output)
  <2>1. CASE Len(output) <= CaptureBytes
    <3>1. kept = output
      BY <1>3, <2>1, SubSeqFull
    <3> QED
      BY <1>5, <2>1, <3>1 DEF KeptOf
  <2>2. CASE ~(Len(output) <= CaptureBytes)
    BY <1>3, <1>5, <2>2 DEF KeptOf
  <2> QED
    BY <2>1, <2>2
<1> HIDE DEF kept
<1> QED
  BY <1>4, <1>5, <1>6, WholeIsDecoded, DecodedIsWhole

(* A set of offsets has a least one.                                       *)
LEMMA LeastOffset ==
  ASSUME NEW S \in SUBSET Nat, S # {}
  PROVE  Min(S) \in S /\ \A x \in S : Min(S) <= x
<1> DEFINE R == OpToRel(<, Nat)
<1>1. IsWellFoundedOn(R, Nat)
  BY NatLessThanWellFounded
<1> HIDE DEF R
<1>2. PICK x \in S : \A y \in S : ~(<<y, x>> \in R)
  BY <1>1, WFMin
<1>3. \A y \in S : ~(y < x)
  BY <1>2 DEF R, OpToRel
<1>4. \A y \in S : x <= y
  BY <1>3
<1> QED
  BY <1>4 DEF Min

(* Past the continuation bytes is a boundary.                              *)
LEMMA PastContinuationFacts ==
  ASSUME NEW text \in Seq(Bytes), NEW offset \in 0..Len(text)
  PROVE  /\ PastContinuation(text, offset) \in offset..Len(text)
         /\ Boundary(text, PastContinuation(text, offset))
<1> DEFINE S == {o \in offset..Len(text) : o = Len(text) \/ text[o + 1] # "cont"}
<1>1. Len(text) \in Nat /\ Len(text) \in S /\ S \in SUBSET Nat
  OBVIOUS
<1>2. Min(S) \in S
  <2> HIDE DEF S
  <2> QED
    BY <1>1, LeastOffset
<1> QED
  BY <1>2 DEF PastContinuation, Boundary

(* Whole text begins at a boundary.                                        *)
LEMMA StartIsBoundary ==
  ASSUME NEW text \in Seq(Bytes), Whole(text)
  PROVE  Boundary(text, 0)
<1> SUFFICES ASSUME Len(text) # 0, text[1] = "cont" PROVE FALSE
  BY DEF Boundary
<1>1. 1 \in 1..Len(text)
  OBVIOUS
<1>2. InCharacter(text, 1)
  BY <1>1 DEF Whole
<1>3. PICK c \in Characters, s \in 1..1 : Spelled(text, s, c)
  BY <1>1, <1>2, CharacterIsSpelled
<1>4. s = 1 /\ 1 \in 1..Len(c) /\ s + 1 - 1 = 1
  BY CharacterFacts
<1>5. text[1] = c[1]
  BY <1>3, <1>4 DEF Spelled
<1> QED
  BY <1>5, CharacterFacts

(* In whole text a line begins at a boundary.                              *)
LEMMA LineStartIsBoundary ==
  ASSUME NEW text \in Seq(Bytes), Whole(text), NEW m \in Newlines(text)
  PROVE  Boundary(text, m)
<1>1. m \in 1..Len(text) /\ Len(text) \in Nat /\ text[m] = "newline"
  BY DEF Newlines
<1> SUFFICES ASSUME m < Len(text), text[m + 1] = "cont" PROVE FALSE
  BY <1>1 DEF Boundary
<1>2. m + 1 \in 1..Len(text)
  BY <1>1
<1>3. InCharacter(text, m + 1)
  BY <1>2 DEF Whole
<1>4. PICK c \in Characters, s \in 1..(m + 1) : m + 1 < s + Len(c) /\ Spelled(text, s, c)
  BY <1>2, <1>3, CharacterIsSpelled
<1>5. /\ Len(c) \in Nat /\ 1 <= Len(c) /\ c[1] # "cont"
      /\ \A k \in 1..Len(c) : text[s + k - 1] = c[k]
      /\ \A k \in 1..Len(c) : c[k] = "newline" => Len(c) = 1
  BY <1>4, CharacterFacts DEF Spelled
<1>6. s # m + 1
  <2> SUFFICES ASSUME s = m + 1 PROVE FALSE
    OBVIOUS
  <2>1. 1 \in 1..Len(c) /\ s + 1 - 1 = m + 1
    BY <1>5
  <2> QED
    BY <1>5, <2>1
<1>7. (m - s) + 1 \in 1..Len(c) /\ s + ((m - s) + 1) - 1 = m /\ Len(c) # 1
  BY <1>1, <1>4, <1>5, <1>6
<1> QED
  BY <1>1, <1>5, <1>7

(***************************************************************************)
(* What is distilled of whole text is a tail of it, and whole; a page of   *)
(* it that begins at a boundary ends at one.                               *)
(***************************************************************************)
DistilledFrom(text, d, capBytes) ==
  LET gone == Len(text) - Len(d.distilled)
  IN  /\ gone >= 0 /\ d.distilled = SubSeq(text, gone + 1, Len(text))
      /\ Decoded(d.distilled) = d.distilled
      /\ Len(d.distilled) <= capBytes
      /\ d.truncated <=> gone > 0
      /\ d.omitted <= gone

LEMMA LineStartFacts ==
  ASSUME NEW text \in Seq(Bytes), Whole(text)
  PROVE  \E m \in 0..Len(text) :
           /\ FromLineStart(text) = SubSeq(text, m + 1, Len(text))
           /\ Boundary(text, m)
           /\ m # 0 => m < Len(text)
<1>1. Len(text) \in Nat
  OBVIOUS
<1>2. CASE Newlines(text) # {} /\ Min(Newlines(text)) < Len(text)
  <2>1. Newlines(text) \in SUBSET Nat
    BY DEF Newlines
  <2>2. Min(Newlines(text)) \in Newlines(text)
    BY <1>2, <2>1, LeastOffset
  <2>3. Min(Newlines(text)) \in 0..Len(text)
    BY <2>2 DEF Newlines
  <2> QED
    BY <1>2, <2>2, <2>3, LineStartIsBoundary DEF FromLineStart
<1>3. CASE ~(Newlines(text) # {} /\ Min(Newlines(text)) < Len(text))
  <2>1. FromLineStart(text) = text
    BY <1>3 DEF FromLineStart
  <2>2. SubSeq(text, 0 + 1, Len(text)) = text
    BY SubSeqFull
  <2> QED
    BY <1>1, <2>1, <2>2, StartIsBoundary
<1> QED
  BY <1>2, <1>3

LEMMA DistillFacts ==
  ASSUME NEW text \in Seq(Bytes), Whole(text), NEW capBytes \in Nat
  PROVE  /\ DistilledFrom(text, Distill(text, capBytes), capBytes)
         /\ Distill(text, capBytes).truncated \in BOOLEAN
         /\ Distill(text, capBytes).truncated => text # <<>>
         /\ Distill(text, capBytes).truncated <=> ~(Len(text) <= capBytes)
         /\ ~Distill(text, capBytes).truncated => Distill(text, capBytes).distilled = text
<1> DEFINE d == Distill(text, capBytes)
<1>1. Len(text) \in Nat /\ Decoded(text) = text
  BY WholeIsDecoded
<1>2. CASE Len(text) <= capBytes
  <2>1. d = [distilled |-> text, truncated |-> FALSE, omitted |-> 0]
    BY <1>2 DEF Distill
  <2>2. Len(text) - Len(text) = 0 /\ SubSeq(text, 0 + 1, Len(text)) = text
    BY <1>1, SubSeqFull
  <2> QED
    BY <1>1, <1>2, <2>1, <2>2 DEF DistilledFrom
<1>3. CASE ~(Len(text) <= capBytes)
  <2> DEFINE start == Cut(text, capBytes)
             tail == SubSeq(text, start + 1, Len(text))
  <2>1. Len(text) - capBytes \in 0..Len(text) /\ Len(text) - capBytes > 0
    BY <1>1, <1>3
  <2>2. start \in (Len(text) - capBytes)..Len(text) /\ Boundary(text, start)
    BY <2>1, PastContinuationFacts DEF Cut
  <2>3. d = [distilled |-> FromLineStart(Decoded(tail)), truncated |-> TRUE, omitted |-> start]
    BY <1>3 DEF Distill
  <2> HIDE DEF start
  <2>4. start \in Nat /\ start > 0 /\ start <= Len(text) /\ Len(text) - start <= capBytes
    BY <1>1, <2>1, <2>2
  <2>5. /\ tail \in Seq(Bytes) /\ Len(tail) = Len(text) - start
        /\ \A i \in 1..(Len(text) - start) : tail[i] = text[start + i]
    BY <1>1, <2>4, SliceFacts
  <2>6. Boundary(text, Len(text))
    BY DEF Boundary
  <2>7. Whole(tail)
    BY <1>1, <2>2, <2>4, <2>6, SliceIsWhole
  <2> HIDE DEF tail
  <2>8. Decoded(tail) = tail
    BY <2>5, <2>7, WholeIsDecoded
  <2>9. PICK m \in 0..Len(tail) :
           /\ FromLineStart(tail) = SubSeq(tail, m + 1, Len(tail))
           /\ Boundary(tail, m)
    BY <2>5, <2>7, LineStartFacts
  <2> DEFINE w == SubSeq(tail, m + 1, Len(tail))
  <2>10. /\ w \in Seq(Bytes) /\ Len(w) = Len(tail) - m
         /\ \A i \in 1..(Len(tail) - m) : w[i] = tail[m + i]
    BY <1>1, <2>5, SliceFacts
  <2>11. Whole(w)
    <3>1. Boundary(tail, Len(tail))
      BY DEF Boundary
    <3> QED
      BY <2>5, <2>7, <2>9, <3>1, SliceIsWhole
  <2> HIDE DEF w
  <2>12. Decoded(w) = w
    BY <2>10, <2>11, WholeIsDecoded
  <2> DEFINE gone == Len(text) - Len(w)
  <2>13. gone = start + m /\ gone \in Nat /\ gone > 0 /\ gone <= Len(text) /\ start <= gone
    BY <1>1, <2>4, <2>5, <2>10
  <2>14. w = SubSeq(text, gone + 1, Len(text))
    <3> HIDE DEF gone
    <3> DEFINE v == SubSeq(text, gone + 1, Len(text))
    <3>1. /\ v \in Seq(Bytes) /\ Len(v) = Len(text) - gone
          /\ \A i \in 1..(Len(text) - gone) : v[i] = text[gone + i]
      BY <1>1, <2>13, SliceFacts
    <3> HIDE DEF v
    <3>2. Len(v) = Len(w)
      BY <1>1, <2>4, <2>5, <2>10, <2>13, <3>1
    <3>3. ASSUME NEW i \in 1..Len(w) PROVE w[i] = v[i]
      <4>1. /\ i \in 1..(Len(tail) - m) /\ m + i \in 1..(Len(text) - start)
            /\ i \in 1..(Len(text) - gone) /\ start + (m + i) = gone + i
        BY <1>1, <2>4, <2>5, <2>10, <2>13
      <4> QED
        BY <2>5, <2>10, <3>1, <4>1
    <3>4. w = v
      BY <2>10, <3>1, <3>2, <3>3, SeqEqual
    <3> QED
      BY <3>4 DEF v
  <2>15. d.distilled = w /\ d.truncated = TRUE /\ d.omitted = start
    BY <2>3, <2>8, <2>9 DEF w
  <2>16. Len(w) <= capBytes
    BY <1>1, <2>4, <2>5, <2>10
  <2>17. DistilledFrom(text, d, capBytes)
    <3> HIDE DEF d
    <3> QED
      BY <2>12, <2>13, <2>14, <2>15, <2>16 DEF DistilledFrom, gone
  <2>18. text # <<>>
    BY <1>1, <1>3
  <2> QED
    BY <1>3, <2>15, <2>17, <2>18
<1> QED
  BY <1>2, <1>3

(* What a reader holds who has read the blob up to cursor.                 *)
ReadUpTo(blob, cursor, text) ==
  /\ cursor \in 0..Len(blob) /\ Boundary(blob, cursor)
  /\ text = SubSeq(blob, 1, cursor)

LEMMA PageFacts ==
  ASSUME NEW blob \in Seq(Bytes), Whole(blob), NEW cursor, NEW text, NEW maxBytes \in Nat,
         ReadUpTo(blob, cursor, text)
  PROVE  LET page == ReadRaw(blob, cursor, maxBytes)
         IN  /\ ReadUpTo(blob, page.nextCursor, text \o page.chunk)
             /\ page.eof => text \o page.chunk = blob
<1> DEFINE from == Smaller(cursor + maxBytes, Len(blob))
           end == PageEnd(blob, cursor, maxBytes)
           page == ReadRaw(blob, cursor, maxBytes)
           piece == SubSeq(blob, cursor + 1, end)
<1>1. Len(blob) \in Nat /\ cursor \in 0..Len(blob) /\ Boundary(blob, cursor)
  BY DEF ReadUpTo
<1>2. from \in cursor..Len(blob) /\ from \in 0..Len(blob)
  BY <1>1 DEF Smaller
<1>3. end \in from..Len(blob) /\ Boundary(blob, end)
  <2> HIDE DEF from
  <2> QED
    BY <1>2, PastContinuationFacts DEF PageEnd, from
<1> HIDE DEF from, end
<1>4. end \in cursor..Len(blob) /\ end \in 0..Len(blob)
  BY <1>1, <1>2, <1>3
<1>5. blob # None
  BY RawOutputAssumption
<1>6. page = [chunk |-> Decoded(piece), nextCursor |-> end, eof |-> end >= Len(blob)]
  BY <1>5 DEF ReadRaw, end
<1>7. piece \in Seq(Bytes)
  BY <1>1, <1>4, SliceFacts
<1>8. Whole(piece)
  BY <1>1, <1>3, <1>4, SliceIsWhole
<1>9. Decoded(piece) = piece
  <2> HIDE DEF piece
  <2> QED
    BY <1>7, <1>8, WholeIsDecoded
<1>10. text \o piece = SubSeq(blob, 1, end)
  <2>1. text = SubSeq(blob, 1, cursor)
    BY DEF ReadUpTo
  <2>2. 1 \in 1..Len(blob) + 1 /\ cursor \in (1 - 1)..Len(blob)
    BY <1>1
  <2> QED
    BY <1>4, <2>1, <2>2, ConcatAdjacentSubSeq
<1>11. end >= Len(blob) => SubSeq(blob, 1, end) = blob
  <2>1. end >= Len(blob) => end = Len(blob)
    BY <1>1, <1>4
  <2> QED
    BY <2>1, SubSeqFull
<1> HIDE DEF piece, page
<1>12. /\ page.nextCursor = end /\ page.chunk = piece /\ (page.eof <=> end >= Len(blob))
  BY <1>6, <1>9
<1> QED
  BY <1>3, <1>4, <1>10, <1>11, <1>12 DEF ReadUpTo, page

(***************************************************************************)
(* The inductive invariant. Its parts take the rounds as a parameter, so   *)
(* that they are used before and after a step alike.                       *)
(***************************************************************************)

(* A round has no answer and no blob until its member is done.             *)
RoundSound(r) ==
  /\ Whole(r.answer)
  /\ \/ r.raw = None /\ r.answer = <<>>
     \/ r.raw = Captured(r.output) /\ r.state = "complete"

RoundsSound(rs) == \A i \in DOMAIN rs : RoundSound(rs[i])

(* A step adds rounds and completes them; a complete one stays as it is.   *)
Grown(rs, new) ==
  \A i \in DOMAIN rs :
    /\ i \in DOMAIN new
    /\ new[i].question = rs[i].question
    /\ rs[i].state = "complete" => new[i] = rs[i]

RoundHeld(rs, h) ==
  /\ h.round \in DOMAIN rs /\ h.question \in Questions
  /\ rs[h.round].question = h.question

(* What the orchestrator makes of the answers is true of its round.        *)
HostSound(rs, h) ==
  /\ h.phase = "ask" => h.question \in Questions
  /\ h.phase = "adopt" => rs # <<>>
  /\ h.phase \in {"poll", "read", "reason"} => RoundHeld(rs, h)
  /\ h.phase = "read" =>
       /\ rs[h.round].state = "complete"
       /\ h.met = (rs[h.round].verdict = "met")
       /\ rs[h.round].raw # None /\ ~(Len(rs[h.round].answer) <= CapBytes)
       /\ ReadUpTo(rs[h.round].raw, h.cursor, h.text)
  /\ h.phase = "reason" => JudgedOn(rs[h.round], [met |-> h.met, text |-> h.text])

(* A call is one of the phase the orchestrator is in, and so is an answer. *)
CallSound(rs, h, c) ==
  c # None =>
    \/ c.tool = "list_runs" /\ h.phase = "anchor"
    \/ c.tool = "ask" /\ h.phase = "ask"
    \/ c.tool = "poll" /\ h.phase = "poll"
    \/ c.tool = "status" /\ h.phase = "adopt"
    \/ c.tool = "get_raw" /\ h.phase = "read" /\ c.maxBytes \in PageSizes
    \/ /\ c.tool = "answer" /\ h.phase \notin {"reason", "end"}
       /\ c.host \in HostState /\ HostSound(rs, c.host)

JudgedSound(rs, js) ==
  \A q \in Questions :
    js[q] # None => \E i \in DOMAIN rs : rs[i].question = q /\ JudgedOn(rs[i], js[q])

TablesSound ==
  /\ run \in {"none", "running", "abandoned"} /\ rounds \in Seq(RoundRow)
  /\ RoundsSound(rounds)
  /\ AskedOnce
  /\ run # "none" => rounds # <<>>

Talk ==
  /\ host \in HostState
  /\ judged \in [Questions -> [met : BOOLEAN, text : Seq(Bytes)] \cup {None}]
  /\ HostSound(rounds, host)
  /\ CallSound(rounds, host, call)
  /\ JudgedSound(rounds, judged)

Surroundings ==
  /\ daemon \in [up : BOOLEAN, start : 1..MaxStarts]
  /\ ~daemon.up => daemon.start < MaxStarts
  /\ server \in 0..MaxStarts
  /\ late \subseteq Questions
  /\ forgets \in 0..MaxForgets

TalkSound == Surroundings /\ TablesSound /\ Talk

LEMMA QuestionFacts ==
  /\ Questions = 1..Len(Answers) /\ Len(Answers) \in Nat /\ 1 \in Questions
  /\ \A q \in Questions : q \in Nat
  /\ \A q \in Questions : \A answer \in Answers[q] : answer \in Seq(Bytes) /\ Whole(answer)
<1>1. /\ Answers \in Seq(SUBSET Seq(Bytes)) /\ Answers # <<>>
      /\ \A q \in DOMAIN Answers : \A answer \in Answers[q] : Decoded(answer) = answer
  BY OrchestratorAssumption
<1>2. Questions = 1..Len(Answers) /\ Len(Answers) \in Nat /\ Len(Answers) # 0
  BY <1>1 DEF Questions
<1>3. ASSUME NEW q \in Questions, NEW answer \in Answers[q]
      PROVE  answer \in Seq(Bytes) /\ Whole(answer)
  <2>1. answer \in Seq(Bytes) /\ Decoded(answer) = answer
    BY <1>1, <1>2, <1>3 DEF Questions
  <2> QED
    BY <2>1, WholeIsDecoded
<1> QED
  BY <1>2, <1>3

(***************************************************************************)
(* The rounds.                                                             *)
(***************************************************************************)
LEMMA GrownKeepsTalk ==
  ASSUME NEW rs, NEW new, Grown(rs, new), rs # <<>> => new # <<>>,
         NEW h, NEW c, NEW js
  PROVE  /\ HostSound(rs, h) => HostSound(new, h)
         /\ CallSound(rs, h, c) => CallSound(new, h, c)
         /\ JudgedSound(rs, js) => JudgedSound(new, js)
<1>1. ASSUME NEW g, HostSound(rs, g) PROVE HostSound(new, g)
  <2>1. g.phase \in {"poll", "read", "reason"} => RoundHeld(new, g)
    BY <1>1 DEF HostSound, RoundHeld, Grown
  <2>2. g.phase = "read" => new[g.round] = rs[g.round]
    BY <1>1 DEF HostSound, RoundHeld, Grown
  <2>3. g.phase = "reason" => new[g.round] = rs[g.round]
    BY <1>1 DEF HostSound, RoundHeld, Grown, JudgedOn
  <2> QED
    BY <1>1, <2>1, <2>2, <2>3 DEF HostSound
<1>2. CallSound(rs, h, c) => CallSound(new, h, c)
  BY <1>1 DEF CallSound
<1>3. ASSUME JudgedSound(rs, js), NEW q \in Questions, js[q] # None
      PROVE  \E i \in DOMAIN new : new[i].question = q /\ JudgedOn(new[i], js[q])
  <2>1. PICK i \in DOMAIN rs : rs[i].question = q /\ JudgedOn(rs[i], js[q])
    BY <1>3 DEF JudgedSound
  <2>2. i \in DOMAIN new /\ new[i] = rs[i]
    BY <2>1 DEF Grown, JudgedOn
  <2> QED
    BY <2>1, <2>2
<1> QED
  BY <1>1, <1>2, <1>3 DEF JudgedSound

LEMMA SameRounds ==
  ASSUME NEW rs PROVE Grown(rs, rs)
BY DEF Grown

LEMMA EmptyIsWhole == Whole(<<>>) /\ <<>> \in Seq(Bytes)
BY DEF Whole

(* A question that is asked, for the first time or again.                  *)
LEMMA AskedFacts ==
  ASSUME TablesSound, NEW q \in Questions, Asked(q)
  PROVE  /\ TablesSound' /\ Grown(rounds, rounds') /\ rounds' # <<>>
         /\ LET i == IF Known(q) THEN RoundOf(q) ELSE Len(rounds')
            IN  i \in DOMAIN rounds' /\ i \in Nat /\ rounds'[i].question = q
<1>1. rounds \in Seq(RoundRow) /\ DOMAIN rounds = 1..Len(rounds) /\ Len(rounds) \in Nat
  BY DEF TablesSound
<1>2. CASE Known(q)
  <2>1. UNCHANGED <<run, rounds>>
    BY <1>2 DEF Asked
  <2>2. TablesSound'
    BY <2>1 DEF TablesSound, AskedOnce
  <2>3. RoundOf(q) \in DOMAIN rounds /\ rounds[RoundOf(q)].question = q
    BY <1>2 DEF Known, RoundOf
  <2>4. rounds # <<>>
    BY <1>1, <2>3
  <2>5. RoundOf(q) \in Nat
    BY <1>1, <2>3
  <2> QED
    BY <1>2, <2>1, <2>2, <2>3, <2>4, <2>5, SameRounds
<1>3. CASE ~Known(q)
  <2> DEFINE new == NewRound(q)
             rs == Append(rounds, new)
  <2>1. run' = "running" /\ rounds' = rs
    BY <1>3 DEF Asked
  <2>2. new \in RoundRow
    BY EmptyIsWhole DEF RoundRow, NewRound
  <2>3. /\ new.question = q /\ new.answer = <<>> /\ new.raw = None
    BY DEF NewRound
  <2> HIDE DEF new
  <2>4. /\ rs \in Seq(RoundRow) /\ Len(rs) = Len(rounds) + 1 /\ rs # <<>>
        /\ \A i \in 1..Len(rounds) : rs[i] = rounds[i]
        /\ rs[Len(rounds) + 1] = new
    BY <1>1, <2>2, AppendProperties
  <2> HIDE DEF rs
  <2>5. /\ DOMAIN rs = 1..(Len(rounds) + 1) /\ Len(rs) \in Nat /\ Len(rs) \in DOMAIN rs
        /\ \A i \in 1..(Len(rounds) + 1) : i \in 1..Len(rounds) \/ i = Len(rounds) + 1
    BY <1>1, <2>4
  <2>6. Grown(rounds, rs)
    BY <1>1, <2>4, <2>5 DEF Grown
  <2>7. RoundsSound(rs)
    <3> SUFFICES ASSUME NEW i \in DOMAIN rs PROVE RoundSound(rs[i])
      BY DEF RoundsSound
    <3>1. CASE i \in 1..Len(rounds)
      BY <1>1, <2>4, <3>1 DEF TablesSound, RoundsSound
    <3>2. CASE i = Len(rounds) + 1
      BY <2>3, <2>4, <3>2, EmptyIsWhole DEF RoundSound
    <3> QED
      BY <2>5, <3>1, <3>2
  <2>8. \A i, j \in DOMAIN rs : rs[i].question = rs[j].question => i = j
    <3>1. \A i \in 1..Len(rounds) : rs[i].question # q
      BY <1>1, <1>3, <2>4 DEF Known
    <3>2. \A i, j \in 1..Len(rounds) : rs[i].question = rs[j].question => i = j
      BY <1>1, <2>4 DEF TablesSound, AskedOnce
    <3> QED
      BY <2>3, <2>4, <2>5, <3>1, <3>2
  <2>9. TablesSound'
    BY <2>1, <2>4, <2>7, <2>8 DEF TablesSound, AskedOnce
  <2>10. rs[Len(rs)].question = q
    BY <2>3, <2>4
  <2> QED
    BY <1>3, <2>1, <2>4, <2>5, <2>6, <2>9, <2>10
<1> QED
  BY <1>2, <1>3

(* What a member leaves behind: its answer, its output and the blob of it. *)
LEMMA OutcomeFacts ==
  ASSUME NEW q \in Questions, NEW left \in Outcomes[q]
  PROVE  /\ left.answer \in Seq(Bytes) /\ Whole(left.answer) /\ left.output \in Seq(Bytes)
         /\ left.raw \in Seq(Bytes) /\ left.raw = Captured(left.output)
<1>1. PICK answer \in Answers[q], noise \in Noise[q] :
        \E at \in 0..Len(Printed(answer)) : left = Left(answer, Mixed(Printed(answer), noise, at))
  BY DEF Outcomes
<1>2. PICK at \in 0..Len(Printed(answer)) : left = Left(answer, Mixed(Printed(answer), noise, at))
  BY <1>1
<1>3. answer \in Seq(Bytes) /\ Whole(answer) /\ noise \in Seq(Bytes)
  BY QuestionFacts, OrchestratorAssumption DEF Questions
<1>4. Mixed(Printed(answer), noise, at) \in Seq(Bytes)
  BY <1>3, MixedFacts
<1> QED
  BY <1>2, <1>3, <1>4, CapturedFacts DEF Left

LEMMA CompletesFacts ==
  ASSUME TablesSound, NEW i \in DOMAIN rounds, RoundCompletes(i)
  PROVE  TablesSound' /\ Grown(rounds, rounds') /\ (rounds # <<>> => rounds' # <<>>)
<1>1. rounds \in Seq(RoundRow) /\ DOMAIN rounds = 1..Len(rounds) /\ Len(rounds) \in Nat
  BY DEF TablesSound
<1>2. rounds[i] \in RoundRow /\ rounds[i].question \in Questions /\ rounds[i].state = "running"
  <2>1. rounds[i] \in RoundRow
    BY <1>1
  <2> QED
    BY <2>1 DEF RoundRow, RoundCompletes, Running
<1>3. PICK left \in Outcomes[rounds[i].question], verdict \in {"met", "failed"} :
        rounds' = [rounds EXCEPT ![i].state = "complete", ![i].verdict = verdict,
                                 ![i].answer = left.answer, ![i].output = left.output,
                                 ![i].raw = left.raw]
  BY DEF RoundCompletes
<1>4. /\ left.answer \in Seq(Bytes) /\ Whole(left.answer) /\ left.output \in Seq(Bytes)
      /\ left.raw \in Seq(Bytes) /\ left.raw = Captured(left.output)
  BY <1>2, OutcomeFacts
<1> DEFINE done == [rounds[i] EXCEPT !.state = "complete", !.verdict = verdict,
                                     !.answer = left.answer, !.output = left.output,
                                     !.raw = left.raw]
<1>6. rounds' = [rounds EXCEPT ![i] = done]
  BY <1>1, <1>3
<1>7. done \in RoundRow
  BY <1>2, <1>4 DEF RoundRow
<1>8. /\ done.question = rounds[i].question /\ done.state = "complete"
      /\ RoundSound(done)
  BY <1>2, <1>4 DEF RoundRow, RoundSound
<1> HIDE DEF done
<1>9. /\ rounds' \in Seq(RoundRow) /\ DOMAIN rounds' = DOMAIN rounds
      /\ \A j \in DOMAIN rounds : j # i => rounds'[j] = rounds[j]
      /\ rounds'[i] = done
  BY <1>1, <1>6, <1>7
<1>10. Grown(rounds, rounds')
  BY <1>2, <1>8, <1>9 DEF Grown
<1>11. RoundsSound(rounds')
  BY <1>8, <1>9 DEF TablesSound, RoundsSound
<1>12. AskedOnce'
  BY <1>8, <1>9 DEF TablesSound, AskedOnce
<1>13. run' = run /\ rounds' # <<>>
  BY <1>1, <1>9 DEF RoundCompletes
<1> QED
  BY <1>9, <1>10, <1>11, <1>12, <1>13 DEF TablesSound

LEMMA RestartFacts ==
  ASSUME TablesSound, Restart
  PROVE  TablesSound' /\ Grown(rounds, rounds') /\ (rounds # <<>> => rounds' # <<>>)
<1>1. rounds \in Seq(RoundRow) /\ DOMAIN rounds = 1..Len(rounds) /\ Len(rounds) \in Nat
  BY DEF TablesSound
<1>2. rounds' = [i \in DOMAIN rounds |-> Interrupted(rounds[i])] /\ run' = run
  BY DEF Restart
<1>3. ASSUME NEW r \in RoundRow
      PROVE  /\ Interrupted(r) \in RoundRow /\ Interrupted(r).question = r.question
             /\ RoundSound(r) => RoundSound(Interrupted(r))
             /\ r.state = "complete" => Interrupted(r) = r
  BY DEF Interrupted, RoundRow, RoundSound
<1>4. \A i \in DOMAIN rounds : rounds[i] \in RoundRow
  BY <1>1
<1>5. /\ rounds' \in Seq(RoundRow) /\ DOMAIN rounds' = DOMAIN rounds
      /\ \A i \in DOMAIN rounds : rounds'[i] = Interrupted(rounds[i])
  BY <1>1, <1>2, <1>3, <1>4
<1>6. Grown(rounds, rounds')
  BY <1>3, <1>4, <1>5 DEF Grown
<1>7. RoundsSound(rounds')
  BY <1>3, <1>4, <1>5 DEF TablesSound, RoundsSound
<1>8. AskedOnce'
  BY <1>3, <1>4, <1>5 DEF TablesSound, AskedOnce
<1>9. rounds # <<>> => rounds' # <<>>
  BY <1>1, <1>5
<1> QED
  BY <1>2, <1>5, <1>6, <1>7, <1>8, <1>9 DEF TablesSound

(***************************************************************************)
(* What the daemon, and the start of the MCP server, leave to the talk.    *)
(***************************************************************************)
LEMMA TalkGoesOn ==
  ASSUME Talk, Grown(rounds, rounds'), rounds # <<>> => rounds' # <<>>,
         UNCHANGED <<host, call, judged>>
  PROVE  Talk'
BY GrownKeepsTalk DEF Talk

LEMMA DaemonStep ==
  ASSUME TalkSound,
         \/ \E i \in DOMAIN rounds : RoundCompletes(i)
         \/ Park \/ Crash \/ Restart
         \/ \E q \in Questions : LateAsk(q)
         \/ StartServer
  PROVE  TalkSound'
<1>1. ASSUME NEW i \in DOMAIN rounds, RoundCompletes(i) PROVE TalkSound'
  <2>1. UNCHANGED <<daemon, server, host, call, late, forgets, judged>>
    BY <1>1 DEF RoundCompletes
  <2>2. Talk'
    BY <1>1, <2>1, CompletesFacts, TalkGoesOn DEF TalkSound
  <2> QED
    BY <1>1, <2>1, <2>2, CompletesFacts DEF TalkSound, Surroundings
<1>2. CASE Park
  <2>1. /\ UNCHANGED <<daemon, rounds, server, host, call, late, forgets, judged>>
        /\ run = "running" /\ run' = "abandoned"
    BY <1>2 DEF Park
  <2>2. TablesSound'
    BY <2>1 DEF TalkSound, TablesSound, AskedOnce
  <2>3. Talk'
    BY <2>1, SameRounds, TalkGoesOn DEF TalkSound
  <2> QED
    BY <2>1, <2>2, <2>3 DEF TalkSound, Surroundings
<1>3. CASE Crash
  <2>1. /\ UNCHANGED <<run, rounds, server, host, call, forgets, judged>>
        /\ daemon.start < MaxStarts /\ daemon' = [daemon EXCEPT !.up = FALSE] /\ late' = {}
    BY <1>3 DEF Crash
  <2>2. TablesSound'
    BY <2>1 DEF TalkSound, TablesSound, AskedOnce
  <2>3. Talk'
    BY <2>1, SameRounds, TalkGoesOn DEF TalkSound
  <2>4. Surroundings'
    BY <2>1 DEF TalkSound, Surroundings
  <2> QED
    BY <2>2, <2>3, <2>4 DEF TalkSound
<1>4. CASE Restart
  <2>1. /\ UNCHANGED <<server, host, call, late, forgets, judged>>
        /\ ~daemon.up /\ daemon' = [up |-> TRUE, start |-> daemon.start + 1]
    BY <1>4 DEF Restart
  <2>2. Talk'
    BY <1>4, <2>1, RestartFacts, TalkGoesOn DEF TalkSound
  <2>3. Surroundings'
    BY <2>1, OrchestratorAssumption DEF TalkSound, Surroundings
  <2> QED
    BY <1>4, <2>2, <2>3, RestartFacts DEF TalkSound
<1>5. ASSUME NEW q \in Questions, LateAsk(q) PROVE TalkSound'
  <2>1. /\ UNCHANGED <<daemon, server, host, call, forgets, judged>>
        /\ late' = late \ {q}
        /\ Asked(q) \/ UNCHANGED <<run, rounds>>
    BY <1>5 DEF LateAsk
  <2>2. TablesSound' /\ Grown(rounds, rounds') /\ (rounds # <<>> => rounds' # <<>>)
    <3>1. CASE Asked(q)
      BY <3>1, AskedFacts DEF TalkSound
    <3>2. CASE UNCHANGED <<run, rounds>>
      BY <3>2, SameRounds DEF TalkSound, TablesSound, AskedOnce
    <3> QED
      BY <2>1, <3>1, <3>2
  <2>3. Talk'
    BY <2>1, <2>2, TalkGoesOn DEF TalkSound
  <2>4. Surroundings'
    BY <2>1 DEF TalkSound, Surroundings
  <2> QED
    BY <2>2, <2>3, <2>4 DEF TalkSound
<1>6. CASE StartServer
  <2>1. /\ UNCHANGED <<daemon, run, rounds, host, call, late, forgets, judged>>
        /\ server' = daemon.start
    BY <1>6 DEF StartServer
  <2>2. TablesSound'
    BY <2>1 DEF TalkSound, TablesSound, AskedOnce
  <2>3. Talk'
    BY <2>1, SameRounds, TalkGoesOn DEF TalkSound
  <2>4. Surroundings'
    BY <2>1, OrchestratorAssumption DEF TalkSound, Surroundings
  <2> QED
    BY <2>2, <2>3, <2>4 DEF TalkSound
<1> QED
  BY <1>1, <1>2, <1>3, <1>4, <1>5, <1>6

(* Calls are made and lost, and leave the tables and the place alone.      *)
LEMMA CallStep ==
  ASSUME TalkSound, Calls \/ Fails \/ GiveUp \/ ReplaceServer
  PROVE  TalkSound'
<1>1. UNCHANGED <<daemon, run, rounds, host, forgets, judged>>
  BY DEF Calls, Call, Fails, GiveUp, ReplaceServer
<1>2. TablesSound'
  BY <1>1 DEF TalkSound, TablesSound, AskedOnce
<1>3. CallSound(rounds, host, call')
  <2>1. CASE Calls
    BY <2>1 DEF Calls, Call, CallSound
  <2>2. CASE Fails \/ GiveUp \/ ReplaceServer
    BY <2>2 DEF Fails, GiveUp, ReplaceServer, CallSound
  <2> QED
    BY <2>1, <2>2
<1>4. Talk'
  BY <1>1, <1>3 DEF TalkSound, Talk
<1>5. late' \subseteq Questions
  <2>1. Waiting("ask") => host.question \in Questions
    BY DEF TalkSound, Talk, HostSound, CallSound, Waiting
  <2> QED
    BY <2>1 DEF TalkSound, Surroundings, Calls, Call, Fails, GiveUp, ReplaceServer
<1>6. server' \in 0..MaxStarts
  BY OrchestratorAssumption DEF TalkSound, Surroundings, Calls, Call, Fails, GiveUp, ReplaceServer
<1> QED
  BY <1>1, <1>2, <1>4, <1>5, <1>6 DEF TalkSound, Surroundings

(***************************************************************************)
(* The tools: each answer is one that the rounds bear out.                 *)
(***************************************************************************)
LEMMA AnswerStep ==
  ASSUME TalkSound, NEW next \in HostState, Answer(next), TablesSound',
         HostSound(rounds', next), Grown(rounds, rounds'), rounds # <<>> => rounds' # <<>>,
         host.phase \notin {"reason", "end"},
         UNCHANGED <<daemon, server, host, late, forgets, judged>>
  PROVE  TalkSound'
<1>1. call' = [tool |-> "answer", host |-> next]
  BY DEF Answer
<1>2. CallSound(rounds', host, call')
  BY <1>1 DEF CallSound
<1>3. Talk'
  BY <1>2, GrownKeepsTalk DEF TalkSound, Talk
<1>4. Surroundings'
  BY DEF TalkSound, Surroundings
<1> QED
  BY <1>3, <1>4 DEF TalkSound

LEMMA ListRunsStep ==
  ASSUME TalkSound, ListRuns
  PROVE  TalkSound'
<1> DEFINE next == IF run = "none" THEN [host EXCEPT !.phase = "ask", !.question = 1]
                                   ELSE [host EXCEPT !.phase = "adopt"]
<1>1. /\ Answer(next) /\ host.phase = "anchor"
      /\ UNCHANGED <<daemon, run, rounds, server, host, late, forgets, judged>>
  BY DEF ListRuns, Waiting, TalkSound, Talk, CallSound
<1>2. host \in HostState /\ 1 \in Questions
  BY QuestionFacts DEF TalkSound, Talk
<1>3. next \in HostState
  BY <1>2 DEF HostState
<1>4. \/ next.phase = "ask" /\ next.question = 1
      \/ next.phase = "adopt" /\ run # "none"
  BY <1>2 DEF HostState
<1> HIDE DEF next
<1>5. HostSound(rounds, next)
  BY <1>2, <1>4 DEF HostSound, TalkSound, TablesSound
<1>6. TablesSound'
  BY <1>1 DEF TalkSound, TablesSound, AskedOnce
<1> QED
  BY <1>1, <1>3, <1>5, <1>6, SameRounds, AnswerStep

LEMMA AskStep ==
  ASSUME TalkSound, Ask
  PROVE  TalkSound'
<1> DEFINE q == host.question
           i == IF Known(q) THEN RoundOf(q) ELSE Len(rounds')
<1>1. /\ host.phase = "ask"
      /\ UNCHANGED <<daemon, server, host, late, forgets, judged>>
  BY DEF Ask, Waiting, TalkSound, Talk, CallSound
<1>2. host \in HostState /\ q \in Questions
  BY <1>1 DEF TalkSound, Talk, HostSound
<1>3. ASSUME Asked(q), Answer([host EXCEPT !.phase = "poll", !.round = i])
      PROVE  TalkSound'
  <2> DEFINE next == [host EXCEPT !.phase = "poll", !.round = i]
  <2>1. /\ TablesSound' /\ Grown(rounds, rounds') /\ rounds' # <<>>
        /\ i \in DOMAIN rounds' /\ i \in Nat /\ rounds'[i].question = q
    <3> HIDE DEF q
    <3> QED
      BY <1>2, <1>3, AskedFacts DEF TalkSound
  <2> HIDE DEF i
  <2>2. /\ next \in HostState /\ next.phase = "poll" /\ next.question = q /\ next.round = i
    BY <1>2, <2>1 DEF HostState
  <2> HIDE DEF next
  <2>3. HostSound(rounds', next)
    BY <1>2, <2>1, <2>2 DEF HostSound, RoundHeld
  <2>4. Answer(next)
    BY <1>3 DEF next
  <2> QED
    BY <1>1, <2>1, <2>2, <2>3, <2>4, AnswerStep
<1>4. ASSUME Refused(q), Answer([host EXCEPT !.phase = "adopt"]), UNCHANGED <<run, rounds>>
      PROVE  TalkSound'
  <2> DEFINE next == [host EXCEPT !.phase = "adopt"]
  <2>1. next \in HostState /\ next.phase = "adopt"
    BY <1>2 DEF HostState
  <2>2. rounds # <<>>
    BY <1>4 DEF Refused, TalkSound, TablesSound
  <2>3. Answer(next)
    BY <1>4
  <2> HIDE DEF next
  <2>4. HostSound(rounds', next)
    BY <1>4, <2>1, <2>2 DEF HostSound
  <2>5. TablesSound'
    BY <1>4 DEF TalkSound, TablesSound, AskedOnce
  <2> QED
    BY <1>1, <1>4, <2>1, <2>3, <2>4, <2>5, SameRounds, AnswerStep
<1> QED
  BY <1>3, <1>4 DEF Ask

(* What a poll answers: nothing new, a page to read, or the whole answer.  *)
LEMMA ShapedFacts ==
  ASSUME TalkSound, host.phase = "poll"
  PROVE  LET next == Shaped(rounds[host.round])
         IN  next \in HostState /\ HostSound(rounds, next)
<1> DEFINE r == rounds[host.round]
           d == Distill(r.answer, CapBytes)
           seen == [host EXCEPT !.met = r.verdict = "met"]
           next == Shaped(r)
<1>1. host \in HostState /\ HostSound(rounds, host) /\ RoundHeld(rounds, host)
  BY DEF TalkSound, Talk, HostSound
<1>2. r \in RoundRow /\ RoundsSound(rounds) /\ host.round \in DOMAIN rounds
  BY <1>1 DEF TalkSound, TablesSound, RoundHeld
<1>3. /\ Whole(r.answer) /\ r.answer \in Seq(Bytes) /\ r.output \in Seq(Bytes)
      /\ \/ r.raw = None /\ r.answer = <<>>
         \/ r.raw = Captured(r.output) /\ r.state = "complete"
  BY <1>2 DEF RoundsSound, RoundSound, RoundRow
<1>4. /\ d.truncated \in BOOLEAN
      /\ d.truncated => r.answer # <<>>
      /\ d.truncated <=> ~(Len(r.answer) <= CapBytes)
      /\ ~d.truncated => d.distilled = r.answer
  BY <1>3, OrchestratorAssumption, DistillFacts
<1> DEFINE met == r.verdict = "met"
<1> HIDE DEF r, d
<1>5. r = rounds[host.round] /\ d = Distill(r.answer, CapBytes)
  BY DEF r, d
<1>6. CASE ~Done(r)
  <2>1. ~d.truncated
    BY <1>3, <1>4, <1>6 DEF Done
  <2>2. next = host
    BY <1>5, <1>6, <2>1 DEF Shaped
  <2> QED
    BY <1>1, <1>5, <2>2
<1>7. CASE Done(r) /\ d.truncated
  <2>1. next = [seen EXCEPT !.phase = "read", !.cursor = 0, !.text = <<>>]
    BY <1>5, <1>7 DEF Shaped
  <2> HIDE DEF next
  <2>2. /\ next \in HostState /\ next.phase = "read" /\ next.round = host.round
        /\ next.question = host.question /\ next.cursor = 0 /\ next.text = <<>>
        /\ next.met = met
    <3>1. met \in BOOLEAN /\ <<>> \in Seq(Bytes) /\ 0 \in Nat
      BY EmptyIsWhole
    <3> HIDE DEF met
    <3>2. seen \in HostState /\ seen.met = met /\ seen.round = host.round
          /\ seen.question = host.question
      BY <1>1, <3>1 DEF HostState, met
    <3> HIDE DEF seen
    <3> QED
      BY <2>1, <3>1, <3>2 DEF HostState
  <2>3. r.raw = Captured(r.output)
    BY <1>3, <1>4, <1>7
  <2>4. r.raw \in Seq(Bytes) /\ Whole(r.raw)
    BY <1>3, <2>3, CapturedFacts
  <2>5. r.raw # None
    BY <2>4, RawOutputAssumption
  <2>6. ReadUpTo(r.raw, 0, <<>>)
    <3>1. Len(r.raw) \in Nat /\ Boundary(r.raw, 0)
      BY <2>4, StartIsBoundary
    <3>2. SubSeq(r.raw, 1, 0) = <<>>
      BY SubSeqEmpty
    <3> QED
      BY <3>1, <3>2 DEF ReadUpTo
  <2>7. RoundHeld(rounds, next) /\ rounds[next.round] = r
    BY <1>1, <1>5, <2>2 DEF RoundHeld
  <2>8. HostSound(rounds, next)
    BY <1>4, <1>7, <2>2, <2>5, <2>6, <2>7 DEF HostSound, Done
  <2> QED
    BY <1>5, <2>2, <2>8 DEF next
<1>8. CASE Done(r) /\ ~d.truncated
  <2>1. next = [seen EXCEPT !.phase = "reason", !.text = d.distilled]
    BY <1>5, <1>8 DEF Shaped
  <2>2. /\ next \in HostState /\ next.phase = "reason" /\ next.round = host.round
        /\ next.question = host.question /\ next.text = r.answer
        /\ next.met = (r.verdict = "met")
    BY <1>1, <1>3, <1>4, <1>8, <2>1 DEF HostState
  <2>3. RoundHeld(rounds, next) /\ rounds[next.round] = r
    BY <1>1, <1>5, <2>2 DEF RoundHeld
  <2> HIDE DEF next
  <2>4. HostSound(rounds, next)
    BY <1>4, <1>8, <2>2, <2>3 DEF HostSound, Done, JudgedOn
  <2> QED
    BY <1>5, <2>2, <2>4 DEF next
<1> QED
  BY <1>4, <1>6, <1>7, <1>8

LEMMA PollStep ==
  ASSUME TalkSound, Poll
  PROVE  TalkSound'
<1> DEFINE next == Shaped(rounds[host.round])
<1>1. /\ Answer(next) /\ host.phase = "poll"
      /\ UNCHANGED <<daemon, run, rounds, server, host, late, forgets, judged>>
  BY DEF Poll, Waiting, TalkSound, Talk, CallSound
<1>2. next \in HostState /\ HostSound(rounds, next)
  BY <1>1, ShapedFacts
<1> HIDE DEF next
<1>3. TablesSound'
  BY <1>1 DEF TalkSound, TablesSound, AskedOnce
<1> QED
  BY <1>1, <1>2, <1>3, SameRounds, AnswerStep

LEMMA StatusStep ==
  ASSUME TalkSound, Status
  PROVE  TalkSound'
<1> DEFINE latest == Len(rounds)
           next == IF host.question = 0
                   THEN [host EXCEPT !.phase = "poll", !.round = latest,
                                     !.question = rounds[latest].question]
                   ELSE [host EXCEPT !.phase = "ask"]
<1>1. /\ Answer(next) /\ host.phase = "adopt" /\ run' = "running"
      /\ UNCHANGED <<daemon, rounds, server, host, late, forgets, judged>>
  BY DEF Status, Waiting, TalkSound, Talk, CallSound
<1>2. host \in HostState /\ rounds # <<>> /\ rounds \in Seq(RoundRow)
  BY <1>1 DEF TalkSound, TablesSound, Talk, HostSound
<1>3. latest \in DOMAIN rounds /\ latest \in Nat /\ rounds[latest] \in RoundRow
  BY <1>2
<1>4. rounds[latest].question \in Questions
  BY <1>3 DEF RoundRow
<1> HIDE DEF latest
<1>5. next \in HostState
  BY <1>2, <1>3, <1>4 DEF HostState
<1>6. \/ /\ next.phase = "poll" /\ next.round = latest
         /\ next.question = rounds[latest].question
      \/ next.phase = "ask" /\ next.question \in Questions
  BY <1>2 DEF HostState
<1>7. Answer(next)
  BY <1>1
<1> HIDE DEF next
<1>8. HostSound(rounds, next)
  BY <1>3, <1>4, <1>6 DEF HostSound, RoundHeld
<1>9. TablesSound'
  BY <1>1, <1>2 DEF TalkSound, TablesSound, AskedOnce
<1> QED
  BY <1>1, <1>5, <1>7, <1>8, <1>9, SameRounds, AnswerStep

LEMMA GetRawStep ==
  ASSUME TalkSound, GetRaw
  PROVE  TalkSound'
<1> DEFINE r == rounds[host.round]
           page == ReadRaw(r.raw, host.cursor, call.maxBytes)
           next == [host EXCEPT !.text = @ \o page.chunk, !.cursor = page.nextCursor,
                                !.phase = IF page.eof THEN "reason" ELSE "read"]
<1>1. /\ Answer(next) /\ host.phase = "read" /\ call.maxBytes \in PageSizes
      /\ UNCHANGED <<daemon, run, rounds, server, host, late, forgets, judged>>
  BY DEF GetRaw, Waiting, TalkSound, Talk, CallSound
<1>2. /\ host \in HostState /\ RoundHeld(rounds, host)
      /\ r.state = "complete" /\ host.met = (r.verdict = "met")
      /\ r.raw # None /\ ~(Len(r.answer) <= CapBytes)
      /\ ReadUpTo(r.raw, host.cursor, host.text)
  BY <1>1 DEF TalkSound, Talk, HostSound
<1>3. r.output \in Seq(Bytes) /\ r.raw = Captured(r.output)
  <2>1. r \in RoundRow /\ RoundsSound(rounds) /\ host.round \in DOMAIN rounds
    BY <1>2 DEF TalkSound, TablesSound, RoundHeld
  <2> QED
    BY <1>2, <2>1 DEF RoundsSound, RoundSound, RoundRow
<1>4. /\ r.raw \in Seq(Bytes) /\ Whole(r.raw) /\ r.raw = KeptOf(r.output)
      /\ call.maxBytes \in Nat
  BY <1>1, <1>3, CapturedFacts, OrchestratorAssumption
<1> HIDE DEF r
<1>5. /\ ReadUpTo(r.raw, page.nextCursor, host.text \o page.chunk)
      /\ page.eof => host.text \o page.chunk = r.raw
  BY <1>2, <1>4, PageFacts
<1> DEFINE text == host.text \o page.chunk
<1> HIDE DEF page
<1>6. text \in Seq(Bytes) /\ page.nextCursor \in Nat
  <2>1. page.nextCursor \in 0..Len(r.raw) /\ text = SubSeq(r.raw, 0 + 1, page.nextCursor)
    BY <1>5 DEF ReadUpTo
  <2>2. 0 \in Nat /\ page.nextCursor \in Nat /\ 0 <= page.nextCursor
        /\ page.nextCursor <= Len(r.raw)
    BY <1>4, <2>1
  <2> HIDE DEF text
  <2> QED
    BY <1>4, <2>1, <2>2, SliceFacts
<1>7. next = [host EXCEPT !.text = text, !.cursor = page.nextCursor,
                          !.phase = IF page.eof THEN "reason" ELSE "read"]
  BY <1>2 DEF HostState
<1> HIDE DEF text, next
<1>8. /\ next \in HostState /\ next.text = text /\ next.cursor = page.nextCursor
      /\ next.round = host.round /\ next.question = host.question /\ next.met = host.met
      /\ next.phase = IF page.eof THEN "reason" ELSE "read"
  BY <1>2, <1>6, <1>7 DEF HostState
<1>9. RoundHeld(rounds, next) /\ rounds[next.round] = r
  BY <1>2, <1>8 DEF RoundHeld, r
<1>10. HostSound(rounds, next)
  BY <1>2, <1>4, <1>5, <1>8, <1>9 DEF HostSound, JudgedOn, text
<1>11. TablesSound'
  BY <1>1 DEF TalkSound, TablesSound, AskedOnce
<1> QED
  BY <1>1, <1>8, <1>10, <1>11, SameRounds, AnswerStep

(***************************************************************************)
(* The orchestrator's own steps.                                           *)
(***************************************************************************)
LEMMA ReturnsStep ==
  ASSUME TalkSound, Returns
  PROVE  TalkSound'
<1> DEFINE h == call.host
           verdict == [met |-> h.met, text |-> h.text]
<1>1. /\ host' = h /\ call' = None
      /\ UNCHANGED <<daemon, run, rounds, server, late, forgets>>
      /\ h \in HostState /\ HostSound(rounds, h)
      /\ judged' = IF h.phase = "reason" THEN [judged EXCEPT ![h.question] = verdict] ELSE judged
  BY DEF Returns, Waiting, TalkSound, Talk, CallSound
<1>2. h.phase = "reason" => RoundHeld(rounds, h) /\ JudgedOn(rounds[h.round], verdict)
  BY <1>1 DEF HostSound
<1>3. verdict \in [met : BOOLEAN, text : Seq(Bytes)]
  BY <1>1 DEF HostState
<1> HIDE DEF h, verdict
<1>4. judged' \in [Questions -> [met : BOOLEAN, text : Seq(Bytes)] \cup {None}]
  BY <1>1, <1>3 DEF TalkSound, Talk
<1>5. JudgedSound(rounds, judged')
  <2> SUFFICES ASSUME NEW q \in Questions, judged'[q] # None
               PROVE  \E i \in DOMAIN rounds :
                         rounds[i].question = q /\ JudgedOn(rounds[i], judged'[q])
    BY DEF JudgedSound
  <2>1. CASE h.phase = "reason" /\ h.question = q
    <3>1. judged'[q] = verdict
      BY <1>1, <2>1 DEF TalkSound, Talk
    <3> QED
      BY <1>2, <2>1, <3>1 DEF RoundHeld
  <2>2. CASE ~(h.phase = "reason" /\ h.question = q)
    <3>1. judged'[q] = judged[q]
      BY <1>1, <2>2 DEF TalkSound, Talk
    <3> QED
      BY <3>1 DEF TalkSound, Talk, JudgedSound
  <2> QED
    BY <2>1, <2>2
<1>6. CallSound(rounds, host', call')
  BY <1>1 DEF CallSound
<1>7. Talk'
  BY <1>1, <1>4, <1>5, <1>6 DEF Talk
<1>8. TablesSound'
  BY <1>1 DEF TalkSound, TablesSound, AskedOnce
<1> QED
  BY <1>1, <1>7, <1>8 DEF TalkSound, Surroundings

LEMMA OwnStep ==
  ASSUME TalkSound, (\E q \in Questions : AskNext(q)) \/ Finalize \/ Forget
  PROVE  TalkSound'
<1>1. /\ UNCHANGED <<daemon, run, rounds, late, judged>>
      /\ server' \in {0, server} /\ forgets' \in 0..MaxForgets
  <2>1. forgets \in 0..MaxForgets /\ MaxForgets \in Nat
    BY OrchestratorAssumption DEF TalkSound, Surroundings
  <2>2. CASE (\E q \in Questions : AskNext(q)) \/ Finalize
    BY <2>1, <2>2 DEF AskNext, Finalize
  <2>3. CASE Forget
    BY <2>1, <2>3 DEF Forget
  <2> QED
    BY <2>2, <2>3
<1>2. Anchoring \in HostState
  BY EmptyIsWhole DEF Anchoring, HostState
<1>3. host' \in HostState /\ HostSound(rounds, host') /\ CallSound(rounds, host', call')
  <2>1. ASSUME NEW q \in Questions, AskNext(q)
        PROVE  host' \in HostState /\ HostSound(rounds, host') /\ CallSound(rounds, host', call')
    <3>1. host'.phase = "ask" /\ host'.question = q /\ host' \in HostState
      BY <1>2, <2>1 DEF AskNext, HostState, Anchoring
    <3>2. call' = None
      BY <2>1 DEF AskNext, TalkSound, Talk, CallSound
    <3> QED
      BY <3>1, <3>2 DEF HostSound, CallSound
  <2>2. CASE Finalize
    <3>1. host'.phase = "end" /\ host' \in HostState
      BY <1>2, <2>2 DEF Finalize, HostState, Anchoring
    <3>2. call' = None
      BY <2>2 DEF Finalize, TalkSound, Talk, CallSound
    <3> QED
      BY <3>1, <3>2 DEF HostSound, CallSound
  <2>3. CASE Forget
    BY <1>2, <2>3 DEF Forget, Anchoring, HostSound, CallSound
  <2> QED
    BY <2>1, <2>2, <2>3
<1>4. Talk'
  BY <1>1, <1>3 DEF TalkSound, Talk
<1>5. TablesSound'
  BY <1>1 DEF TalkSound, TablesSound, AskedOnce
<1>6. Surroundings'
  BY <1>1, OrchestratorAssumption DEF TalkSound, Surroundings
<1> QED
  BY <1>4, <1>5, <1>6 DEF TalkSound

(***************************************************************************)
(* The theorems.                                                           *)
(***************************************************************************)
LEMMA TalkInit == Init => TalkSound
<1> SUFFICES ASSUME Init PROVE TalkSound
  OBVIOUS
<1>1. Surroundings
  BY OrchestratorAssumption DEF Init, Surroundings
<1>2. TablesSound
  <2>1. rounds = <<>> /\ run = "none"
    BY DEF Init
  <2>2. rounds \in Seq(RoundRow) /\ DOMAIN rounds = {}
    BY <2>1
  <2> QED
    BY <2>1, <2>2 DEF TablesSound, RoundsSound, AskedOnce
<1>3. Talk
  <2>1. host = Anchoring /\ call = None /\ judged = [q \in Questions |-> None]
    BY DEF Init
  <2>2. host \in HostState /\ host.phase = "anchor"
    BY <2>1, EmptyIsWhole DEF Anchoring, HostState
  <2> QED
    BY <2>1, <2>2 DEF Talk, HostSound, CallSound, JudgedSound
<1> QED
  BY <1>1, <1>2, <1>3 DEF TalkSound

LEMMA TalkStep == TalkSound /\ [Next]_vars => TalkSound'
<1> SUFFICES ASSUME TalkSound, [Next]_vars PROVE TalkSound'
  OBVIOUS
<1>1. CASE \/ \E i \in DOMAIN rounds : RoundCompletes(i)
           \/ Park \/ Crash \/ Restart
           \/ \E q \in Questions : LateAsk(q)
           \/ StartServer
  BY <1>1, DaemonStep
<1>2. CASE Calls \/ Fails \/ GiveUp \/ ReplaceServer
  BY <1>2, CallStep
<1>3. CASE Tools
  BY <1>3, ListRunsStep, AskStep, PollStep, StatusStep, GetRawStep DEF Tools
<1>4. CASE Returns
  BY <1>4, ReturnsStep
<1>5. CASE (\E q \in Questions : AskNext(q)) \/ Finalize \/ Forget
  BY <1>5, OwnStep
<1>6. CASE UNCHANGED vars
  <2>1. UNCHANGED <<daemon, run, rounds, server, host, call, late, forgets, judged>>
    BY <1>6 DEF vars
  <2>2. TablesSound'
    BY <2>1 DEF TalkSound, TablesSound, AskedOnce
  <2>3. Surroundings' /\ Talk'
    BY <2>1 DEF TalkSound, Surroundings, Talk
  <2> QED
    BY <2>2, <2>3 DEF TalkSound
<1> QED
  BY <1>1, <1>2, <1>3, <1>4, <1>5, <1>6 DEF Next

LEMMA TalkInvariant == UnaidedSpec => []TalkSound
BY TalkInit, TalkStep, PTL DEF UnaidedSpec

(* Each question is put to the panel once, whatever is repeated, answered  *)
(* late, parked, crashed or forgotten; and the types hold. Nothing of it   *)
(* rests on somebody restarting the MCP server.                            *)
THEOREM QuestionsAreAskedOnce == UnaidedSpec => []OrchestratorInv
<1>1. TalkSound => OrchestratorInv
  BY DEF TalkSound, Surroundings, TablesSound, Talk, OrchestratorInv, TypeOK
<1> QED
  BY TalkInvariant, <1>1, PTL

(* What is distilled of an answer is a tail of it, of whole characters and *)
(* within the cap, flagged when something is missing.                      *)
THEOREM DistillIsHonest == UnaidedSpec => []DistillHonest
<1>1. TalkSound => DistillHonest
  <2> SUFFICES ASSUME TalkSound, NEW i \in DOMAIN rounds
               PROVE  DistilledFrom(rounds[i].answer, Distill(rounds[i].answer, CapBytes), CapBytes)
    BY DEF DistillHonest, DistilledFrom
  <2>1. rounds[i].answer \in Seq(Bytes) /\ Whole(rounds[i].answer)
    <3>1. rounds[i] \in RoundRow
      BY DEF TalkSound, TablesSound
    <3> QED
      BY <3>1 DEF TalkSound, TablesSound, RoundsSound, RoundSound, RoundRow
  <2> QED
    BY <2>1, OrchestratorAssumption, DistillFacts
<1> QED
  BY TalkInvariant, <1>1, PTL

(* A question is judged on the verdict and on the whole answer of its      *)
(* round, or, where that is truncated, on all the member printed to both   *)
(* streams, as far as the capture goes: on no less, however pages and      *)
(* restarts follow each other, and however the streams are mixed.          *)
THEOREM KeptTextIsJudged == UnaidedSpec => []KeptTextJudged
<1>1. TalkSound => KeptTextJudged
  <2> SUFFICES ASSUME TalkSound, NEW q \in Questions, judged[q] # None
               PROVE  Known(q) /\ JudgedOn(rounds[RoundOf(q)], judged[q])
    BY DEF KeptTextJudged
  <2>1. PICK i \in DOMAIN rounds : rounds[i].question = q /\ JudgedOn(rounds[i], judged[q])
    BY DEF TalkSound, Talk, JudgedSound
  <2>2. RoundOf(q) \in DOMAIN rounds /\ rounds[RoundOf(q)].question = q
    BY <2>1 DEF RoundOf
  <2>3. RoundOf(q) = i
    BY <2>1, <2>2 DEF TalkSound, TablesSound, AskedOnce
  <2> QED
    BY <2>1, <2>3 DEF Known
<1> QED
  BY TalkInvariant, <1>1, PTL
=============================================================================
