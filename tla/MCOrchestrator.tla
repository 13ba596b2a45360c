--------------------------- MODULE MCOrchestrator ---------------------------
(***************************************************************************)
(* Two questions. The first has a text of each kind that differs in where  *)
(* a cut after its first byte falls: in a character, before, in or after a *)
(* line break; the second has one that is short. The stderr is enough to   *)
(* push the end of an answer out of the capture, or a part of a character. *)
(***************************************************************************)
EXTENDS Orchestrator

Short == {<<>>, <<"lead2", "cont">>}

Lines == {<<"ascii">> \o <<b, c>> : b, c \in {"ascii", "newline"}}

Wide == {<<"lead3", "cont", "cont">>, <<"lead2", "cont", "newline">>,
         <<"ascii", "lead2", "cont">>, <<"newline", "lead2", "cont">>}

TwoQuestions == << Short \cup Lines \cup Wide, {<<"ascii">>} >>

NoisyFirst == << {<<>>, <<"ascii", "ascii">>}, {<<>>} >>

OneQuestion == << {<<"ascii">>} >>

Silence == << {<<>>} >>
=============================================================================
