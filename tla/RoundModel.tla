----------------------------- MODULE RoundModel -----------------------------
(***************************************************************************)
(* The vocabulary of packages/engine/src/model.ts shared by every module   *)
(* about rounds: the statuses of an invocation, which of them are terminal, *)
(* and the quorum verdict.                                                 *)
(***************************************************************************)
EXTENDS Integers, FiniteSets

SettledStatus ==
  {"ok", "refusal", "timeout", "error", "unavailable", "cancelled"}

InvocationStatus == SettledStatus \cup {"pending", "running", "interrupted"}

Terminal == SettledStatus \cup {"interrupted"}

QuorumVerdict == {"met", "degraded", "failed"}

(* Only transient failures are worth another attempt. *)
Retriable == {"timeout", "error"}

(* The members whose answer counts towards the quorum; status maps members  *)
(* to statuses.                                                            *)
OkMembers(status) == {m \in DOMAIN status : status[m] = "ok"}

ComputeVerdict(status, quorum) ==
  LET okCount == Cardinality(OkMembers(status))
  IN  IF okCount >= quorum THEN "met"
      ELSE IF okCount > 0 THEN "degraded"
      ELSE "failed"
=============================================================================
