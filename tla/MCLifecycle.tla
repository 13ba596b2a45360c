---------------------------- MODULE MCLifecycle ----------------------------
(* Clients with one config, or with one of them using another.             *)
EXTENDS Lifecycle

CONSTANTS c1

OneConfig == [c \in Clients |-> "config.json"]

TwoConfigs == [c \in Clients |-> IF c = c1 THEN "other.json" ELSE "config.json"]
=============================================================================
