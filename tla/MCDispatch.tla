----------------------------- MODULE MCDispatch -----------------------------
(* Two rounds over two adapters: the first uses one adapter twice.         *)
EXTENDS Dispatch

CONSTANTS r1, r2

TwoPanels == [r \in Rounds |-> IF r = r1 THEN <<"x1", "x2", "y1">> ELSE <<"y2", "x3", "z1">>]

TwoAdapters ==
  [t \in {"x1", "x2", "x3", "y1", "y2", "z1"} |->
     IF t \in {"x1", "x2", "x3"} THEN "x" ELSE IF t = "z1" THEN "z" ELSE "y"]

NarrowFirst == [r \in Rounds |-> IF r = r1 THEN 1 ELSE 2]
=============================================================================
