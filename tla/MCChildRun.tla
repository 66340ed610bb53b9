----------------------------- MODULE MCChildRun -----------------------------
(* Instances of ChildRun for TLC.                                          *)
EXTENDS ChildRun, TLC

Names == {"wall_seconds"}
Wall(n) == [x \in Names |-> n]
LowestWall == Wall(1)
OperatorWall == Wall(2)
Walls == {Wall(n) : n \in 1..3}
=============================================================================
