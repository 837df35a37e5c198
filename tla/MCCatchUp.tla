------------------------------ MODULE MCCatchUp ------------------------------
(***************************************************************************)
(* Instances of CatchUp for TLC: six events in six blocks, two of them in  *)
(* one block; events 3, 4 and 6 are batches.                               *)
(***************************************************************************)
EXTENDS CatchUp

SmallBlocks  == <<1, 2, 3, 4, 4, 6>>
OwnTx        == <<1, 2, 3, 4, 5, 6>>
AzimuthOfLog == {1, 2, 5}
Starts       == [c \in {"azimuth", "naive"} |-> IF c = "azimuth" THEN 1 ELSE 3]
=============================================================================
