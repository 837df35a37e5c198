------------------------------ MODULE MCCommands ------------------------------
(***************************************************************************)
(* Instances of Commands for TLC: five events in six blocks, the last two  *)
(* in one block; 3 and 5 are batches, and Naive starts with block 3.       *)
(***************************************************************************)
EXTENDS Commands

SmallBlocks  == <<1, 2, 3, 5, 5>>
OwnTx        == <<1, 2, 3, 4, 5>>
OneWrite     == <<1, 1, 1, 1, 1>>
AzimuthOfLog == {1, 2, 4}
Starts       == [c \in {"azimuth", "naive"} |-> IF c = "azimuth" THEN 1 ELSE 3]
=============================================================================
