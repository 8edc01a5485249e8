--------------------------- MODULE MCBaseReaders ---------------------------
(* Two honest sources and a chain of three blocks.                         *)
EXTENDS BaseReaders, TLC

CONSTANTS Abandoned

AllHonest == {1, 2}
Others == {Abandoned}
=============================================================================
