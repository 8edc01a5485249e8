-------------------------- MODULE MCBaseCollection --------------------------
(* The collector over two sources and a chain of three blocks.             *)
EXTENDS BaseCollection, TLC

CONSTANTS Abandoned

OneHonest == {2}
AllHonest == {1, 2}
Others == {Abandoned}
=============================================================================
