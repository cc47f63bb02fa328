--------------------------- MODULE MCFillRounding ----------------------------
(* Orders of up to six units at prices up to two and a half coins.         *)
EXTENDS FillRounding

MCPrices == 1 .. 25
MCUnits  == {1, 10, 100}
MCTotals == 1 .. 6
MCRatios == {0, 1, 30, 2500, 4999}
=============================================================================
