--------------------------- MODULE MCCellBroadcast ---------------------------
(* Three cells in a row, of which the first and the last are two steps      *)
(* apart: whoever goes from one to the next gains or loses a neighbour.     *)
EXTENDS CellBroadcast

Row == {<<0, 0>>, <<1, 0>>, <<2, -1>>}
=============================================================================
