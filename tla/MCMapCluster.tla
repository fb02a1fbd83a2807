---------------------------- MODULE MCMapCluster ----------------------------
(* Pieces of the hexagonal grid on which MapCluster is model-checked. *)
EXTENDS MapCluster

Hex == INSTANCE HexOffset

(* Three cells in a row. *)
Row == {<<0, 0>>, <<1, 0>>, <<2, 0>>}

NeighboursIn(region) == [o \in region |-> Hex!Siblings(o) \cap region]

RowNeighbours == NeighboursIn(Row)
=============================================================================
