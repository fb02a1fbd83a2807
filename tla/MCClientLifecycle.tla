-------------------------- MODULE MCClientLifecycle --------------------------
(* Two neighbouring cells, so that a client can be closed while it moves.     *)
EXTENDS ClientLifecycle

Pair == {<<0, 0>>, <<1, 0>>}
PairNeighbours == [o \in Pair |-> Pair \ {o}]
=============================================================================
