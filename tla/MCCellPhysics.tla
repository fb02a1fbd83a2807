---------------------------- MODULE MCCellPhysics ----------------------------
(* A long thin body, a square on its edge and two circles, one of which is  *)
(* in a sibling cell; the cell is not at the origin, and what was never     *)
(* computed is upside down.                                                 *)
EXTENDS CellPhysics

CONSTANTS pole, tile, disc, ball

Shapes == [e \in {pole, tile, disc, ball} |->
              CASE e = pole -> << <<-3, 0>>, <<3, 0>>, <<3, 1>>, <<-3, 1>> >>
                [] e = tile -> << <<0, -2>>, <<2, 0>>, <<0, 2>>, <<-2, 0>> >>
                [] e = disc -> [center |-> <<1, 0, 0>>, radius |-> 2]
                [] e = ball -> [center |-> <<0, 1, 1>>, radius |-> 1]]
SomePlaces == {<<9, 9>>, <<5, 6>>, <<13, 15>>, <<11, 5>>}
Middle8 == <<8, 8>>
SomeJunk == {<<40, 3, -1, 7>>}
SomeRays == { << <<1, 7>>, <<12, 9>> >>, << <<-4, 2>>, <<20, 14>> >>,
              << <<20, 20>>, <<9, 9>> >>, << <<8, -2>>, <<10, 9>> >> }
=============================================================================
