------------------------------ MODULE MCMotion ------------------------------
(* Curves that turn back, stand still and overshoot; a centre, a border and *)
(* a corner.                                                                *)
EXTENDS Motion

SomeCurves == {<<0, 4, -3, 1>>, <<2, 2, 2, 2>>, <<0, 5, 5, 0>>}

SomeSites == {<<0, 0>>, <<-2, 5>>, <<5, -5>>}
=============================================================================
