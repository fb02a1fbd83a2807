------------------------------ MODULE MCPacket ------------------------------
(* Values of every width, and strings that can be mistaken for them. *)
EXTENDS Packet

SmallValues ==
    { [type |-> "u16", bytes |-> <<2, 1>>],
      [type |-> "float", bytes |-> <<1, 0, 5, 6>>],
      [type |-> "string", bytes |-> <<4, 0, 9>>] }
=============================================================================
