---------------------------- MODULE CellLifetime ----------------------------
(***************************************************************************)
(* What the map promises of the life of its cells, without saying how the  *)
(* map and its cluster keep the promise: a cell is created with its idle   *)
(* time at zero, a keeper nearby sets that back to zero, a cell that has   *)
(* been idle for the whole stall time may be condemned, and a condemned    *)
(* cell can only be freed.  It is never reached by a keeper again.         *)
(***************************************************************************)
EXTENDS Integers

CONSTANTS Offsets, StallTime, MaxElapsed

VARIABLES life,  \* what has become of the cell at an offset
          idle   \* how long it has been out of reach of the keepers

lifeVars == <<life, idle>>

Cells(state) == {o \in Offsets : life[o] = state}

LifeInit ==
    /\ life = [o \in Offsets |-> "absent"]
    /\ idle = [o \in Offsets |-> 0]

CreateCells(S) ==
    /\ S \subseteq Cells("absent")
    /\ life' = [o \in Offsets |-> IF o \in S THEN "live" ELSE life[o]]
    /\ UNCHANGED idle

LetTimePass(d) ==
    /\ idle' = [o \in Offsets |->
                   IF life[o] = "absent" THEN 0
                   ELSE IF idle[o] + d > StallTime THEN StallTime ELSE idle[o] + d]
    /\ UNCHANGED life

KeepCells(S) ==
    /\ S \subseteq Cells("live")
    /\ idle' = [o \in Offsets |-> IF o \in S THEN 0 ELSE idle[o]]
    /\ UNCHANGED life

Condemn(o) ==
    /\ life[o] = "live" /\ idle[o] = StallTime
    /\ life' = [life EXCEPT ![o] = "condemned"]
    /\ UNCHANGED idle

Free(o) ==
    /\ life[o] = "condemned"
    /\ life' = [life EXCEPT ![o] = "absent"]
    /\ idle' = [idle EXCEPT ![o] = 0]

LifeNext ==
    \/ \E S \in SUBSET Offsets : CreateCells(S) \/ KeepCells(S)
    \/ \E d \in 0..MaxElapsed : LetTimePass(d)
    \/ \E o \in Offsets : Condemn(o) \/ Free(o)

LifeSpec == LifeInit /\ [][LifeNext]_lifeVars
=============================================================================
