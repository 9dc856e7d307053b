---------------------------- MODULE MCLibraries ----------------------------
(* Two labels, three blocks of which one is empty, numbers one of which     *)
(* differs from another by 2^Width.                                         *)
EXTENDS Libraries

MCBlock == {ra_mB_create(0, 2), ra_mB_create(3, 1), ra_mB_create_empty}
MCMemory == [a \in 0..4 |-> 10 + a]
=============================================================================
