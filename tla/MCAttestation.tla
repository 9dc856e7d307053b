--------------------------- MODULE MCAttestation ---------------------------
(* Instances of Attestation: one application with one or two attestators.  *)
EXTENDS Attestation, TLC

CONSTANTS app, a1, a2, x, y

MC_application_id == [att \in Attestator |-> app]

(* Every area is attested at startup by every attestator. *)
MC_startup_area == [att \in Attestator |-> Area]

Datum(att, label) == [attestator_id |-> att, memory_area |-> label]

(* The prepared data left by the deployment. *)
MC_InitialData_a1a2 == <<Datum(a1, x), Datum(a2, x)>>
MC_InitialData_x    == <<Datum(a1, x)>>
MC_InitialData_none == << >>
MC_InitialData_xx   == <<Datum(a1, x), Datum(a1, x)>>
MC_InitialData_xxx  == <<Datum(a1, x), Datum(a1, x), Datum(a2, x)>>

ManagerSymmetry == Permutations(Managers)
=============================================================================
