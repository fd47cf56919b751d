--------------------------- MODULE MCRegistrySync ---------------------------
(* RegistrySync for TLC: a device and an entity that have two areas to go to. *)
EXTENDS RegistrySync

CONSTANTS f1, a1, a2, d1, e1

MCFloors == {f1}

MCAreas == {a1, a2}

MCDevices == {d1}

MCEntities == {e1}

AreasAlike == Permutations(MCAreas)

\* Bound: the floor is there at first, and every area is on it.
MCInit ==
    /\ RegistryInit
    /\ f1 \in exists
    /\ \A a \in MCAreas \cap exists : parents[a] = MCFloors

MCSpec == MCInit /\ [][RegistryNext]_registryVars
=============================================================================
