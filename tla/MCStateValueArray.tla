-------------------------- MODULE MCStateValueArray --------------------------
(* Subtargets for checking StateValueArray: gfx908, gfx90a and gfx940,       *)
(* which have every kind of storage; EXEC masks with each lane on and off.   *)
EXTENDS StateValueArray

gfx908 == [gfx90a |-> FALSE, architected |-> FALSE, agprs |-> TRUE]
gfx90a == [gfx90a |-> TRUE, architected |-> FALSE, agprs |-> TRUE]
gfx940 == [gfx90a |-> TRUE, architected |-> TRUE, agprs |-> TRUE]
MCSubtargets == {gfx908, gfx90a, gfx940}

MCMasks == {Lanes, {"data", "spillFs", "storeSp"}}
=============================================================================
