----------------------------- MODULE MCUnitSync -----------------------------
(* Two settings, three changes, two links: see README, section 3. *)
EXTENDS UnitSync

MCRank == [k \in Keys |-> IF k = "weight" THEN 0 ELSE 1]
=============================================================================
