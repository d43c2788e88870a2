----------------------------- MODULE MCBrewPlan -----------------------------
(***************************************************************************)
(* Small recipes: the ones that differ in their volumes, and the ones that *)
(* differ in everything the account numbers in its own way.                *)
(***************************************************************************)
EXTENDS BrewPlan

VolumePour(v) == [volume |-> v, flow |-> 3, temperature |-> 93, pattern |-> 2, vibration |-> "none"]

Volumes == UNION {[1 .. n -> {0, 1, 10}] : n \in 0 .. 2} \cup [1 .. 3 -> {1, 4, 10}]

VolumeRecipes ==
    [dose : {0, 3}, ratio : {0, 9}, grind : {5}, bypass : {0, 1}, cup : {"omni_dripper", "tea"},
     pours : {[i \in DOMAIN vs |-> VolumePour(vs[i])] : vs \in Volumes}]

StylePours ==
    [volume : {20}, flow : {3}, temperature : {93}, pattern : Patterns, vibration : Vibrations]
        \cup [volume : {0, 30}, flow : {0, 3}, temperature : {93}, pattern : {1}, vibration : {"after"}]

StyleRecipes ==
    [dose : {0, 3}, ratio : {0}, grind : {0}, bypass : {0, 1}, cup : Cups, pours : {<<p>> : p \in StylePours}]

MCRecipes == VolumeRecipes \cup StyleRecipes
=============================================================================
