--------------------------- MODULE MCRecipeStore ----------------------------
(* Two names, one of them in YAML: see README, section 3.                   *)
EXTENDS RecipeStore
=============================================================================
