---------------------------- MODULE MCRecipeChain ---------------------------
(* One arm and one confirm, or two loads: see README, section 3. *)
EXTENDS RecipeChain
=============================================================================
