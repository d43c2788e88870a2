---------------------------- MODULE MCEasySlots -----------------------------
(* Two recipes and three slot writes: see README, section 3. *)
EXTENDS EasySlots, TLC

WriterSymmetry == Permutations(Writers)
=============================================================================
