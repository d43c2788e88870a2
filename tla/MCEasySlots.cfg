CONSTANTS
    Recipes = {r1, r2}
    Writers = {w1, w2, w3}
    Overlap = FALSE
    MaxDrops = 1
SPECIFICATION Spec
INVARIANTS SlotsAgree NoTeaInSlots
SYMMETRY WriterSymmetry
CHECK_DEADLOCK FALSE
