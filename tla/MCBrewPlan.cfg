CONSTANTS
    Recipes <- MCRecipes
    Doses = {1, 6}
    Ratios = {5}
    Bypasses = {0, 2}
    Slider = 7
    MaxTrips = 2
SPECIFICATION Spec
INVARIANTS WaterAddsUp TeaGated
PROPERTY RoundTrip
CHECK_DEADLOCK FALSE
