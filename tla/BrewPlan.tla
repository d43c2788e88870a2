------------------------------ MODULE BrewPlan ------------------------------
(***************************************************************************)
(* From a stored recipe to what the machine brews, and to the xBloom       *)
(* account and back.                                                       *)
(*                                                                         *)
(* _prepare_recipe_execution (coordinator/recipes.py) applies the          *)
(* overrides of a call to a copy of the recipe: a new dose or ratio        *)
(* rescales the pours (schema.py), then the recipe is built, and single    *)
(* pours are overridden.  The cloud client's two conversions are used by   *)
(* export, import and seed.  Volumes are in ml, a ratio in halves, so that *)
(* dose * ratio is in half ml; 0 stands for a ratio that is not set.       *)
(* Floats matter in one place: a pour scaled to exactly half a ml is       *)
(* rounded either way.                                                     *)
(***************************************************************************)
EXTENDS Integers, Sequences, SequencesExt

CONSTANTS
    Recipes,      \* recipes of the local store
    Doses,        \* dose_g overrides
    Ratios,       \* ratio overrides, in halves
    Bypasses,     \* bypass_volume overrides
    Slider,       \* the grind-size number entity
    MaxTrips      \* bound: imports

Patterns == 0 .. 2                        \* center, circular, spiral
Vibrations == {"none", "before", "after", "both"}
Versions == {"old", "new", "unknown"}     \* "old": a build before the first that knows tea

(* cup_type is any string: a name, one in capitals, one with a space after *)
(* it, and one that is none of the names.                                  *)
Cups == {"x_pod", "omni_dripper", "other", "tea", "TEA", "tea ", "mug"}
Lower(cup) == IF cup = "TEA" THEN "tea" ELSE cup
Strip(cup) == IF cup = "tea " THEN "tea" ELSE cup
Keep == -1                                \* no override
PourVolume == 7                           \* the volume a pour override gives
Heat == 80                                \* the temperature_c override

IsPour(p) ==
    /\ p.volume \in Nat /\ p.flow \in Nat /\ p.temperature \in Nat \ {0}
    /\ p.pattern \in Patterns /\ p.vibration \in Vibrations

IsRecipe(r) ==
    /\ r.dose \in Nat /\ r.ratio \in Nat /\ r.grind \in Nat /\ r.bypass \in Nat
    /\ r.cup \in Cups
    /\ \A i \in DOMAIN r.pours : IsPour(r.pours[i])

ASSUME BrewPlanAssumption ==
    /\ \A r \in Recipes : IsRecipe(r)
    /\ Doses \subseteq Nat /\ Ratios \subseteq Nat /\ Bypasses \subseteq Nat
    /\ Slider \in Nat \ {0} /\ MaxTrips \in Nat

VARIABLES
    version,    \* the machine's firmware as the client knows it: not, before MachineInfo
    water,      \* the tank has water, or the machine is on a hose
    recipe,     \* the recipe in the local store
    cloud,      \* its copy on the account, as sent
    plan,       \* what the last call prepared, and the overrides it had
    trips       \* imports so far

vars == <<version, water, recipe, cloud, plan, trips>>

NoCopy == [name |-> "none"]
NoPlan == [name |-> "none"]

Sum(pours) == FoldSeq(LAMBDA p, total : p.volume + total, 0, pours)

(***************************************************************************)
(* Pours.                                                                  *)
(***************************************************************************)

(* round(p / q): the nearest integer, and at a half the upper one or not.  *)
Round(p, q, up) ==
    LET rest == p % q IN p \div q + IF 2 * rest > q \/ (2 * rest = q /\ up) THEN 1 ELSE 0

(* Python rounds an exact half to the even neighbour.                      *)
RoundHalves(h) == Round(h, 2, (h \div 2) % 2 = 1)

AtLeastOne(n) == IF n < 1 THEN 1 ELSE n

\* Variant: each pour is rounded by itself, and nothing absorbs the rest.
ScaleEach(pours, half, up) ==
    IF pours = << >> \/ Sum(pours) = 0 \/ half <= 0 THEN pours
    ELSE [i \in DOMAIN pours |-> [pours[i] EXCEPT
             !.volume = AtLeastOne(Round(pours[i].volume * half, 2 * Sum(pours), TRUE))]]

(* The pours scaled to half/2 ml: each is rounded to a ml, the last takes  *)
(* what is left, and none gets less than one.                              *)
Scale(pours, half, up) ==
    IF pours = << >> \/ Sum(pours) = 0 \/ half <= 0 THEN pours
    ELSE LET first == [i \in 1 .. (Len(pours) - 1) |-> [pours[i] EXCEPT
                          !.volume = AtLeastOne(Round(pours[i].volume * half, 2 * Sum(pours), up[i]))]]
         IN  Append(first, [Last(pours) EXCEPT !.volume = AtLeastOne(RoundHalves(half) - Sum(first))])

(* Total water in half ml: dose * ratio, or the pours for want of either.  *)
TotalHalves(r) == IF r.dose > 0 /\ r.ratio > 0 THEN r.dose * r.ratio ELSE 2 * Sum(r.pours)

(* The cloud's rule: the pours and the bypass make up the declared water.  *)
Consistent(r) ==
    r.dose > 0 /\ r.ratio > 0 => 2 * (Sum(r.pours) + r.bypass) - r.dose * r.ratio \in -2 .. 2

(***************************************************************************)
(* Preparing a brew.                                                       *)
(***************************************************************************)
Chosen(override, stored) == IF override = Keep THEN stored ELSE override

(* The recipe with the overrides of its own fields.                        *)
Overridden(r, o) ==
    [r EXCEPT !.dose = Chosen(o.dose, @), !.ratio = Chosen(o.ratio, @), !.cup = IF o.cup = "keep" THEN @ ELSE o.cup]

Rescales(r, o) == (o.dose # Keep \/ o.ratio # Keep) /\ r.dose > 0 /\ r.ratio > 0

(* The recipe as it is built, and so as it is brewed.                      *)
IsTea(r) == Lower(Strip(r.cup)) = "tea"

(* A version that is not known, or not understood, is new enough.          *)
FirmwareAtLeast == version # "old"

\* Variant: the firmware gate looks at the stored recipe only.
GateStored(r, o) == Lower(r.cup) = "tea" => FirmwareAtLeast

(* The gate reads the cup with the override of the call, but not as it is  *)
(* built: a space after the name gets past it.                             *)
Gate(r, o) == Lower(Overridden(r, o).cup) = "tea" => FirmwareAtLeast

(* A temperature is for every pour, a volume for the pour it names; an     *)
(* index the recipe does not have is skipped.                              *)
PourOverridden(pours, o) ==
    [i \in DOMAIN pours |-> [pours[i] EXCEPT !.temperature = Chosen(o.heat, @),
                                             !.volume = IF i = o.pour THEN PourVolume ELSE @]]

Prepared(r, o, up) ==
    LET raw == Overridden(r, o)
        bypass == Chosen(o.bypass, r.bypass)
        pours == IF Rescales(raw, o) THEN Scale(raw.pours, raw.dose * raw.ratio - 2 * bypass, up) ELSE raw.pours
    IN  [name |-> "plan", tea |-> IsTea(raw), cup |-> raw.cup, dose |-> raw.dose, ratio |-> raw.ratio,
         water |-> RoundHalves(TotalHalves([raw EXCEPT !.pours = pours])),
         grind |-> IF ~IsTea(raw) /\ raw.grind > 0 THEN Slider ELSE raw.grind,
         bypass |-> IF IsTea(raw) THEN 0 ELSE bypass,
         pours |-> PourOverridden(pours, o), from |-> raw.pours, with |-> o]

Overrides ==
    [dose : Doses \cup {Keep}, ratio : Ratios \cup {Keep}, bypass : Bypasses \cup {Keep},
     cup : {"keep", "tea", "other"}, heat : {Heat, Keep}, pour : {0, 2}]

(* A call of the execute or the arm path; without water, or when the gate  *)
(* finds the firmware too old, it ends before anything is sent.            *)
Execute(o) ==
    /\ water /\ Gate(recipe, o)
    /\ \E up \in [1 .. Len(recipe.pours) - 1 -> BOOLEAN] : plan' = Prepared(recipe, o, up)
    /\ UNCHANGED <<version, water, recipe, cloud, trips>>

(***************************************************************************)
(* The account.                                                            *)
(***************************************************************************)

\* Variant: the two numberings of the patterns are taken for the same.
PatternShifted(pattern) == pattern + 1

LocalPatternToCloud(pattern) == CASE pattern = 0 -> 1 [] pattern = 1 -> 3 [] pattern = 2 -> 2
CloudPatternToLocal(pattern) == CASE pattern = 1 -> "center" [] pattern = 2 -> "spiral" [] pattern = 3 -> "circular"
PatternNameToInt(name) == CASE name = "center" -> 0 [] name = "circular" -> 1 [] name = "spiral" -> 2

OnOff(on) == IF on THEN 1 ELSE 2
LocalVibrationToCloud(v) == <<OnOff(v \in {"before", "both"}), OnOff(v \in {"after", "both"})>>
CloudVibrationToLocal(v) ==
    CASE v = <<1, 1>> -> "both" [] v = <<1, 2>> -> "before" [] v = <<2, 1>> -> "after" [] v = <<2, 2>> -> "none"

CupNumbers == [x_pod |-> 1, omni_dripper |-> 2, other |-> 3, tea |-> 4]
LocalCupToCloud(cup) == IF cup \in DOMAIN CupNumbers THEN CupNumbers[cup] ELSE 2
CloudCupToLocal(n) == CHOOSE cup \in DOMAIN CupNumbers : CupNumbers[cup] = n

Or(value, default) == IF value = 0 THEN default ELSE value

LocalPourToCloud(p) ==
    [volume |-> p.volume, temperature |-> p.temperature, flow |-> p.flow,
     pattern |-> LocalPatternToCloud(p.pattern), vibration |-> LocalVibrationToCloud(p.vibration)]

CloudPourToLocal(p) ==
    [volume |-> Or(p.volume, 30), temperature |-> Or(p.temperature, 93), flow |-> Or(p.flow, 3),
     pattern |-> CloudPatternToLocal(p.pattern), vibration |-> CloudVibrationToLocal(p.vibration)]

LocalRecipeToCloud(r) ==
    [name |-> "copy", dose |-> r.dose, ratio |-> r.ratio, grind |-> r.grind, cup |-> LocalCupToCloud(r.cup),
     bypass |-> r.bypass, bypassOn |-> OnOff(r.bypass > 0),
     pours |-> [i \in DOMAIN r.pours |-> LocalPourToCloud(r.pours[i])]]

CloudRecipeToLocal(c) ==
    [dose |-> c.dose, ratio |-> IF c.dose > 0 THEN c.ratio ELSE 0, grind |-> c.grind,
     cup |-> CloudCupToLocal(c.cup), bypass |-> IF c.bypassOn = 1 THEN c.bypass ELSE 0,
     pours |-> [i \in DOMAIN c.pours |-> CloudPourToLocal(c.pours[i])]]

(* RECIPE_SCHEMA on what the conversion made: pattern names become numbers.*)
RecipeSchema(r) ==
    [r EXCEPT !.pours = [i \in DOMAIN r.pours |-> [r.pours[i] EXCEPT !.pattern = PatternNameToInt(@)]]]

(* A recipe without bypass must be consistent to be sent.                  *)
Export ==
    /\ recipe.bypass = 0 => Consistent(recipe)
    /\ cloud' = LocalRecipeToCloud(recipe)
    /\ UNCHANGED <<version, water, recipe, plan, trips>>

(* An import, or the account seed of another installation.                 *)
Import ==
    /\ cloud # NoCopy /\ trips < MaxTrips
    /\ recipe' = RecipeSchema(CloudRecipeToLocal(cloud)) /\ trips' = trips + 1
    /\ UNCHANGED <<version, water, cloud, plan>>

Init ==
    /\ version \in Versions /\ water \in BOOLEAN /\ recipe \in Recipes
    /\ cloud = NoCopy /\ plan = NoPlan /\ trips = 0

(* A call leaves nothing behind that a later step reads, so a behaviour    *)
(* ends with its first one.                                                *)
Next == plan = NoPlan /\ (Export \/ Import \/ \E o \in Overrides : Execute(o))

Spec == Init /\ [][Next]_vars

(***************************************************************************)
(* Properties.                                                             *)
(***************************************************************************)

(* Types.                                                                  *)
TypeOK ==
    /\ version \in Versions /\ water \in BOOLEAN /\ trips \in 0 .. MaxTrips
    /\ IsRecipe(recipe)
    /\ plan # NoPlan => \A i \in DOMAIN plan.pours : IsPour(plan.pours[i])

(* The share of the scaled water that the pour i had in the recipe is      *)
(* share/(2 * Sum) ml; Ample says that no pour is so small that rounding   *)
(* all of them could leave nothing for it.                                 *)
Half(p) == p.dose * p.ratio - 2 * p.bypass
Share(p, i) == p.from[i].volume * Half(p)
Ample(p) == \A i \in DOMAIN p.from : Share(p, i) >= (Len(p.from) + 2) * Sum(p.from)

(* A coffee brewed with another dose or ratio gets the water it should:    *)
(* pours and bypass add up to dose * ratio by the cloud's own rule, and    *)
(* every pour keeps its share but for the rounding.  Pours of a ml or two  *)
(* can only make it more, by at most one ml for each of them; none ends up *)
(* with nothing.                                                           *)
WaterAddsUp ==
    (/\ plan # NoPlan /\ ~plan.tea
     /\ Rescales(plan, plan.with) /\ plan.with.pour = 0
     /\ Half(plan) > 0 /\ Sum(plan.from) > 0)
    =>      /\ \A i \in DOMAIN plan.pours : plan.pours[i].volume > 0
            /\ Sum(plan.pours) - RoundHalves(Half(plan)) \in 0 .. Len(plan.pours)
            /\ Ample(plan) =>
                  /\ Consistent(plan)
                  /\ \A i \in DOMAIN plan.pours :
                        LET off == 2 * Sum(plan.from) * plan.pours[i].volume - Share(plan, i)
                            bound == Len(plan.pours) * Sum(plan.from)
                        IN  off \in -bound .. bound

(* On firmware the client knows to be too old nothing is prepared as a     *)
(* tea, whether the recipe is a tea in whatever capitals, was one on the   *)
(* account, or is a coffee called as a tea, unless its cup is written with *)
(* a space, which the build strips and the gate does not; and no tea,      *)
(* however it is written, takes the bypass of its recipe or its call.      *)
TeaGated ==
    plan # NoPlan /\ plan.tea =>
        /\ version = "old" => Strip(plan.cup) # plan.cup
        /\ plan.bypass = 0

(* A recipe comes back from the account as it was sent, if it has no zero  *)
(* volume or flow, a cup the account knows and a dose for its ratio; and   *)
(* whatever the first trip made of any other, a second one keeps.          *)
Plain(r) ==
    /\ r.cup \in DOMAIN CupNumbers /\ (r.dose = 0 => r.ratio = 0)
    /\ \A i \in DOMAIN r.pours : r.pours[i].volume > 0 /\ r.pours[i].flow > 0

RoundTrip == [][Import /\ (Plain(recipe) \/ trips > 0) => recipe' = recipe]_vars
=============================================================================
