---------------------------- MODULE RecipeOrder -----------------------------
(***************************************************************************)
(* What a recipe chain promises (brewing.py): the machine takes the steps  *)
(* of a recipe one after the other, and a call that reports the recipe as  *)
(* loaded does so only when the machine took every one of them, in order.  *)
(* An attempt may be abandoned and begun anew, and a call may fail at any  *)
(* time.                                                                   *)
(***************************************************************************)
EXTENDS Naturals

CONSTANTS
    Calls,   \* calls that load a recipe
    Steps    \* the number of steps of a chain

VARIABLES
    order,   \* idle, loading, loaded or failed
    taken    \* how many steps of the chain the machine took, in order

TypeOK ==
    /\ order \in [Calls -> {"idle", "loading", "loaded", "failed"}]
    /\ taken \in 0 .. Steps

Init ==
    /\ order = [t \in Calls |-> "idle"]
    /\ taken = 0

Begin(t) ==
    /\ order' = [order EXCEPT ![t] = "loading"]
    /\ UNCHANGED taken

\* A new link: what was loaded is cleared.
Clear ==
    /\ taken' = 0
    /\ UNCHANGED order

\* The next step, or the first one again.
Take ==
    /\ taken' \in {1, taken + 1} \cap 1 .. Steps
    /\ UNCHANGED order

Loaded(t) ==
    /\ order[t] = "loading"
    /\ taken = Steps
    /\ order' = [order EXCEPT ![t] = "loaded"]
    /\ UNCHANGED taken

Fail(t) ==
    /\ order[t] = "loading"
    /\ order' = [order EXCEPT ![t] = "failed"]
    /\ UNCHANGED taken

Next == Clear \/ Take \/ \E t \in Calls : Begin(t) \/ Loaded(t) \/ Fail(t)

Spec == Init /\ [][Next]_<<order, taken>>
=============================================================================
