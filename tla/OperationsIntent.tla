-------------------------- MODULE OperationsIntent --------------------------
(***************************************************************************)
(* What _reconcile_armed_with_screen promises about an arm, over           *)
(* Operations with the history of the page the machine showed since.  It   *)
(* holds for a user who waits for an arm's page before the next press;     *)
(* with Hasty presses TLC refutes it (README.md, section 4).               *)
(***************************************************************************)
EXTENDS Operations

VARIABLE pageLeft     \* history: the machine left the armed page since the arm press

allVars == <<vars, pageLeft>>

IntentInit == Init /\ pageLeft = FALSE

IntentNext ==
    /\ Next
    /\ pageLeft' = /\ book'.armed = book.armed
                   /\ pageLeft \/ (page = book.armed /\ page' # page)

IntentSpec == IntentInit /\ [][IntentNext]_allVars

\* state.py, _reconcile_armed_with_screen: an arm is dropped "once the
\* machine LEAVES the armed page for home", not by the home report that lags it.
ArmDroppedOnceLeft ==
    [][Poll /\ book.armed \in Manual /\ book'.armed = "none" /\ book'.active = "none"
         => pageLeft]_allVars
=============================================================================
