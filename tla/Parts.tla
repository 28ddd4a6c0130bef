-------------------------------- MODULE Parts --------------------------------
(***************************************************************************)
(* The variables of a specification that holds several components and runs *)
(* one of them in each behaviour, which the first state chooses.  The      *)
(* component that runs has x1, x2, ... for its variables, in the order in  *)
(* which its module declares them; the rest stay as they are.              *)
(***************************************************************************)
EXTENDS Integers, Sequences

VARIABLES
  part,  \* the component that runs
  x1, x2, x3, x4, x5, x6, x7, x8, x9, x10, x11, x12, x13, x14, x15, x16, x17,
  x18, x19, x20, x21, x22, x23

\* The variables a component with so many of its own leaves alone.
After21 == <<x22, x23>>
After18 == <<x19, x20, x21, After21>>
After17 == <<x18, After18>>
After16 == <<x17, After17>>
After12 == <<x13, x14, x15, x16, After16>>
After10 == <<x11, x12, After12>>
After9 == <<x10, After10>>
After7 == <<x8, x9, After9>>
After6 == <<x7, After7>>
Zero21 == x22 = 0 /\ x23 = 0
Zero18 == x19 = 0 /\ x20 = 0 /\ x21 = 0 /\ Zero21
Zero17 == x18 = 0 /\ Zero18
Zero16 == x17 = 0 /\ Zero17
Zero12 == x13 = 0 /\ x14 = 0 /\ x15 = 0 /\ x16 = 0 /\ Zero16
Zero10 == x11 = 0 /\ x12 = 0 /\ Zero12
Zero9 == x10 = 0 /\ Zero10
Zero7 == x8 = 0 /\ x9 = 0 /\ Zero9
Zero6 == x7 = 0 /\ Zero7

allVars ==
  <<part,
    x1, x2, x3, x4, x5, x6, x7, x8, x9, x10, x11, x12, x13, x14, x15, x16,
    x17, x18, x19, x20, x21, x22, x23>>
=============================================================================
