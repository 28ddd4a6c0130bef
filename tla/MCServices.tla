----------------------------- MODULE MCServices -----------------------------
(***************************************************************************)
(* An instance of Services for TLC.                                        *)
(***************************************************************************)
EXTENDS Services

MCFileOf == [o \in Offer |-> CHOOSE f \in File : TRUE]
=============================================================================
