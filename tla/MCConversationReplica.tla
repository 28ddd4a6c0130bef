------------------------ MODULE MCConversationReplica ------------------------
(***************************************************************************)
(* Instances of ConversationReplica for TLC; the values are in the cfgs.   *)
(***************************************************************************)
EXTENDS ConversationReplica, TLC
=============================================================================
