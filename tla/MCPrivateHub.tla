---------------------------- MODULE MCPrivateHub ----------------------------
(* PrivateHub on small instances: two watchers of the account. *)
EXTENDS PrivateHub

CONSTANTS l1, l2
=============================================================================
