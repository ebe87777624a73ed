---------------------------- MODULE MCBlockLists ----------------------------
(* Instances of BlockLists. *)
EXTENDS BlockLists

CONSTANTS s1, s2

ResolvConf == <<s1, s2>>

=============================================================================
