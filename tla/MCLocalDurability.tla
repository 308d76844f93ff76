------------------------- MODULE MCLocalDurability -------------------------
(* LocalDurability with the bounds of MCLocalDurability.cfg and             *)
(* MCLocalDurability_starved.cfg.                                           *)
EXTENDS LocalDurability
=============================================================================
