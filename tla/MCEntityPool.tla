----------------------------- MODULE MCEntityPool -----------------------------
(***************************************************************************)
(* A bounded instance of the entity pool for TLC.  No symmetry: the order  *)
(* of the players in a new level is one that the model chooses.            *)
(***************************************************************************)
EXTENDS EntityPool

MCSlots == 0..1
===============================================================================
