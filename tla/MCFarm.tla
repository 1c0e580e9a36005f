-------------------------------- MODULE MCFarm --------------------------------
(* Farm on a small instance; its constants are given in the configuration. *)
EXTENDS Farm
===============================================================================
