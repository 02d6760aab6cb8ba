-------------------------------- MODULE MCGLog --------------------------------
(* Small instances of GLog. *)
EXTENDS GLog
================================================================================
