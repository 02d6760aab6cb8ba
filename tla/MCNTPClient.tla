------------------------------ MODULE MCNTPClient ------------------------------
(* Small instances of NTPClient. *)
EXTENDS NTPClient
================================================================================
