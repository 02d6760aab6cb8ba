---------------------------- MODULE MCDataTransfer ----------------------------
(* Small instances of DataTransfer. *)
EXTENDS DataTransfer
================================================================================
