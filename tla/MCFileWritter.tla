----------------------------- MODULE MCFileWritter -----------------------------
(* Small instances of FileWritter: one or two connections, one or two files. *)
EXTENDS FileWritter

CONSTANTS r1, r2, f1, f2

OneReceiver == {r1}
TwoReceivers == {r1, r2}
OneFile == {f1}
TwoFiles == {f1, f2}
================================================================================
