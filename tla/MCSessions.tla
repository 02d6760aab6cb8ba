------------------------------- MODULE MCSessions -------------------------------
(* Small instances of Sessions: two connections, of which one sends files, with    *)
(* heartbeats or without.                                                          *)
EXTENDS Sessions

CONSTANTS c1, c2

OneConn == {c1}
TwoConns == {c1, c2}
BeatsOrNot == {{}, {c1}}
================================================================================
