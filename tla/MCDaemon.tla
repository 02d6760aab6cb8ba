------------------------------- MODULE MCDaemon -------------------------------
(* Small instances of Daemon. *)
EXTENDS Daemon, TLC

CONSTANTS p1, p2, p3

ThreeProcs == {p1, p2, p3}
\* Three disks, one, a file without a Template section, and an empty one.
AllSettings == {"default", "one", "half", "empty"}
CutSettings == {"half", "empty"}
DisksOf == "default" :> 3 @@ "one" :> 1 @@ "half" :> 3 @@ "empty" :> 0
================================================================================
