---------------------------- MODULE MCFileReceiver ----------------------------
(* Small instances of FileReceiver: three files of one or two units. *)
EXTENDS FileReceiver, TLC

CONSTANTS f1, f2, f3

TwoFiles == {f1, f2}
ThreeFiles == {f1, f2, f3}
SizeMixed == f1 :> 1 @@ f2 :> 2
SizesOneTwo == f1 :> 1 @@ f2 :> 2 @@ f3 :> 2

Orderly3 == [files |-> Files, beats |-> 0, surplus |-> [f \in Files |-> 0], split |-> FALSE]
\* One whose line TCP splits and that sends a heartbeat; one whose second file, or
\* first, has grown by a unit.
Rude == {[Orderly3 EXCEPT !.files = {f2}, !.beats = 1, !.split = TRUE],
         [Orderly3 EXCEPT !.files = {f1, f3}, !.surplus[f1] = 1]}
OrderlyTwo == {[Orderly3 EXCEPT !.files = TwoFiles]}
OrderlyAndRude == {Orderly3} \cup Rude
================================================================================
