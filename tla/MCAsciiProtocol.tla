---------------------------- MODULE MCAsciiProtocol ----------------------------
(* Small instances of AsciiProtocol. *)
EXTENDS AsciiProtocol

Text == <<"a">>
Long == [i \in 1 .. 12 |-> "a"]
\* Texts with something odd in them, and the empty one.
OddTexts == {<<>>, <<"a", ",", "a">>, <<"=", "a">>, <<"a", "=", "b">>, <<"a", ".">>,
             <<".">>, <<"a", " ", "a">>, <<" ", "a">>}
AllNumerals == {"0", "7", "1.5", "3.14159", "3.1415927", "1.17549e-38"}

Usual(t) ==
  [type |-> t,
   val |-> [k \in Attributes(t) |->
              IF k \in Floats THEN "1.5" ELSE IF k \in Ints THEN "7"
              ELSE IF k \in ToSet(Fields[t]) THEN Text ELSE <<>>]]
\* Attributes are made odd one at a time: the first, the last, one that another can
\* overwrite and one that is not packed.
Odd == {<<"cooler", "time", <<>>>>, <<"cooler", "coolset", "FLT_MIN">>,
        <<"vacuum", "current", "3.1415927">>,
        <<"fileinfo", "time", Text>>, <<"fileinfo", "filename", Long>>,
        <<"fileinfo", "group_id", <<"a", ",", "grid_id", "=", "b">>>>,
        <<"fileinfo", "group_id", <<"a", ",", "filesize", "=", "a">>>>,
        <<"fileinfo", "grid_id", <<>>>>, <<"filestat", "status", "0">>}
       \cup {<<"vacuum", "pressure", v>> : v \in OddTexts}
SomeProtos ==
  {Usual(t) : t \in Types} \cup {Default("cooler")} \cup
  {[Usual(o[1]) EXCEPT !.val[o[2]] = o[3]] : o \in Odd}
================================================================================
