----------------------------- MODULE AsciiProtocol -----------------------------
(***************************************************************************)
(* src/src/AsciiProtocol.{h,cpp}: a protocol is packed into one line of    *)
(* text, "type keyword=value,keyword=value", in one of ten buffers used in *)
(* turn, and a line that has come is resolved into a protocol.  The lock   *)
(* is given up before the caller reads the buffer it was handed, so that   *)
(* a buffer has to keep its line while the next ones are packed.           *)
(*                                                                         *)
(* Data.  A text is a sequence of tokens: a keyword, a type and a printed  *)
(* number are one token, "a", ",", "=", "." and " " one character.  A      *)
(* number is the numeral it is written with.                               *)
(* Left out: upper and lower case, which keywords and types may mix, and   *)
(* the empty pointer, for which NULL is returned and nothing else happens. *)
(***************************************************************************)
EXTENDS Integers, Sequences, SequencesExt, TLC

CONSTANTS NBuf,       \* 10
          BufLen,     \* 1024, here in tokens
          MaxLines,   \* bound on the lines packed
          Protos,     \* what callers pack
          Numerals    \* the tokens atoi and atof can read

ASSUME BufferAssumption == NBuf \in Nat \ {0} /\ BufLen \in Nat \ {0} /\ MaxLines \in Nat

VARIABLES
  mem,      \* the buffers, one behind the other, and what the heap has behind them
  ibuf,     \* ibuf_
  packed,   \* history: lines packed
  outs,     \* history: the last NBuf lines handed out, with their protocols
  overrun   \* a line ran out of the last buffer

lineVars == <<mem, ibuf, packed, outs, overrun>>

-----------------------------------------------------------------------------
(* The protocols. *)

\* The keywords of each type, in the order in which they are packed.
Fields == [
  cooler   |-> <<"time", "group_id", "unit_id", "cam_id", "voltage", "current",
                 "hotend", "coolget", "coolset">>,
  vacuum   |-> <<"time", "group_id", "unit_id", "cam_id", "voltage", "current", "pressure">>,
  fileinfo |-> <<"group_id", "unit_id", "cam_id", "grid_id", "field_id", "tmobs",
                 "subpath", "filename", "filesize">>,
  filestat |-> <<"status">>]
Types == DOMAIN Fields

Base == {"time", "group_id", "unit_id", "cam_id"}
Floats == {"voltage", "current", "hotend", "coolget", "coolset"}
Ints == {"filesize", "status"}
Attributes(t) == Base \cup ToSet(Fields[t])

\* The constructors.
Default(t) ==
  [type |-> t,
   val  |-> [k \in Attributes(t) |->
               IF k \in Floats THEN "FLT_MIN" ELSE IF k \in Ints THEN "0" ELSE <<>>]]

\* No protocol: the type is unknown.
NoProto == [type |-> "none"]

-----------------------------------------------------------------------------
(* Packing. *)

\* boost::format prints a float with six digits.
Printed(v) ==
  CASE v = "FLT_MIN"   -> "1.17549e-38"
    [] v = "3.1415927" -> "3.14159"
    [] OTHER           -> v

JoinKv(k, v) ==
  <<k, "=">> \o (IF k \in Floats \cup Ints THEN <<Printed(v)>> ELSE v) \o <<",">>

\* Mutant: the time is forgotten.
SentWithoutTime(p) == SelectSeq(Fields[p.type], LAMBDA k : k # "time")

\* The time is left out when it is empty.
Sent(p) == SelectSeq(Fields[p.type], LAMBDA k : k = "time" => p.val[k] # <<>>)

Spaces == {" ", "\n"}
Puncts == {",", "=", "."}

TrimRight(s, S) == SubSeq(s, 1, Max({0} \cup {i \in DOMAIN s : s[i] \notin S}))
TrimLeft(s, S) == SubSeq(s, Min({Len(s) + 1} \cup {i \in DOMAIN s : s[i] \notin S}), Len(s))
Trim(s) == TrimLeft(TrimRight(s, Spaces), Spaces)

\* The line of a protocol.
Line(p) ==
  LET kvs == [i \in DOMAIN Sent(p) |-> JoinKv(Sent(p)[i], p.val[Sent(p)[i]])]
  IN TrimRight(<<p.type, " ">> \o FlattenSeq(kvs), Puncts \cup Spaces)
Lines == [p \in Protos |-> Line(p)]

\* A line is a finite text, as everything that FlattenSeq and SelectSeq return.
ASSUME LinesAreTexts == \A p \in Protos : Lines[p] \in Seq(STRING)

-----------------------------------------------------------------------------
(* Resolving. *)

\* algorithm::split with token_compress_on: adjacent separators count as one; one
\* at either end leaves an empty token there.
Split(s, sep) ==
  LET Starts(i) == i > 1 => s[i - 1] = sep /\ (i <= Len(s) => s[i] # sep)
      End(i) == Min({Len(s) + 1} \cup {j \in i .. Len(s) : s[j] = sep}) - 1
      at == SelectSeq([i \in 1 .. Len(s) + 1 |-> i], Starts)
  IN [n \in DOMAIN at |-> SubSeq(s, at[n], End(at[n]))]

\* resolve_kv: a keyword and the first value behind it.
ResolveKv(kv) ==
  LET tokens == Split(kv, "=")
  IN [keyword |-> Trim(tokens[1]),
      value   |-> IF Len(tokens) > 1 THEN Trim(tokens[2]) ELSE <<>>]

\* atoi and atof read what they can.
Read(k, value) ==
  IF k \notin Floats \cup Ints THEN value
  ELSE IF value[1] \in Numerals THEN value[1] ELSE "0"

\* One turn of the loop over the keywords and values; unknown ones are skipped.
Recognise(p, kv) ==
  LET r == ResolveKv(kv)
      known == {k \in ToSet(Fields[p.type]) : r.keyword = <<k>> /\ r.value # <<>>}
  IN [p EXCEPT !.val = [k \in DOMAIN @ |-> IF k \in known THEN Read(k, r.value) ELSE @[k]]]

Resolve(rcvd) ==
  LET type == SubSeq(rcvd, 1, Min({Len(rcvd) + 1} \cup {i \in DOMAIN rcvd : rcvd[i] = " "}) - 1)
      rest == TrimLeft(SubSeq(rcvd, Len(type) + 1, Len(rcvd)), {" "})
      tokens == IF rest = <<>> THEN <<>> ELSE Split(rest, ",")
  IN IF \E t \in Types : type = <<t>>
       THEN FoldLeft(Recognise, Default(type[1]), tokens)
       ELSE NoProto

-----------------------------------------------------------------------------
(* The buffers. *)

LineInit ==
  /\ mem = [c \in 1 .. (NBuf + 1) * BufLen |-> "noise"]
  /\ ibuf = 0
  /\ packed = 0 /\ outs = <<>>
  /\ overrun = FALSE

\* Mutant: the last buffer is never used.
AdvanceShort(i) == IF i + 2 >= NBuf THEN 0 ELSE i + 1

Advance(i) == IF i + 1 = NBuf THEN 0 ELSE i + 1

\* output_compacted: sprintf writes the line, "\n" and a 0, however long they are.
OutputCompacted(p) ==
  LET at == ibuf * BufLen
      text == Append(Lines[p], "\n")
      bytes == Append(text, "end")
  IN /\ packed < MaxLines /\ packed' = packed + 1
     /\ ibuf' = Advance(ibuf)
     /\ mem' = [c \in DOMAIN mem |->
                  IF c - at \in DOMAIN bytes THEN bytes[c - at] ELSE mem[c]]
     /\ outs' = LET all == Append(outs, [at |-> at, text |-> text, proto |-> p])
                IN IF Len(all) > NBuf THEN Tail(all) ELSE all
     /\ overrun' \in IF at + Len(bytes) > NBuf * BufLen THEN BOOLEAN ELSE {FALSE}

LineNext == ~overrun /\ \E p \in Protos : OutputCompacted(p)

LineSpec == LineInit /\ [][LineNext]_lineVars

-----------------------------------------------------------------------------
(* Properties. *)

Fits(o) == Len(o.text) + 1 <= BufLen
InMemory(o) == SubSeq(mem, o.at + 1, o.at + Len(o.text))

\* What the format can carry: texts without ',' and '=' and without space at
\* their ends, the last one (the pressure) without punctuation at its end;
\* floats of six digits; and nothing in an attribute that is not packed.
Plain(p) ==
  /\ \A k \in DOMAIN p.val \ ToSet(Fields[p.type]) : p.val[k] = Default(p.type).val[k]
  /\ \A k \in ToSet(Fields[p.type]) :
       IF k \in Floats \cup Ints
         THEN Printed(p.val[k]) = p.val[k]
         ELSE /\ ToSet(p.val[k]) \cap {",", "="} = {}
              /\ Trim(p.val[k]) = p.val[k]
              /\ k = "pressure" => TrimRight(p.val[k], Puncts) = p.val[k]

\* The line just handed out resolves into the protocol it was packed from if the
\* format can carry it, and never otherwise: a name with a comma in it comes out
\* as another name, and may set another field.
RoundTrip ==
  outs # <<>> =>
    LET o == Last(outs)
    IN Resolve(InMemory(o)) = o.proto <=> Plain(o.proto)

\* A line stays in its buffer while the next NBuf - 1 are packed, provided that it
\* and those are no longer than a buffer: callers write it to the socket after the
\* lock is given up.
RecentIntact ==
  \A i \in DOMAIN outs :
    (\A j \in i .. Len(outs) : Fits(outs[j])) => InMemory(outs[i]) = outs[i].text
================================================================================
