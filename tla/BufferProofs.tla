------------------------------ MODULE BufferProofs ------------------------------
(***************************************************************************)
(* Proofs about the two components that keep text for a while: GLog, whose *)
(* lines wait in the buffer of stdio, and AsciiProtocol, whose lines wait  *)
(* in a ring for the caller to send them.                                  *)
(*                                                                         *)
(* GLog, for days, months and buffers of any length: a file of one day     *)
(* gets no entry of another, but for a log silent for months; and a log    *)
(* that has gone quiet is on the disk within two seconds, and as many more *)
(* as the clock was set back.  The second needs the bookkeeping of         *)
(* FlushInv: what is buffered is counted in bytecache_, the thread tests   *)
(* every second, and each step back of the clock hides one second.         *)
(*                                                                         *)
(* AsciiProtocol, for any number of buffers of any length and any lines: a *)
(* line keeps until its buffer is used again.  The invariant is whose turn *)
(* each buffer was (InTurn): the next line goes to another buffer than     *)
(* those of the last NBuf - 1, and what fits stays inside of its own.      *)
(***************************************************************************)
EXTENDS GLog, AsciiProtocol, SequenceTheorems, TLAPS

TypeInv ==
  /\ now \in Int /\ last \in Int /\ sets \in Nat /\ sets <= SetsBack
  /\ buf \in Nat /\ quiet \in Nat /\ nap \in {0, 1}
  /\ cyc \in {"none", "sleep", "test", "ended"}
  /\ stop \in {"no", "interrupt", "done"}
  /\ cyc = "ended" => stop # "no"

\* day_ is the day of the file that is open, and the first file started the thread.
DayInv == fd # NoFile => day = DayOf(fd) /\ cyc # "none"

\* While lines are buffered the thread is there to flush them, within two seconds
\* of the last one by the local clock, and the local clock is behind the time the log
\* has been quiet by no more than it was set back.
FlushInv ==
  /\ buf <= BufLines
  /\ buf > 0 => /\ cached /\ cyc # "none"
                /\ now - last <= 2
                /\ cyc = "sleep" => now - last <= 2 - nap
                /\ quiet <= (now - last) + sets

LogInv == TypeInv /\ DayInv /\ FlushInv

\* At the beginning nothing is open or buffered.
LEMMA LogInit == Init => LogInv
<1> SUFFICES ASSUME Init PROVE LogInv
  OBVIOUS
<1>1. TypeInv
  BY ClockAssumption DEF Init, TypeInv
<1>2. DayInv
  BY DEF Init, DayInv
<1>3. FlushInv
  BY BufAssumption DEF Init, FlushInv
<1> QED
  BY <1>1, <1>2, <1>3 DEF LogInv

\* Writers: an entry into the file of the day, into a new file, or into none.
LEMMA WritersKeep ==
  ASSUME LogInv, Writers
  PROVE  LogInv'
<1> USE BufAssumption DEF LogInv
<1>1. /\ now \in Int /\ last \in Int /\ sets \in Nat /\ buf \in Nat /\ quiet \in Nat
      /\ nap \in {0, 1} /\ BufLines \in Nat /\ BufLines >= 2
  BY DEF TypeInv
<1>2. CASE Write
  <2>1. /\ UNCHANGED <<now, sets, day, fd, cyc, nap, stop>>
        /\ cached' = TRUE /\ last' = now /\ cyc # "test" /\ Buffered(1)
        /\ day = DayOf(Date(now)) /\ fd # NoFile /\ stop = "no"
    BY <1>2 DEF Write, CanWrite, IsValid, clock, file, cycle
  <2>2. quiet' = 0 /\ buf' \in Nat /\ buf' <= BufLines
    BY <1>1, <2>1 DEF Buffered
  <2>3. now' - last' = 0 /\ cyc' # "none" /\ quiet' <= (now' - last') + sets'
    BY <1>1, <2>1, <2>2 DEF DayInv
  <2>4. FlushInv'
    BY <1>1, <2>1, <2>2, <2>3 DEF FlushInv
  <2>5. TypeInv' /\ DayInv'
    BY <1>1, <2>1, <2>2 DEF TypeInv, DayInv
  <2> QED
    BY <2>4, <2>5
<1>3. CASE WriteOpens
  <2>1. /\ UNCHANGED <<now, sets, stop>>
        /\ day' = DayOf(Date(now)) /\ fd' = Date(now)
        /\ buf' = 2 /\ quiet' = 0 /\ cached' = TRUE /\ last' = now
        /\ \/ cyc = "none" /\ cyc' = "sleep" /\ nap' = 1
           \/ cyc # "none" /\ UNCHANGED <<cyc, nap>>
    BY <1>3 DEF WriteOpens, clock, cycle
  <2>2. FlushInv'
    BY <1>1, <2>1 DEF FlushInv
  <2>3. TypeInv' /\ DayInv'
    BY <1>1, <2>1 DEF TypeInv, DayInv
  <2> QED
    BY <2>2, <2>3
<1>4. CASE WriteDropped
  <2>1. fd' = NoFile /\ buf' = 0 /\ quiet' = 0 /\ UNCHANGED <<now, last, sets, cyc, nap, stop>>
    BY <1>4 DEF WriteDropped, clock, cycle
  <2> QED
    BY <1>1, <2>1 DEF TypeInv, DayInv, FlushInv
<1>5. CASE WriteCrashes
  BY <1>5 DEF WriteCrashes, clock, file, buffer, cycle, TypeInv, DayInv, FlushInv
<1> QED
  BY <1>2, <1>3, <1>4, <1>5 DEF Writers

\* The thread: its test, the flush, its end.
LEMMA CycleKeeps ==
  ASSUME LogInv, Cycle \/ Interrupt \/ Joined
  PROVE  LogInv'
<1> USE BufAssumption DEF LogInv
<1>1. /\ now \in Int /\ last \in Int /\ sets \in Nat /\ buf \in Nat /\ quiet \in Nat
      /\ nap \in {0, 1} /\ BufLines \in Nat /\ BufLines >= 2
  BY DEF TypeInv
<1>2. CASE CycleWakes \/ CycleInterrupted \/ Interrupt
  <2>1. /\ UNCHANGED <<now, sets, day, fd, cached, last, buf, quiet, nap>>
        /\ \/ cyc = "sleep" /\ cyc' = "test" /\ stop' = stop
           \/ cyc = "sleep" /\ cyc' = "ended" /\ stop' = "interrupt"
           \/ cyc' = cyc /\ stop' = "interrupt"
    BY <1>2 DEF CycleWakes, CycleInterrupted, Interrupt, clock, file, buffer, cycle
  <2>2. FlushInv'
    BY <2>1 DEF FlushInv
  <2>3. TypeInv'
    BY <1>1, <2>1 DEF TypeInv
  <2>4. DayInv'
    BY <2>1 DEF DayInv
  <2> QED
    BY <2>2, <2>3, <2>4
<1>3. CASE CycleFlushes
  <2>1. /\ UNCHANGED <<now, sets, day, fd, last, stop>>
        /\ cyc = "test" /\ cyc' = "sleep" /\ nap' = 1
        /\ \/ buf' = 0 /\ quiet' = 0
           \/ (~cached \/ ~(now - last > 1)) /\ UNCHANGED <<buf, quiet, cached>>
    BY <1>3 DEF CycleFlushes, clock, file
  <2>2. FlushInv'
    <3>1. CASE buf' = 0 /\ quiet' = 0
      BY <1>1, <3>1 DEF FlushInv
    <3>2. CASE (~cached \/ ~(now - last > 1)) /\ UNCHANGED <<buf, quiet, cached>>
      <4>1. buf > 0 => now - last <= 2 - nap'
        BY <1>1, <2>1, <3>2 DEF FlushInv
      <4> QED
        BY <1>1, <2>1, <3>2, <4>1 DEF FlushInv
    <3> QED
      BY <2>1, <3>1, <3>2
  <2>3. TypeInv' /\ DayInv'
    BY <1>1, <2>1 DEF TypeInv, DayInv
  <2> QED
    BY <2>2, <2>3
<1>4. CASE Joined
  <2>1. /\ fd' = NoFile /\ buf' = 0 /\ quiet' = 0 /\ stop' = "done"
        /\ UNCHANGED <<now, last, sets, cyc, nap>>
    BY <1>4 DEF Joined, clock, cycle
  <2> QED
    BY <1>1, <2>1 DEF TypeInv, DayInv, FlushInv
<1> QED
  BY <1>2, <1>3, <1>4 DEF Cycle

\* A second passes, or the clock is set back by one.
LEMMA TimeKeeps ==
  ASSUME LogInv, Tick \/ SetClock
  PROVE  LogInv'
<1> USE ClockAssumption, BufAssumption DEF LogInv
<1>1. /\ now \in Int /\ last \in Int /\ sets \in Nat /\ buf \in Nat /\ quiet \in Nat
      /\ nap \in {0, 1}
  BY DEF TypeInv
<1>2. CASE Tick
  <2>1. /\ UNCHANGED <<sets, day, fd, cached, last, buf, cyc, stop>>
        /\ now' = now + 1 /\ stop = "no" /\ cyc # "test"
        /\ cyc = "sleep" => nap > 0 /\ nap' = nap - 1
        /\ cyc # "sleep" => nap' = nap
        /\ quiet' = IF buf = 0 THEN 0 ELSE quiet + 1
    BY <1>2 DEF Tick, file
  <2>2. TypeInv' /\ DayInv'
    BY <1>1, <2>1 DEF TypeInv, DayInv
  <2>3. CASE buf = 0
    BY <1>1, <2>1, <2>2, <2>3 DEF FlushInv
  <2>4. CASE buf # 0
    <3>1. cyc = "sleep"
      BY <1>1, <2>1, <2>4 DEF TypeInv, FlushInv
    <3>2. /\ nap = 1 /\ nap' = 0 /\ now - last <= 1
          /\ quiet <= (now - last) + sets
      BY <1>1, <2>1, <2>4, <3>1 DEF FlushInv
    <3>3. /\ now' - last <= 2
          /\ quiet' <= (now' - last) + sets
      BY <1>1, <2>1, <2>4, <3>2
    <3>4. FlushInv'
      BY <1>1, <2>1, <2>4, <3>2, <3>3 DEF FlushInv
    <3> QED
      BY <2>2, <3>4
  <2> QED
    BY <2>2, <2>3, <2>4
<1>3. CASE SetClock
  <2>1. /\ UNCHANGED <<day, fd, cached, last, buf, quiet, cyc, nap, stop>>
        /\ sets < SetsBack /\ sets' = sets + 1 /\ now' = now - 1
    BY <1>3 DEF SetClock, file, buffer, cycle
  <2>2. TypeInv' /\ DayInv'
    BY <1>1, <2>1 DEF TypeInv, DayInv
  <2>3. CASE buf = 0
    BY <1>1, <2>1, <2>2, <2>3 DEF FlushInv
  <2>4. CASE buf # 0
    <3>1. /\ now - last <= 2
          /\ cyc = "sleep" => now - last <= 2 - nap
          /\ quiet <= (now - last) + sets
      BY <1>1, <2>4 DEF FlushInv
    <3>2. /\ now' - last <= 2
          /\ cyc = "sleep" => now' - last <= 2 - nap
          /\ quiet <= (now' - last) + sets'
      BY <1>1, <2>1, <3>1
    <3> QED
      BY <2>1, <2>2, <2>4, <3>2 DEF FlushInv
  <2> QED
    BY <2>2, <2>3, <2>4
<1> QED
  BY <1>2, <1>3

\* Every step keeps the invariant.
LEMMA LogNext ==
  ASSUME LogInv, [Next]_vars
  PROVE  LogInv'
<1>1. CASE UNCHANGED vars
  BY <1>1 DEF vars, clock, file, buffer, cycle, LogInv, TypeInv, DayInv, FlushInv
<1> QED
  BY <1>1, WritersKeep, CycleKeeps, TimeKeeps DEF Next

\* LogInv is inductive.
LEMMA LogInvHolds == Spec => []LogInv
BY LogInit, LogNext, PTL DEF Spec

\* A log that has gone quiet is on the disk within two seconds; only the clock set
\* back can make that later, by as much.
THEOREM QuietLogIsFlushed == Spec => []QuietIsFlushed
<1>1. LogInv => QuietIsFlushed
  <2> SUFFICES ASSUME LogInv, buf > 0 PROVE quiet <= 2 + sets
    BY DEF QuietIsFlushed
  <2>1. now \in Int /\ last \in Int /\ sets \in Nat /\ quiet \in Nat
    BY DEF LogInv, TypeInv
  <2>2. now - last <= 2 /\ quiet <= (now - last) + sets
    BY DEF LogInv, FlushInv
  <2> QED
    BY <2>1, <2>2
<1> QED
  BY <1>1, LogInvHolds, PTL

\* A step gives the file of a day no entry of another.
LEMMA EntryOfTheDay ==
  ASSUME LogInv, [Next]_vars, InOwnFile, ~SilentForMonths
  PROVE  InOwnFile'
<1>1. CASE Write
  <2>1. /\ day = DayOf(Date(now)) /\ fd # NoFile /\ fd' = fd /\ last' = now
    BY <1>1 DEF Write, IsValid, file
  <2>2. fd = Date(last) /\ day = DayOf(fd)
    BY <2>1 DEF InOwnFile, LogInv, DayInv
  <2>3. Date(last) = Date(now)
    BY <2>1, <2>2 DEF SilentForMonths
  <2> QED
    BY <2>1, <2>2, <2>3 DEF InOwnFile, Date
<1>2. CASE WriteOpens
  BY <1>2 DEF WriteOpens, InOwnFile, Date
<1>3. CASE fd' = NoFile
  BY <1>3 DEF InOwnFile
<1>4. CASE UNCHANGED <<fd, last>>
  BY <1>4 DEF InOwnFile, Date
<1> QED
  BY <1>1, <1>2, <1>3, <1>4 DEF Next, Writers, WriteDropped, WriteCrashes, Cycle, CycleWakes,
     CycleFlushes, CycleInterrupted, Interrupt, Joined, Tick, SetClock, vars, file, buffer

\* A file that holds the entries of its own day gets no entry of another, whatever
\* the clock does and whatever could not be opened, unless the log was silent since
\* the same day of another month.
THEOREM EntriesInOwnDay == Spec => EntryInOwnDay
<1>1. LogInv /\ [Next]_vars => [InOwnFile /\ ~SilentForMonths => InOwnFile']_vars
  BY EntryOfTheDay
<1> QED
  BY <1>1, LogInvHolds, PTL DEF Spec, EntryInOwnDay

-----------------------------------------------------------------------------
(* AsciiProtocol.                                                          *)

\* A token of a line, what ends one, or what was in the memory at first.
Token == STRING \cup {"\n", "end", "noise"}

\* What is handed out: where the line is, its text, and the protocol it was packed from.
Handed == [at : Nat, text : Seq(Token), proto : Protos]

\* The buffer used d lines ago, 1 for the last one.
Slot(d) == IF ibuf >= d THEN ibuf - d ELSE ibuf - d + NBuf

RingOK ==
  /\ ibuf \in 0 .. NBuf - 1
  /\ mem \in [1 .. (NBuf + 1) * BufLen -> Token]
  /\ outs \in Seq(Handed) /\ Len(outs) <= NBuf

\* Each line is in the buffer whose turn it was.
InTurn == \A i \in DOMAIN outs : outs[i].at = Slot(Len(outs) - i + 1) * BufLen

RingInv == RingOK /\ InTurn /\ RecentIntact

\* A buffer ends where the next one begins, or before.
LEMMA BuffersApart ==
  ASSUME NEW a \in Nat, NEW b \in Nat, NEW len \in Nat, a < b
  PROVE  /\ a * len \in Nat /\ b * len \in Nat
         /\ a * len + len <= b * len
<1>1. PICK k \in Nat : b = a + 1 + k
  <2>1. b - a - 1 \in Nat
    OBVIOUS
  <2> QED
    BY <2>1
<1>2. b * len = a * len + len + k * len
  BY <1>1
<1>3. k * len >= 0 /\ a * len >= 0 /\ k * len \in Nat /\ a * len \in Nat
  OBVIOUS
<1> QED
  BY <1>2, <1>3

\* A line that fits lies in its buffer, and the buffers in the memory.
LEMMA BufferInMemory ==
  ASSUME NEW s \in 0 .. NBuf - 1
  PROVE  /\ s * BufLen \in Nat
         /\ s * BufLen + BufLen <= NBuf * BufLen
         /\ (NBuf + 1) * BufLen = NBuf * BufLen + BufLen
         /\ NBuf * BufLen \in Nat
<1> USE BufferAssumption
<1>1. s \in Nat /\ NBuf \in Nat /\ BufLen \in Nat /\ s < NBuf
  OBVIOUS
<1>2. (NBuf + 1) * BufLen = NBuf * BufLen + BufLen
  BY <1>1
<1> QED
  BY <1>1, <1>2, BuffersApart

\* Two texts are equal if they are as long and have the same tokens.
LEMMA SameText ==
  ASSUME NEW s \in Seq(Token), NEW t \in Seq(Token), Len(s) = Len(t),
         \A k \in 1 .. Len(s) : s[k] = t[k]
  PROVE  s = t
<1>1. s = [k \in 1 .. Len(s) |-> s[k]] /\ t = [k \in 1 .. Len(t) |-> t[k]]
  OBVIOUS
<1> QED
  BY <1>1

\* A text is in the memory when it is there cell by cell.
LEMMA ReadsText ==
  ASSUME NEW m \in [1 .. (NBuf + 1) * BufLen -> Token],
         NEW a \in Nat, NEW t \in Seq(Token), a + Len(t) <= (NBuf + 1) * BufLen
  PROVE  SubSeq(m, a + 1, a + Len(t)) = t <=> \A k \in 1 .. Len(t) : m[a + k] = t[k]
<1>1. Len(t) \in Nat /\ (NBuf + 1) * BufLen \in Nat
  BY BufferAssumption
<1>2. PICK b \in Int : b = a + 1
  OBVIOUS
<1>3. PICK e \in Int : e = a + Len(t)
  BY <1>1
<1>4. \A i \in b .. e : m[i] \in Token
  BY <1>1, <1>2, <1>3
<1>5. /\ SubSeq(m, b, e) \in Seq(Token)
      /\ Len(SubSeq(m, b, e)) = IF b <= e THEN e - b + 1 ELSE 0
      /\ \A i \in 1 .. e - b + 1 : SubSeq(m, b, e)[i] = m[b + i - 1]
  BY <1>4, SubSeqProperties
<1>6. PICK s \in Seq(Token) : s = SubSeq(m, a + 1, a + Len(t))
  BY <1>5, <1>2, <1>3
<1>7. Len(s) = Len(t)
  BY <1>6, <1>5, <1>1, <1>2, <1>3
<1>8. \A k \in 1 .. Len(t) : s[k] = m[a + k]
  <2> TAKE k \in 1 .. Len(t)
  <2>1. k \in 1 .. e - b + 1 /\ b + k - 1 = a + k
    BY <1>1, <1>2, <1>3
  <2> QED
    BY <2>1, <1>5, <1>6, <1>2, <1>3
<1>9. (\A k \in 1 .. Len(t) : m[a + k] = t[k]) => s = t
  BY <1>7, <1>8, SameText
<1> QED
  BY <1>6, <1>7, <1>8, <1>9

\* What packing does: the line goes into the buffer whose turn it is, whole and with
\* what ends it, and is the last one handed out; the oldest is given up if there
\* were NBuf already.
Packs(p, text, o, q) ==
  /\ text \in Seq(Token)
  /\ o \in Handed /\ o.at = ibuf * BufLen /\ o.text = text
  /\ ibuf' = IF ibuf + 1 = NBuf THEN 0 ELSE ibuf + 1
  /\ mem' \in [1 .. (NBuf + 1) * BufLen -> Token]
  /\ \A c \in 1 .. (NBuf + 1) * BufLen :
       /\ c - o.at \in 1 .. Len(text) => mem'[c] = text[c - o.at]
       /\ c - o.at \notin 1 .. Len(text) + 1 => mem'[c] = mem[c]
  /\ q = (IF Len(outs) = NBuf THEN 1 ELSE 0)
  /\ outs' \in Seq(Handed) /\ Len(outs') = Len(outs) + 1 - q
  /\ outs'[Len(outs')] = o
  /\ \A i \in 1 .. Len(outs') - 1 : i + q \in 1 .. Len(outs) /\ outs'[i] = outs[i + q]

\* That is what it does.
LEMMA PackingPacks ==
  ASSUME RingOK,
         NEW p \in Protos, OutputCompacted(p)
  PROVE  \E text, o, q : Packs(p, text, o, q)
<1>1. /\ NBuf \in Nat /\ BufLen \in Nat /\ NBuf >= 1
      /\ ibuf \in 0 .. NBuf - 1 /\ outs \in Seq(Handed) /\ Len(outs) \in Nat /\ Len(outs) <= NBuf
      /\ mem \in [1 .. (NBuf + 1) * BufLen -> Token]
  BY BufferAssumption DEF RingOK
<1>2. PICK at \in Nat : at = ibuf * BufLen
  BY BufferInMemory, <1>1
<1>3. PICK line \in Seq(Token) : line = Lines[p]
  <2>1. Lines[p] \in Seq(STRING)
    BY LinesAreTexts
  <2> QED
    BY <2>1, SeqMonotonic DEF Token
<1>4. PICK text \in Seq(Token) : text = Append(line, "\n")
  <2>1. PICK newline \in Token : newline = "\n"
    BY DEF Token
  <2> QED
    BY <2>1, AppendProperties
<1>5. PICK bytes \in Seq(Token) : bytes = Append(text, "end")
  <2>1. PICK end \in Token : end = "end"
    BY DEF Token
  <2> QED
    BY <2>1, AppendProperties
<1>6. /\ Len(text) \in Nat /\ Len(bytes) = Len(text) + 1 /\ DOMAIN bytes = 1 .. Len(text) + 1
      /\ \A i \in 1 .. Len(text) : bytes[i] = text[i]
      /\ \A i \in 1 .. Len(text) + 1 : bytes[i] \in Token
  BY <1>5, AppendProperties
<1>7. PICK o : o = [at |-> at, text |-> text, proto |-> p]
  OBVIOUS
<1>8. o \in Handed /\ o.at = at /\ o.text = text
  BY <1>7 DEF Handed
<1>9. PICK all \in Seq(Handed) : all = Append(outs, o)
  BY <1>1, <1>8, AppendProperties
<1>10. PICK q : q = IF Len(outs) = NBuf THEN 1 ELSE 0
  OBVIOUS
<1>11. /\ ibuf' = Advance(ibuf)
       /\ mem' = [c \in DOMAIN mem |-> IF c - at \in DOMAIN bytes THEN bytes[c - at] ELSE mem[c]]
       /\ outs' = IF Len(all) > NBuf THEN Tail(all) ELSE all
  BY <1>2, <1>3, <1>4, <1>5, <1>7, <1>9 DEF OutputCompacted
<1>12. ibuf' = IF ibuf + 1 = NBuf THEN 0 ELSE ibuf + 1
  BY <1>11 DEF Advance
<1>13. /\ mem' \in [1 .. (NBuf + 1) * BufLen -> Token]
       /\ \A c \in 1 .. (NBuf + 1) * BufLen :
            /\ c - o.at \in 1 .. Len(text) => mem'[c] = text[c - o.at]
            /\ c - o.at \notin 1 .. Len(text) + 1 => mem'[c] = mem[c]
  <2>1. PICK cells : cells = 1 .. (NBuf + 1) * BufLen
    OBVIOUS
  <2>2. cells \subseteq Int
    BY <2>1
  <2>3. mem' = [c \in cells |-> IF c - at \in 1 .. Len(text) + 1 THEN bytes[c - at] ELSE mem[c]]
    BY <1>1, <1>6, <1>11, <2>1
  <2>4. \A c \in cells : (IF c - at \in 1 .. Len(text) + 1 THEN bytes[c - at] ELSE mem[c]) \in Token
    BY <1>6, <1>1, <2>1
  <2>5. mem' \in [cells -> Token]
    BY <2>3, <2>4
  <2>6. ASSUME NEW c \in cells
        PROVE  /\ c - at \in 1 .. Len(text) => mem'[c] = text[c - at]
               /\ c - at \notin 1 .. Len(text) + 1 => mem'[c] = mem[c]
    <3>1. c - at \in 1 .. Len(text) => c - at \in 1 .. Len(text) + 1
      BY <1>6, <2>2
    <3> QED
      BY <3>1, <2>3, <1>6
  <2> QED
    BY <2>1, <2>5, <2>6, <1>8
<1>14. /\ Len(all) = Len(outs) + 1 /\ all[Len(outs) + 1] = o
       /\ \A i \in 1 .. Len(outs) : all[i] = outs[i]
  BY <1>1, <1>8, <1>9, AppendProperties
<1>15. /\ outs' \in Seq(Handed) /\ Len(outs') = Len(outs) + 1 - q
       /\ outs'[Len(outs')] = o
       /\ \A i \in 1 .. Len(outs') - 1 : i + q \in 1 .. Len(outs) /\ outs'[i] = outs[i + q]
  <2>1. CASE Len(outs) = NBuf
    <3>1. q = 1 /\ outs' = Tail(all) /\ all # <<>>
      BY <2>1, <1>1, <1>10, <1>11, <1>14
    <3>2. /\ Tail(all) \in Seq(Handed) /\ Len(Tail(all)) = Len(all) - 1
          /\ \A i \in 1 .. Len(Tail(all)) : Tail(all)[i] = all[i + 1]
      BY <3>1, HeadTailProperties
    <3>3. Len(outs') = Len(outs) /\ outs'[Len(outs')] = o
      BY <3>1, <3>2, <1>14, <1>1, <2>1
    <3>4. ASSUME NEW i \in 1 .. Len(outs') - 1
          PROVE  i + q \in 1 .. Len(outs) /\ outs'[i] = outs[i + q]
      <4>1. i + 1 \in 1 .. Len(outs) /\ i \in 1 .. Len(Tail(all))
        BY <3>1, <3>2, <3>3, <1>1
      <4> QED
        BY <4>1, <3>1, <3>2, <1>14
    <3>5. outs' \in Seq(Handed) /\ Len(outs') = Len(outs) + 1 - q
      BY <3>1, <3>2, <3>3, <1>1
    <3> QED
      BY <3>3, <3>4, <3>5
  <2>2. CASE Len(outs) # NBuf
    <3>1. q = 0 /\ outs' = all
      BY <2>2, <1>1, <1>10, <1>11, <1>14
    <3> QED
      BY <3>1, <1>14, <1>1
  <2> QED
    BY <2>1, <2>2
<1>16. Packs(p, text, o, q)
  BY <1>8, <1>2, <1>12, <1>13, <1>10, <1>15 DEF Packs
<1> QED
  BY <1>16

\* At the beginning nothing has been handed out.
LEMMA RingInit == LineInit => RingInv
<1> SUFFICES ASSUME LineInit PROVE RingInv
  OBVIOUS
<1>1. outs = <<>> /\ outs \in Seq(Handed) /\ Len(outs) = 0 /\ DOMAIN outs = {}
  BY EmptySeq DEF LineInit
<1>2. mem \in [1 .. (NBuf + 1) * BufLen -> Token]
  BY DEF LineInit, Token
<1>3. RingOK
  BY <1>1, <1>2, BufferAssumption DEF LineInit, RingOK
<1> QED
  BY <1>1, <1>3 DEF RingInv, InTurn, RecentIntact

\* The turns: a line of d packings ago is in another buffer than the next line,
\* and is one of d + 1 packings ago after it.
LEMMA Turns ==
  ASSUME ibuf \in 0 .. NBuf - 1,
         ibuf' = IF ibuf + 1 = NBuf THEN 0 ELSE ibuf + 1
  PROVE  /\ ibuf' \in 0 .. NBuf - 1
         /\ Slot(1)' = ibuf
         /\ \A d \in 1 .. NBuf - 1 : /\ Slot(d) \in 0 .. NBuf - 1
                                     /\ Slot(d) # ibuf
                                     /\ Slot(d + 1)' = Slot(d)
<1>1. NBuf \in Nat /\ NBuf >= 1 /\ ibuf \in Nat
  BY BufferAssumption
<1>2. ibuf' \in 0 .. NBuf - 1
  BY <1>1
<1>3. Slot(1)' = IF ibuf' >= 1 THEN ibuf' - 1 ELSE ibuf' - 1 + NBuf
  BY DEF Slot
<1>4. Slot(1)' = ibuf
  BY <1>1, <1>3
<1>5. ASSUME NEW d \in 1 .. NBuf - 1
      PROVE  /\ Slot(d) \in 0 .. NBuf - 1
             /\ Slot(d) # ibuf
             /\ Slot(d + 1)' = Slot(d)
  <2>1. Slot(d + 1)' = IF ibuf' >= d + 1 THEN ibuf' - (d + 1) ELSE ibuf' - (d + 1) + NBuf
    BY DEF Slot
  <2>2. Slot(d) = IF ibuf >= d THEN ibuf - d ELSE ibuf - d + NBuf
    BY DEF Slot
  <2> QED
    BY <1>1, <2>1, <2>2
<1> QED
  BY <1>2, <1>4, <1>5

\* Packing a line leaves each of the others in the buffer whose turn it was.
LEMMA TurnsKept ==
  ASSUME RingInv,
         NEW p, NEW text, NEW o, NEW q, Packs(p, text, o, q)
  PROVE  RingOK' /\ InTurn'
<1>1. /\ ibuf \in 0 .. NBuf - 1 /\ Len(outs) \in Nat /\ Len(outs) <= NBuf /\ NBuf \in Nat
      /\ outs \in Seq(Handed) /\ NBuf >= 1
  BY BufferAssumption DEF RingInv, RingOK
<1>2. /\ q = (IF Len(outs) = NBuf THEN 1 ELSE 0) /\ Len(outs') = Len(outs) + 1 - q
      /\ outs' \in Seq(Handed) /\ outs'[Len(outs')] = o /\ o.at = ibuf * BufLen
      /\ \A i \in 1 .. Len(outs') - 1 : i + q \in 1 .. Len(outs) /\ outs'[i] = outs[i + q]
      /\ mem' \in [1 .. (NBuf + 1) * BufLen -> Token]
      /\ ibuf' = IF ibuf + 1 = NBuf THEN 0 ELSE ibuf + 1
  BY DEF Packs
<1>3. PICK n \in 1 .. NBuf : n = Len(outs')
  BY <1>1, <1>2
<1>4. /\ ibuf' \in 0 .. NBuf - 1
      /\ Slot(1)' = ibuf
      /\ \A d \in 1 .. NBuf - 1 : Slot(d + 1)' = Slot(d)
  BY <1>1, <1>2, Turns
<1>5. RingOK'
  BY <1>1, <1>2, <1>3, <1>4 DEF RingOK
<1>6. ASSUME NEW i \in 1 .. n
      PROVE  (outs[i].at = Slot(Len(outs) - i + 1) * BufLen)'
  <2>1. (outs[i].at = Slot(Len(outs) - i + 1) * BufLen)'
          <=> outs'[i].at = Slot(n - i + 1)' * BufLen
    BY <1>3 DEF Slot
  <2>2. CASE i = n
    <3>1. n - i + 1 = 1
      BY <2>2
    <3>2. Slot(n - i + 1)' = ibuf
      BY <3>1, <1>4
    <3> QED
      BY <2>1, <2>2, <3>2, <1>2, <1>3
  <2>3. CASE i # n
    <3>1. PICK d \in 1 .. NBuf - 1 : d = n - i
      <4>1. n - i \in 1 .. NBuf - 1
        BY <2>3, <1>1, <1>3
      <4> QED
        BY <4>1
    <3>2. i + q \in 1 .. Len(outs) /\ outs'[i] = outs[i + q] /\ Len(outs) - (i + q) + 1 = d
      BY <1>1, <1>2, <1>3, <2>3, <3>1
    <3>3. outs[i + q].at = Slot(d) * BufLen
      BY <3>2, <1>1 DEF RingInv, InTurn
    <3>4. n - i + 1 = d + 1
      BY <3>1
    <3>5. Slot(n - i + 1)' = Slot(d)
      BY <3>4, <1>4
    <3> QED
      BY <2>1, <3>2, <3>3, <3>5
  <2> QED
    BY <2>2, <2>3
<1>7. DOMAIN outs' = 1 .. n
  BY <1>2, <1>3
<1> QED
  BY <1>5, <1>6, <1>7 DEF InTurn

\* The line just packed is in the memory, if it fits.
LEMMA NewLineThere ==
  ASSUME RingInv,
         NEW p, NEW text, NEW o, NEW q, Packs(p, text, o, q), Len(text) + 1 <= BufLen
  PROVE  SubSeq(mem', o.at + 1, o.at + Len(text)) = text
<1>1. /\ o.at = ibuf * BufLen /\ text \in Seq(Token) /\ o.at \in Nat
      /\ mem' \in [1 .. (NBuf + 1) * BufLen -> Token]
      /\ \A c \in 1 .. (NBuf + 1) * BufLen : c - o.at \in 1 .. Len(text) => mem'[c] = text[c - o.at]
  BY DEF Packs, Handed
<1>2. /\ BufLen \in Nat /\ NBuf * BufLen \in Nat
      /\ o.at + BufLen <= NBuf * BufLen
      /\ (NBuf + 1) * BufLen = NBuf * BufLen + BufLen
  BY <1>1, BufferInMemory, BufferAssumption DEF RingInv, RingOK
<1>3. PICK a \in Nat : a = o.at
  BY <1>1
<1>4. PICK l \in Nat : l = Len(text)
  BY <1>1
<1>5. PICK m \in Nat : m = (NBuf + 1) * BufLen
  BY <1>2
<1>6. a + l <= m
  BY <1>2, <1>3, <1>4, <1>5
<1>7. \A k \in 1 .. l : mem'[a + k] = text[k]
  <2> TAKE k \in 1 .. l
  <2>1. a + k \in 1 .. m /\ a + k - a = k
    BY <1>6
  <2>2. PICK c \in 1 .. m : c = a + k /\ c - a = k
    BY <2>1
  <2>3. c - a \in 1 .. l => mem'[c] = text[c - a]
    BY <1>1, <1>3, <1>4, <1>5
  <2> QED
    BY <2>2, <2>3
<1> QED
  BY <1>1, <1>3, <1>4, <1>5, <1>6, <1>7, ReadsText

\* A line of another buffer is not touched, if both fit.
LEMMA OtherLineThere ==
  ASSUME RingInv,
         NEW p, NEW text, NEW o, NEW q, Packs(p, text, o, q), Len(text) + 1 <= BufLen,
         NEW r \in Handed, Len(r.text) + 1 <= BufLen,
         NEW s \in 0 .. NBuf - 1, r.at = s * BufLen, s # ibuf,
         SubSeq(mem, r.at + 1, r.at + Len(r.text)) = r.text
  PROVE  SubSeq(mem', r.at + 1, r.at + Len(r.text)) = r.text
<1>1. /\ o.at = ibuf * BufLen /\ text \in Seq(Token) /\ o.at \in Nat
      /\ mem' \in [1 .. (NBuf + 1) * BufLen -> Token]
      /\ \A c \in 1 .. (NBuf + 1) * BufLen : c - o.at \notin 1 .. Len(text) + 1 => mem'[c] = mem[c]
      /\ mem \in [1 .. (NBuf + 1) * BufLen -> Token]
      /\ ibuf \in 0 .. NBuf - 1
  BY DEF Packs, Handed, RingInv, RingOK
<1>2. PICK t \in Seq(Token) : t = r.text
  BY DEF Handed
<1>3. PICK b \in Nat : b = r.at
  BY DEF Handed
<1>4. PICK a \in Nat : a = o.at
  BY <1>1
<1>5. PICK l \in Nat : l = Len(t)
  BY <1>2
<1>6. PICK w \in Nat : w = BufLen
  BY BufferAssumption
<1>7. PICK m \in Nat : m = (NBuf + 1) * BufLen /\ b + w <= m
  BY <1>3, <1>6, BufferInMemory
<1>8. l + 1 <= w /\ Len(text) \in Nat /\ Len(text) + 1 <= w
  BY <1>1, <1>2, <1>5, <1>6
<1>9. b + w <= a \/ a + w <= b
  <2>1. s \in Nat /\ ibuf \in Nat /\ BufLen \in Nat
    BY <1>1, <1>6
  <2>2. CASE s < ibuf
    BY <2>1, <2>2, <1>1, <1>3, <1>4, <1>6, BuffersApart
  <2>3. CASE ibuf < s
    BY <2>1, <2>3, <1>1, <1>3, <1>4, <1>6, BuffersApart
  <2> QED
    BY <2>1, <2>2, <2>3
<1>10. \A k \in 1 .. l : mem'[b + k] = mem[b + k]
  <2> TAKE k \in 1 .. l
  <2>1. b + k \in 1 .. m /\ b + k - a \notin 1 .. Len(text) + 1
    BY <1>7, <1>8, <1>9
  <2> QED
    BY <2>1, <1>1, <1>4, <1>7
<1>11. b + l <= m
  BY <1>7, <1>8
<1>12. SubSeq(mem, b + 1, b + Len(t)) = t <=> \A k \in 1 .. Len(t) : mem[b + k] = t[k]
  BY <1>1, <1>5, <1>7, <1>11, ReadsText
<1>13. SubSeq(mem', b + 1, b + Len(t)) = t <=> \A k \in 1 .. Len(t) : mem'[b + k] = t[k]
  BY <1>1, <1>5, <1>7, <1>11, ReadsText
<1> QED
  BY <1>2, <1>3, <1>5, <1>10, <1>12, <1>13

\* Packing a line keeps the ring in order.
LEMMA RingNext == RingInv /\ [LineNext]_lineVars => RingInv'
<1> SUFFICES ASSUME RingInv, [LineNext]_lineVars
             PROVE  RingInv'
  OBVIOUS
<1>1. CASE UNCHANGED lineVars
  <2>1. mem' = mem /\ ibuf' = ibuf /\ outs' = outs
    BY <1>1 DEF lineVars
  <2> QED
    BY <2>1 DEF RingInv, RingOK, InTurn, Slot, RecentIntact, InMemory, Fits
<1>2. CASE LineNext
  <2>1. PICK p \in Protos : OutputCompacted(p)
    BY <1>2 DEF LineNext
  <2>2. PICK text, o, q : Packs(p, text, o, q)
    BY <2>1, PackingPacks DEF RingInv
  <2>3. RingOK' /\ InTurn'
    BY <2>2, TurnsKept
  <2>4. /\ ibuf \in 0 .. NBuf - 1 /\ Len(outs) \in Nat /\ Len(outs) <= NBuf /\ NBuf \in Nat
        /\ outs \in Seq(Handed) /\ NBuf >= 1
    BY BufferAssumption DEF RingInv, RingOK
  <2>5. /\ q = (IF Len(outs) = NBuf THEN 1 ELSE 0) /\ Len(outs') = Len(outs) + 1 - q
        /\ outs' \in Seq(Handed) /\ outs'[Len(outs')] = o /\ o.text = text
        /\ \A i \in 1 .. Len(outs') - 1 : i + q \in 1 .. Len(outs) /\ outs'[i] = outs[i + q]
        /\ ibuf' = IF ibuf + 1 = NBuf THEN 0 ELSE ibuf + 1
    BY <2>2 DEF Packs
  <2>6. PICK n \in 1 .. NBuf : n = Len(outs') /\ DOMAIN outs' = 1 .. n
    BY <2>4, <2>5
  <2>7. ASSUME NEW i \in 1 .. n, \A j \in i .. n : Len(outs'[j].text) + 1 <= BufLen
        PROVE  SubSeq(mem', outs'[i].at + 1, outs'[i].at + Len(outs'[i].text)) = outs'[i].text
    <3>1. Len(text) + 1 <= BufLen
      BY <2>5, <2>6, <2>7
    <3>2. CASE i = n
      BY <3>1, <3>2, <2>2, <2>5, <2>6, NewLineThere
    <3>3. CASE i # n
      <4>0. PICK len \in Nat : len = Len(outs) /\ n = len + 1 - q /\ q \in {0, 1}
        BY <2>4, <2>5, <2>6
      <4>1. PICK k \in 1 .. len : k = i + q /\ outs'[i] = outs[k]
        <5>1. i \in 1 .. Len(outs') - 1
          BY <3>3, <2>6
        <5> QED
          BY <5>1, <4>0, <2>5
      <4>2. PICK r \in Handed : r = outs[k] /\ r = outs'[i]
        BY <4>0, <4>1, <2>4, ElementOfSeq
      <4>3. PICK d \in 1 .. NBuf - 1 : d = n - i /\ d = len - k + 1
        <5>1. n - i \in 1 .. NBuf - 1 /\ n - i = len - k + 1
          BY <4>0, <4>1, <3>3, <2>4
        <5> QED
          BY <5>1
      <4>4. Slot(d) \in 0 .. NBuf - 1 /\ Slot(d) # ibuf
        BY <2>4, <2>5, Turns
      <4>5. r.at = Slot(d) * BufLen
        <5>1. k \in DOMAIN outs
          BY <4>0, <2>4
        <5>2. outs[k].at = Slot(Len(outs) - k + 1) * BufLen
          BY <5>1 DEF RingInv, InTurn
        <5> QED
          BY <5>2, <4>0, <4>2, <4>3
      <4>6. ASSUME NEW j \in k .. len
            PROVE  Len(outs[j].text) + 1 <= BufLen
        <5>1. PICK e \in i .. n - 1 : e = j - q
          BY <4>0, <4>1
        <5>2. e + q = j /\ e \in 1 .. Len(outs') - 1 /\ e \in i .. n
          BY <5>1, <4>0, <2>6
        <5>3. outs'[e] = outs[e + q]
          BY <5>2, <2>5
        <5> QED
          BY <5>2, <5>3, <2>7
      <4>7. SubSeq(mem, r.at + 1, r.at + Len(r.text)) = r.text
        <5>1. k \in DOMAIN outs
          BY <4>0, <2>4
        <5>2. (\A j \in k .. Len(outs) : Fits(outs[j]))
                => InMemory(outs[k]) = outs[k].text
          BY <5>1 DEF RingInv, RecentIntact
        <5>3. \A j \in k .. Len(outs) : Fits(outs[j])
          BY <4>0, <4>6 DEF Fits
        <5> QED
          BY <5>2, <5>3, <4>2 DEF InMemory
      <4>8. Len(r.text) + 1 <= BufLen
        <5>1. k \in k .. len
          BY <4>0
        <5> QED
          BY <5>1, <4>2, <4>6
      <4> QED
        BY <4>2, <4>4, <4>5, <4>7, <4>8, <3>1, <2>2, OtherLineThere
    <3> QED
      BY <3>2, <3>3
  <2>8. RecentIntact'
    BY <2>6, <2>7 DEF RecentIntact, InMemory, Fits
  <2> QED
    BY <2>3, <2>8 DEF RingInv
<1> QED
  BY <1>1, <1>2

\* A line handed out is safe, without the lock, until NBuf - 1 more are packed, if
\* it and those are no longer than a buffer.
THEOREM RecentLinesIntact == LineSpec => []RecentIntact
<1>1. LineInit => RingInv
  BY RingInit
<1>2. RingInv /\ [LineNext]_lineVars => RingInv'
  BY RingNext
<1>3. RingInv => RecentIntact
  BY DEF RingInv
<1> QED
  BY <1>1, <1>2, <1>3, PTL DEF LineSpec
================================================================================
