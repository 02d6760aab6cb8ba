---------------------------------- MODULE GLog ---------------------------------
(***************************************************************************)
(* src/src/GLog.{h,cpp}: the log of the program.  Every thread writes to   *)
(* it, one file a day; a thread of its own brings what stdio still holds   *)
(* to the disk once the log has been quiet for more than a second.         *)
(*                                                                         *)
(* Write and the body of thread_cycle hold mtx_, so each is one step, but  *)
(* for the time between the wake-up of the thread and the end of its test. *)
(* Time: now is the local clock in seconds.  It can be set, as NTPClient   *)
(* does; the time the log has been quiet goes on all the same.             *)
(*                                                                         *)
(* Left out: the text of the entries, and a log that is stdout or stderr,  *)
(* which the program does not use.                                         *)
(***************************************************************************)
EXTENDS Integers

CONSTANTS DaySecs,     \* length of a day, in seconds
          MonthDays,   \* length of a month, in days
          BufLines,    \* lines that fit in the buffer of stdio
          MaxTime,     \* bound on the clock
          SetsBack,    \* bound on the times the clock is set back
          NoFile       \* fd_ == NULL

ASSUME ClockAssumption ==
  /\ DaySecs \in Nat \ {0} /\ MonthDays \in Nat \ {0}
  /\ MaxTime \in Nat /\ SetsBack \in Nat
ASSUME BufAssumption == BufLines \in Nat /\ BufLines >= 2
ASSUME NoFileAssumption == NoFile \notin Nat

VARIABLES
  now,      \* the local clock
  sets,     \* how often it was set back
  day,      \* day_, -1 at first
  fd,       \* the date of the file fd_ is, or NoFile
  cached,   \* bytecache_ > 0
  last,     \* tmlast_
  buf,      \* lines in the buffer of stdio
  quiet,    \* time since the last of them was written, however the clock is set
  cyc,      \* thread_cycle: "none", "sleep", "test", "ended"
  nap,      \* what is left of its sleep
  stop,     \* ~GLog: "no", "interrupt", "done"
  crashed   \* the process has died

file   == <<day, fd>>
buffer == <<cached, last, buf, quiet>>
cycle  == <<cyc, nap>>
clock  == <<now, sets>>
vars == <<clock, file, buffer, cycle, stop, crashed>>

Date(t) == t \div DaySecs
DayOf(date) == date % MonthDays          \* date.day()

Init ==
  /\ now \in 0 .. DaySecs - 1 /\ sets = 0
  /\ day = -1 /\ fd = NoFile
  /\ cached = FALSE /\ last = 0
  /\ buf = 0 /\ quiet = 0
  /\ cyc = "none" /\ nap = 0
  /\ stop = "no" /\ crashed = FALSE

-----------------------------------------------------------------------------
(* Write and valid_file. *)

\* Is the file open the one of today, as far as valid_file can tell?
IsValid == day = DayOf(Date(now)) /\ fd # NoFile

\* mtx_ is free, and the log is not being destroyed.
CanWrite == cyc # "test" /\ stop = "no"

\* n lines more; stdio writes its buffer out when it is full.
Buffered(n) ==
  /\ buf' = IF buf + n <= BufLines THEN buf + n ELSE n
  /\ quiet' = 0

Write ==
  /\ CanWrite /\ IsValid
  /\ Buffered(1)
  /\ cached' = TRUE /\ last' = now
  /\ UNCHANGED <<clock, file, cycle, stop, crashed>>

\* Mutant: the open file is kept if there is one.
WriteOpensOnce ==
  /\ CanWrite /\ ~IsValid
  /\ day' = DayOf(Date(now))
  /\ fd' = IF fd = NoFile THEN Date(now) ELSE fd
  /\ buf' = 2 /\ quiet' = 0
  /\ cached' = TRUE /\ last' = now
  /\ IF cyc = "none" THEN cyc' = "sleep" /\ nap' = 1 ELSE UNCHANGED cycle
  /\ UNCHANGED <<clock, stop, crashed>>

\* Another day, or no file yet: what was open is closed and the file of the
\* date is opened, with its first line.  The first one starts the thread.
WriteOpens ==
  /\ CanWrite /\ ~IsValid
  /\ day' = DayOf(Date(now)) /\ fd' = Date(now)
  /\ buf' = 2 /\ quiet' = 0
  /\ cached' = TRUE /\ last' = now
  /\ IF cyc = "none" THEN cyc' = "sleep" /\ nap' = 1 ELSE UNCHANGED cycle
  /\ UNCHANGED <<clock, stop, crashed>>

\* The directory cannot be written: the entry is dropped, the next tries again.
WriteDropped ==
  /\ CanWrite /\ ~IsValid
  /\ day' = DayOf(Date(now)) /\ fd' = NoFile
  /\ buf' = 0 /\ quiet' = 0
  /\ UNCHANGED <<clock, cached, last, cycle, stop, crashed>>

\* The directory can, but fopen fails: fprintf is given NULL.
WriteCrashes ==
  /\ CanWrite /\ ~IsValid
  /\ crashed' = TRUE
  /\ UNCHANGED <<clock, file, buffer, cycle, stop>>

-----------------------------------------------------------------------------
(* thread_cycle. *)

CycleWakes ==
  /\ cyc = "sleep" /\ nap = 0
  /\ cyc' = "test"
  /\ UNCHANGED <<clock, file, buffer, nap, stop, crashed>>

\* Mutant: bytecache_ is cleared behind the test, whatever it said.
CycleClears ==
  /\ cyc = "test"
  /\ IF cached /\ now - last > 1
       THEN buf' = 0 /\ quiet' = 0
       ELSE UNCHANGED <<buf, quiet>>
  /\ cached' = FALSE
  /\ cyc' = "sleep" /\ nap' = 1
  /\ UNCHANGED <<clock, file, last, stop, crashed>>

\* fflush, of every stream if fd_ is NULL.
CycleFlushes ==
  /\ cyc = "test"
  /\ IF cached /\ now - last > 1
       THEN buf' = 0 /\ quiet' = 0 /\ cached' = FALSE
       ELSE UNCHANGED <<buf, quiet, cached>>
  /\ cyc' = "sleep" /\ nap' = 1
  /\ UNCHANGED <<clock, file, last, stop, crashed>>

\* Mutant: the loop catches the interruption and goes on.
CycleInterruptedGoesOn ==
  /\ cyc = "sleep" /\ stop = "interrupt"
  /\ nap > 0 /\ nap' = 0
  /\ UNCHANGED <<clock, file, buffer, cyc, stop, crashed>>

\* Its sleep is the only point where it can be interrupted.
CycleInterrupted ==
  /\ cyc = "sleep" /\ stop = "interrupt"
  /\ cyc' = "ended"
  /\ UNCHANGED <<clock, file, buffer, nap, stop, crashed>>

-----------------------------------------------------------------------------
(* ~GLog. *)

Interrupt ==
  /\ stop = "no"
  /\ stop' = "interrupt"
  /\ UNCHANGED <<clock, file, buffer, cycle, crashed>>

\* The thread is joined, if there is one, then the file is closed.
Joined ==
  /\ stop = "interrupt" /\ cyc \in {"none", "ended"}
  /\ stop' = "done"
  /\ fd' = NoFile /\ buf' = 0 /\ quiet' = 0
  /\ UNCHANGED <<clock, day, cached, last, cycle, crashed>>

-----------------------------------------------------------------------------
(* Time. *)

\* A second passes; the steps of the threads and the destructor take none.
Tick ==
  /\ now < MaxTime /\ stop = "no"
  /\ cyc = "sleep" => nap > 0
  /\ cyc # "test"
  /\ now' = now + 1
  /\ nap' = IF cyc = "sleep" THEN nap - 1 ELSE nap
  /\ quiet' = IF buf = 0 THEN 0 ELSE quiet + 1
  /\ UNCHANGED <<sets, file, cached, last, buf, cyc, stop, crashed>>

\* Somebody sets the clock back.
SetClock ==
  /\ sets < SetsBack /\ now > 0
  /\ sets' = sets + 1
  /\ now' = now - 1
  /\ UNCHANGED <<file, buffer, cycle, stop, crashed>>

-----------------------------------------------------------------------------

Writers == Write \/ WriteOpens \/ WriteDropped \/ WriteCrashes
Cycle == CycleWakes \/ CycleFlushes \/ CycleInterrupted

Next ==
  /\ ~crashed
  /\ Writers \/ Cycle \/ Interrupt \/ Joined \/ Tick \/ SetClock

Spec == Init /\ [][Next]_vars

\* The thread runs and a destruction that has begun goes on.
Fairness ==
  /\ WF_vars(~crashed /\ Cycle)
  /\ WF_vars(~crashed /\ Joined)

FairSpec == Spec /\ Fairness

-----------------------------------------------------------------------------
(* Properties. *)

\* A file that holds the entries of its own day gets no entry of another ("when
\* the date changes the file is created anew", GLog.h:40), whatever the clock does
\* and whatever could not be opened, with one exception that valid_file, which
\* compares days of the month, cannot tell: the log was silent since the same day
\* of another month.
InOwnFile == fd # NoFile => fd = Date(last)
SilentForMonths == Date(last) # Date(now) /\ DayOf(Date(last)) = DayOf(Date(now))
EntryInOwnDay == [][InOwnFile /\ ~SilentForMonths => InOwnFile']_vars

\* A log that has gone quiet is on the disk within two seconds: GLog.h:11 says one,
\* the test of GLog.cpp:74 is for more than one and is made once a second.  Only the
\* clock set back can make that later, by as much, for the test subtracts two
\* readings of it.  Of a busy log nothing can be said: the 1 KB of GLog.h:11, beyond
\* which it would be written too, is nowhere in the code, and stdio decides.
QuietIsFlushed == buf > 0 => quiet <= 2 + sets

\* ~GLog returns: it holds no lock while it joins the thread.
DestructionEnds == stop = "interrupt" ~> (stop = "done" \/ crashed)
================================================================================
