--------------------------- MODULE FileWritterProofs ---------------------------
(***************************************************************************)
(* What is proved of FileWritter for any connections and any files: its    *)
(* types, and that thread_monitor ends only after five failed saves.  And  *)
(* for any files of one connection, that no accepted file is lost.         *)
(***************************************************************************)
EXTENDS FileWritter, SequenceTheorems, TLAPS

(* Types. *)

\* TypeOK is not inductive: that Write puts a file on disk, and PushConstruct
\* a file in the deque, needs to know where ptr and arg hold one.
TypeInv ==
  /\ TypeOK
  /\ mon \in {"write", "register", "pop"} => ptr \in Files
  /\ \A r \in Receivers : push[r] # "idle" => arg[r] \in Files

\* thread_monitor and the destructor keep the types.
LEMMA MonitorTypes ==
  TypeInv /\ (Monitor \/ SpuriousWakeup \/ Interrupt \/ Joined) => TypeInv'
<1> SUFFICES ASSUME TypeInv, Monitor \/ SpuriousWakeup \/ Interrupt \/ Joined
             PROVE  TypeInv'
  OBVIOUS
<1> USE DEF TypeInv, TypeOK, MonitorAt, deque, pushers
<1>1. CASE MonitorStart
  BY <1>1 DEF MonitorStart
<1>2. CASE GiveUp
  BY <1>2 DEF GiveUp
<1>3. CASE TestEmpty
  BY <1>3 DEF TestEmpty
<1>4. CASE EnterWait
  BY <1>4 DEF EnterWait
<1>5. CASE TestFailed
  BY <1>5 DEF TestFailed, LoopGoes, ErrLimit
<1>6. CASE SleepEnds
  BY <1>6 DEF SleepEnds
<1>7. CASE TestCleared
  BY <1>7 DEF TestCleared, ErrLimit, HistoryCap
<1>8. CASE Front
  <2>1. CASE first <= Len(mem)
    <3>1. mem[first] \in Files
      BY <2>1
    <3> QED
      BY <1>8, <2>1, <3>1 DEF Front
  <2>2. CASE first > Len(mem)
    <3>1. crashed' = TRUE /\ UNCHANGED <<ptr, mon>>
      BY <1>8, <2>2 DEF Front, Crash
    <3> QED
      BY <1>8, <3>1 DEF Front
  <2> QED
    BY <2>1, <2>2
<1>9. CASE SaveFails
  <2>1. sinceClear' \in 0 .. HistoryCap
    BY <1>9 DEF SaveFails, Failed, Bump, HistoryCap, ErrLimit
  <2> QED
    BY <1>9, <2>1 DEF SaveFails, Failed
<1>10. CASE SaveThrows
  BY <1>10 DEF SaveThrows, Crash
<1>11. CASE Write
  BY <1>11 DEF Write
<1>12. CASE Register
  BY <1>12 DEF Register
<1>13. CASE PopFront
  BY <1>13 DEF PopFront, HistoryCap, ErrLimit
<1>14. CASE Interrupted
  BY <1>14 DEF Interrupted
<1>15. CASE SpuriousWakeup
  BY <1>15 DEF SpuriousWakeup
<1>16. CASE Interrupt
  BY <1>16 DEF Interrupt
<1>17. CASE Joined
  BY <1>17 DEF Joined
<1> QED
  BY <1>1, <1>2, <1>3, <1>4, <1>5, <1>6, <1>7, <1>8, <1>9, <1>10, <1>11, <1>12,
     <1>13, <1>14, <1>15, <1>16, <1>17 DEF Monitor

\* NewFile keeps the types.
LEMMA PushTypes ==
  ASSUME NEW r \in Receivers, TypeInv,
         PushBack(r) \/ \E f \in Files : NewFile(r, f)
  PROVE  TypeInv'
<1> USE DEF TypeInv, TypeOK, MonitorAt, deque, pushers
<1>1. ASSUME NEW f \in Files, NewFile(r, f)
      PROVE  TypeInv'
  <2>1. push' \in [Receivers -> {"idle", "construct", "commit", "notify"}]
    BY <1>1 DEF NewFile
  <2>2. arg' \in [Receivers -> Files \cup {NoFile}]
    BY <1>1 DEF NewFile
  <2>3. \A p \in Receivers : push'[p] # "idle" => arg'[p] \in Files
    BY <1>1 DEF NewFile
  <2>4. offered' \in SUBSET Files /\ rejected' \in SUBSET Files
    BY <1>1 DEF NewFile
  <2> QED
    BY <1>1, <2>1, <2>2, <2>3, <2>4 DEF NewFile
<1>2. CASE PushConstruct(r)
  <2>1. mem' \in Seq(Files)
    BY <1>2 DEF PushConstruct
  <2> QED
    BY <1>2, <2>1 DEF PushConstruct
<1>3. CASE PushCommit(r)
  BY <1>3 DEF PushCommit
<1>4. CASE Notify(r)
  BY <1>4 DEF Notify
<1> QED
  BY <1>1, <1>2, <1>3, <1>4 DEF PushBack

\* Initially the types are right.
LEMMA InitTypes == Init => TypeInv
<1> SUFFICES ASSUME Init PROVE TypeInv
  OBVIOUS
<1> USE DEF Init
<1>1. running \in BOOLEAN /\ rslt \in BOOLEAN /\ crashed \in BOOLEAN
  OBVIOUS
<1>2. mon \in MonitorAt /\ ptr \in Files \cup {NoFile}
  BY DEF MonitorAt
<1>3. errcnt \in 0 .. ErrLimit /\ sinceClear \in 0 .. HistoryCap
  BY DEF ErrLimit, HistoryCap
<1>4. mem \in Seq(Files) /\ disk \in Seq([file : Files, whole : BOOLEAN])
  OBVIOUS
<1>5. /\ push \in [Receivers -> {"idle", "construct", "commit", "notify"}]
      /\ arg \in [Receivers -> Files \cup {NoFile}]
      /\ at \in [Receivers -> Nat]
  OBVIOUS
<1> QED
  BY <1>1, <1>2, <1>3, <1>4, <1>5 DEF TypeInv, TypeOK

\* Every step keeps them.
LEMMA NextTypes == TypeInv /\ [Next]_vars => TypeInv'
<1>1. CASE UNCHANGED vars
  BY <1>1 DEF vars, deque, pushers, TypeInv, TypeOK, MonitorAt
<1> QED
  BY <1>1, MonitorTypes, PushTypes DEF Next

\* Type correctness, for any number of connections and files: in particular
\* errcnt never exceeds its limit, though it is counted in one place, tested in
\* another and cleared in a third.
THEOREM TypeCorrect == Spec => []TypeOK
<1>1. TypeInv => TypeOK
  BY DEF TypeInv
<1> QED
  BY <1>1, InitTypes, NextTypes, PTL DEF Spec

-----------------------------------------------------------------------------
(* The end of the monitor. *)

\* Where the monitor is about to count a failure there is one it has not
\* counted yet: between the save and the test rslt carries it.
CountInv ==
  /\ errcnt <= sinceClear
  /\ mon = "start" => rslt = TRUE
  /\ mon = "test" => rslt = TRUE \/ errcnt < sinceClear
  /\ mon = "ended" => errcnt >= ErrLimit

\* thread_monitor gives up only after five failed saves since the count was last
\* cleared, whatever the connections, the notifications and the disk do.
THEOREM GivesUpLate == Spec => []GiveUpOnlyAfterFiveFailures
<1>1. Init => CountInv
  BY DEF Init, CountInv, ErrLimit
<1>2. TypeOK /\ CountInv /\ [Next]_vars => CountInv'
  <2> SUFFICES ASSUME TypeOK, CountInv, [Next]_vars
               PROVE  CountInv'
    OBVIOUS
  <2> USE DEF TypeOK, CountInv, ErrLimit, HistoryCap
  <2>1. CASE UNCHANGED vars
    BY <2>1 DEF vars
  <2>2. ASSUME NEW r \in Receivers, NEW f \in Files, NewFile(r, f)
        PROVE  CountInv'
    BY <2>2 DEF NewFile
  <2>3. ASSUME NEW r \in Receivers, PushBack(r)
        PROVE  CountInv'
    BY <2>3 DEF PushBack, PushConstruct, PushCommit, Notify
  <2>4. CASE SpuriousWakeup
    BY <2>4 DEF SpuriousWakeup
  <2>5. CASE Interrupt
    BY <2>5 DEF Interrupt
  <2>6. CASE Joined
    BY <2>6 DEF Joined
  <2>7. CASE Monitor
    <3>1. CASE MonitorStart
      BY <3>1 DEF MonitorStart
    <3>2. CASE TestEmpty \/ EnterWait \/ SleepEnds \/ Front
                 \/ SaveThrows \/ Write \/ Register \/ Interrupted
      <4>1. UNCHANGED <<errcnt, sinceClear, rslt>>
        BY <3>2 DEF TestEmpty, EnterWait, SleepEnds, Front,
                    SaveThrows, Write, Register, Interrupted
      <4>2. mon' = mon \/ mon' \notin {"start", "test", "ended"}
        BY <3>2 DEF TestEmpty, EnterWait, SleepEnds, Front,
                    SaveThrows, Write, Register, Interrupted
      <4> QED
        BY <4>1, <4>2
    <3>3. CASE GiveUp
      BY <3>3 DEF GiveUp, LoopGoes
    <3>4. CASE TestFailed
      BY <3>4 DEF TestFailed, LoopGoes
    <3>5. CASE TestCleared
      BY <3>5 DEF TestCleared
    <3>6. CASE SaveFails
      BY <3>6 DEF SaveFails, Failed, Bump
    <3>7. CASE PopFront
      BY <3>7 DEF PopFront
    <3> QED
      BY <2>7, <3>1, <3>2, <3>3, <3>4, <3>5, <3>6, <3>7 DEF Monitor
  <2> QED
    BY <2>1, <2>2, <2>3, <2>4, <2>5, <2>6, <2>7 DEF Next
<1>3. TypeOK /\ CountInv => GiveUpOnlyAfterFiveFailures
  BY DEF TypeOK, CountInv, GiveUpOnlyAfterFiveFailures, ErrLimit, HistoryCap
<1> QED
  BY <1>1, <1>2, <1>3, TypeCorrect, PTL DEF Spec
-----------------------------------------------------------------------------
(* No file of a single connection is lost. *)

\* The deque, the disk and NewFile together.  mem holds the queued files and,
\* between the two halves of a push_back, one more; disk is what thread_monitor
\* took from its head, in the same order.  OnItsWay is why nothing is lost: an
\* accepted file is about to be pushed or has a cell.
DequeInv ==
  /\ \A r \in Receivers :
       IF push[r] = "commit"
         THEN Len(mem) = last /\ at[r] = last /\ mem[last] = arg[r]
         ELSE Len(mem) = last - 1
  /\ \A r \in Receivers : stop # "no" => push[r] = "idle"
  /\ stop = "done" => mon \in {"ended", "interrupted"}

DiskInv ==
  /\ Len(disk) <= Len(mem)
  /\ \A i \in 1 .. Len(disk) : disk[i].file = mem[i]
  /\ stop # "done" => Len(disk) = IF mon \in {"register", "pop"} THEN first
                                                                ELSE first - 1
  /\ mon = "write" => first <= Len(mem) /\ ptr = mem[first]

OnItsWay ==
  \A f \in offered \ rejected :
    \/ \E r \in Receivers : arg[r] = f /\ push[r] \in {"construct", "commit"}
    \/ \E i \in 1 .. last - 1 : mem[i] = f

LossInv == DequeInv /\ DiskInv /\ OnItsWay

\* thread_monitor and the destructor leave the cells and the end of the deque
\* alone, and write what they find at its head.
LEMMA MonitorKeepsFiles ==
  ASSUME TypeInv, LossInv, Monitor \/ SpuriousWakeup \/ Interrupt \/ Joined
  PROVE  LossInv'
<1> USE DEF TypeInv, TypeOK, LossInv, deque, pushers
<1>1. DequeInv'
  <2>1. UNCHANGED <<mem, last, push, arg, at>>
    BY DEF Monitor, MonitorStart, GiveUp, TestEmpty, EnterWait, TestFailed,
           SleepEnds, TestCleared, Front, SaveFails, Failed, SaveThrows, Write,
           Register, PopFront, Interrupted, SpuriousWakeup, Interrupt, Joined
  <2>2. /\ stop' # "no" => \A r \in Receivers : push[r] = "idle"
        /\ stop' = "done" => mon' \in {"ended", "interrupted"}
    BY DEF DequeInv, Monitor, MonitorStart, GiveUp, TestEmpty, EnterWait,
           TestFailed, SleepEnds, TestCleared, Front, SaveFails, Failed,
           SaveThrows, Write, Register, PopFront, Interrupted, SpuriousWakeup,
           Interrupt, Joined
  <2> QED
    BY <2>1, <2>2 DEF DequeInv
<1>2. OnItsWay'
  <2>1. UNCHANGED <<mem, last, push, arg, offered, rejected>>
    BY DEF Monitor, MonitorStart, GiveUp, TestEmpty, EnterWait, TestFailed,
           SleepEnds, TestCleared, Front, SaveFails, Failed, SaveThrows, Write,
           Register, PopFront, Interrupted, SpuriousWakeup, Interrupt, Joined
  <2> QED
    BY <2>1 DEF OnItsWay
<1>3. DiskInv'
  <2>1. CASE MonitorStart \/ GiveUp \/ TestEmpty \/ EnterWait \/ TestFailed
               \/ SleepEnds \/ TestCleared \/ SaveFails \/ Interrupted
               \/ SpuriousWakeup
    <3>1. /\ UNCHANGED <<mem, first, disk, stop>>
          /\ mon \notin {"register", "pop"} /\ mon' \notin {"write", "register", "pop"}
      BY <2>1 DEF MonitorStart, GiveUp, TestEmpty, EnterWait, TestFailed,
                  SleepEnds, TestCleared, SaveFails, Failed, Interrupted,
                  SpuriousWakeup
    <3> QED
      BY <3>1 DEF DiskInv
  <2>2. CASE SaveThrows \/ Interrupt
    BY <2>2 DEF SaveThrows, Interrupt, DiskInv
  <2>3. CASE Front
    BY <2>3 DEF Front, DiskInv
  <2>4. CASE Write
    <3>1. /\ mon = "write" /\ mon' = "register"
          /\ UNCHANGED <<mem, first, stop, ptr>>
          /\ \E whole \in BOOLEAN : disk' = Append(disk, [file |-> ptr, whole |-> whole])
      BY <2>4 DEF Write
    <3>2. stop # "done"
      BY <3>1 DEF DequeInv
    <3>3. Len(disk) = first - 1 /\ first <= Len(mem) /\ ptr = mem[first]
      BY <3>1, <3>2 DEF DiskInv
    <3>4. PICK whole \in BOOLEAN : disk' = Append(disk, [file |-> ptr, whole |-> whole])
      BY <3>1
    <3>5. Len(disk') = first /\ disk'[first].file = ptr
          /\ \A i \in 1 .. Len(disk) : disk'[i] = disk[i]
      BY <3>3, <3>4
    <3> QED
      BY <3>1, <3>3, <3>5 DEF DiskInv
  <2>5. CASE Register
    BY <2>5 DEF Register, DiskInv
  <2>6. CASE PopFront
    BY <2>6 DEF PopFront, DiskInv, DequeInv
  <2>7. CASE Joined
    BY <2>7 DEF Joined, DiskInv
  <2> QED
    BY <2>1, <2>2, <2>3, <2>4, <2>5, <2>6, <2>7 DEF Monitor
<1> QED
  BY <1>1, <1>2, <1>3

\* NewFile of the only connection: each half of push_back finds the deque as the
\* other half left it.
LEMMA PushKeepsFiles ==
  ASSUME NEW r \in Receivers, Receivers = {r}, TypeInv, LossInv,
         PushBack(r) \/ \E f \in Files : NewFile(r, f)
  PROVE  LossInv'
<1> USE DEF TypeInv, TypeOK, LossInv, deque, pushers
<1>1. ASSUME NEW f \in Files, NewFile(r, f)
      PROVE  LossInv'
  <2>1. push[r] = "idle" /\ push'[r] \in {"idle", "construct"} /\ stop = "no"
        /\ UNCHANGED <<mem, first, last, at, disk, stop, mon, ptr>>
    BY <1>1 DEF NewFile
  <2>2. DequeInv' /\ DiskInv'
    BY <2>1 DEF DequeInv, DiskInv
  <2>3. OnItsWay'
    BY <1>1, <2>1 DEF NewFile, OnItsWay
  <2> QED
    BY <2>2, <2>3
<1>2. CASE PushConstruct(r)
  <2>1. /\ push[r] = "construct" /\ push' = [push EXCEPT ![r] = "commit"]
        /\ at' = [at EXCEPT ![r] = last]
        /\ UNCHANGED <<first, last, arg, offered, rejected, disk, stop, mon, ptr>>
    BY <1>2 DEF PushConstruct
  <2>2. Len(mem) = last - 1
    BY <2>1 DEF DequeInv
  <2>3. mem' = Append(mem, arg[r])
    BY <1>2, <2>2 DEF PushConstruct
  <2>4. Len(mem') = last /\ mem'[last] = arg[r]
        /\ \A i \in 1 .. Len(mem) : mem'[i] = mem[i]
    BY <2>2, <2>3
  <2>5. DequeInv'
    BY <2>1, <2>4 DEF DequeInv
  <2>6. DiskInv'
    BY <2>1, <2>2, <2>4 DEF DiskInv
  <2>7. OnItsWay'
    BY <2>1, <2>2, <2>4 DEF OnItsWay
  <2> QED
    BY <2>5, <2>6, <2>7
<1>3. CASE PushCommit(r)
  <2>1. /\ push[r] = "commit" /\ push' = [push EXCEPT ![r] = "notify"]
        /\ last' \in {at[r] + 1, last + 1}
        /\ UNCHANGED <<mem, first, at, arg, offered, rejected, disk, stop, mon, ptr>>
    BY <1>3 DEF PushCommit
  <2>2. Len(mem) = last /\ at[r] = last /\ mem[last] = arg[r]
    BY <2>1 DEF DequeInv
  <2>3. last' = last + 1
    BY <2>1, <2>2
  <2>4. DequeInv'
    BY <2>1, <2>2, <2>3 DEF DequeInv
  <2>5. DiskInv'
    BY <2>1 DEF DiskInv
  <2>6. OnItsWay'
    BY <2>1, <2>2, <2>3 DEF OnItsWay
  <2> QED
    BY <2>4, <2>5, <2>6
<1>4. CASE Notify(r)
  <2>1. /\ push[r] = "notify" /\ push' = [push EXCEPT ![r] = "idle"]
        /\ arg' = [arg EXCEPT ![r] = NoFile]
        /\ mon' = IF mon = "wait" THEN "front" ELSE mon
        /\ UNCHANGED <<mem, first, last, at, offered, rejected, disk, stop, ptr>>
    BY <1>4 DEF Notify
  <2>2. DequeInv'
    BY <2>1 DEF DequeInv
  <2>3. DiskInv'
    BY <2>1 DEF DiskInv
  <2>4. OnItsWay'
    BY <2>1 DEF OnItsWay
  <2> QED
    BY <2>2, <2>3, <2>4
<1> QED
  BY <1>1, <1>2, <1>3, <1>4 DEF PushBack

\* One connection loses no file, however its pushes, the monitor, failed saves,
\* wake-ups and a destruction interleave.  (Two connections can: the deque has
\* no lock.)
THEOREM OneConnectionLosesNothing ==
  ASSUME NEW r, Receivers = {r}
  PROVE  Spec => []NoAcceptedFileLost
<1>1. Init => TypeInv /\ LossInv
  <2> SUFFICES ASSUME Init PROVE LossInv
    BY InitTypes
  <2>1. DequeInv
    BY DEF Init, DequeInv
  <2>2. DiskInv
    BY DEF Init, DiskInv
  <2>3. OnItsWay
    BY DEF Init, OnItsWay
  <2> QED
    BY <2>1, <2>2, <2>3 DEF LossInv
<1>2. TypeInv /\ LossInv /\ [Next]_vars => (TypeInv /\ LossInv)'
  <2> SUFFICES ASSUME TypeInv, LossInv, [Next]_vars PROVE LossInv'
    BY NextTypes
  <2>1. CASE UNCHANGED vars
    BY <2>1 DEF vars, deque, pushers, LossInv, DequeInv, DiskInv, OnItsWay
  <2> QED
    BY <2>1, MonitorKeepsFiles, PushKeepsFiles DEF Next
<1>3. TypeInv /\ LossInv => NoAcceptedFileLost
  <2> SUFFICES ASSUME TypeInv, LossInv, Alive, NEW f \in offered \ rejected,
                      ~ \E p \in Receivers : arg[p] = f /\ push[p] # "notify"
               PROVE  f \in Queued \/ f \in Saved
    BY DEF NoAcceptedFileLost
  <2>1. PICK i \in 1 .. last - 1 : mem[i] = f
    BY DEF LossInv, OnItsWay
  <2>2. CASE i < first
    <3>1. i \in 1 .. Len(disk)
      BY <2>1, <2>2 DEF LossInv, DiskInv, Alive, TypeInv, TypeOK
    <3>2. disk[i].file = f
      BY <2>1, <3>1 DEF LossInv, DiskInv
    <3> QED
      BY <3>1, <3>2 DEF Saved, TypeInv, TypeOK
  <2>3. CASE i >= first
    BY <2>1, <2>3 DEF Queued, TypeInv, TypeOK
  <2> QED
    BY <2>1, <2>2, <2>3 DEF TypeInv, TypeOK
<1> QED
  BY <1>1, <1>2, <1>3, PTL DEF Spec

-----------------------------------------------------------------------------
(* With one connection the writer implements the FIFO store. *)

\* What an element that is appended, and one that is written, do to the part of the
\* cells that is not on disk yet.
LEMMA PendingGrows ==
  ASSUME NEW S, NEW m \in Seq(S), NEW x \in S, NEW k \in 0 .. Len(m)
  PROVE  SubSeq(Append(m, x), k + 1, Len(Append(m, x))) = Append(SubSeq(m, k + 1, Len(m)), x)
<1>1. PICK a : a = Append(m, x)
  OBVIOUS
<1>2. /\ Len(m) \in Nat /\ k \in Nat /\ k <= Len(m)
      /\ a \in Seq(S) /\ Len(a) = Len(m) + 1 /\ a[Len(m) + 1] = x
      /\ \A i \in 1 .. Len(m) : a[i] = m[i]
      /\ \A i \in 1 .. Len(m) : m[i] \in S
      /\ \A i \in 1 .. Len(m) + 1 : a[i] \in S
  BY <1>1, AppendProperties, LenProperties, ElementOfSeq
<1>3. PICK s : s = SubSeq(m, k + 1, Len(m))
  OBVIOUS
<1>4. PICK t : t = SubSeq(a, k + 1, Len(a))
  OBVIOUS
<1>5. s \in Seq(S) /\ Len(s) = Len(m) - k /\ \A i \in 1 .. Len(m) - k : s[i] = m[k + i]
  <2>1. /\ k + 1 \in Int /\ Len(m) \in Int /\ \A i \in k + 1 .. Len(m) : m[i] \in S
    BY <1>2
  <2>2. /\ s \in Seq(S) /\ Len(s) = IF k + 1 <= Len(m) THEN Len(m) - (k + 1) + 1 ELSE 0
        /\ \A i \in 1 .. Len(m) - (k + 1) + 1 : s[i] = m[(k + 1) + i - 1]
    BY <1>3, <2>1, SubSeqProperties
  <2>3. Len(s) = Len(m) - k
    BY <1>2, <2>2
  <2>4. ASSUME NEW i \in 1 .. Len(m) - k PROVE s[i] = m[k + i]
    <3>1. (k + 1) + i - 1 = k + i /\ i \in 1 .. Len(m) - (k + 1) + 1
      BY <1>2
    <3> QED BY <2>2, <3>1
  <2> QED BY <2>2, <2>3, <2>4
<1>6. t \in Seq(S) /\ Len(t) = Len(m) - k + 1 /\ \A i \in 1 .. Len(m) - k + 1 : t[i] = a[k + i]
  <2>1. /\ k + 1 \in Int /\ Len(a) \in Int /\ \A i \in k + 1 .. Len(a) : a[i] \in S
    BY <1>2
  <2>2. /\ t \in Seq(S) /\ Len(t) = IF k + 1 <= Len(a) THEN Len(a) - (k + 1) + 1 ELSE 0
        /\ \A i \in 1 .. Len(a) - (k + 1) + 1 : t[i] = a[(k + 1) + i - 1]
    BY <1>4, <2>1, SubSeqProperties
  <2>3. Len(t) = Len(m) - k + 1
    BY <1>2, <2>2
  <2>4. ASSUME NEW i \in 1 .. Len(m) - k + 1 PROVE t[i] = a[k + i]
    <3>1. (k + 1) + i - 1 = k + i /\ i \in 1 .. Len(a) - (k + 1) + 1
      BY <1>2
    <3> QED BY <2>2, <3>1
  <2> QED BY <2>2, <2>3, <2>4
<1>7. PICK u : u = Append(s, x)
  OBVIOUS
<1>8. /\ u \in Seq(S) /\ Len(u) = Len(m) - k + 1 /\ u[Len(m) - k + 1] = x
      /\ \A i \in 1 .. Len(m) - k : u[i] = s[i]
  BY <1>5, <1>7, AppendProperties
<1>9. ASSUME NEW i \in 1 .. Len(m) - k + 1 PROVE t[i] = u[i]
  <2>1. CASE i <= Len(m) - k
    <3>1. k + i \in 1 .. Len(m) /\ i \in 1 .. Len(m) - k
      BY <1>2, <2>1
    <3> QED BY <1>2, <1>5, <1>6, <1>8, <3>1
  <2>2. CASE ~(i <= Len(m) - k)
    <3>1. i = Len(m) - k + 1 /\ k + i = Len(m) + 1
      BY <1>2, <2>2
    <3> QED BY <1>2, <1>6, <1>8, <3>1
  <2> QED BY <2>1, <2>2
<1>10. t = u
  BY <1>6, <1>8, <1>9, SeqEqual
<1> QED BY <1>1, <1>3, <1>4, <1>7, <1>10

\* What waits behind the k-th file begins with the file after it.
LEMMA PendingShrinks ==
  ASSUME NEW S, NEW m \in Seq(S), NEW k \in Nat, k < Len(m)
  PROVE  /\ SubSeq(m, k + 1, Len(m)) # <<>>
         /\ Head(SubSeq(m, k + 1, Len(m))) = m[k + 1]
         /\ Tail(SubSeq(m, k + 1, Len(m))) = SubSeq(m, (k + 1) + 1, Len(m))
<1>1. Len(m) \in Nat /\ k + 1 \in 1 .. Len(m) /\ Len(m) \in k + 1 .. Len(m)
  BY LenProperties
<1>2. SubSeq(m, k + 1, Len(m)) # <<>>
  <2>1. \A i \in k + 1 .. Len(m) : m[i] \in S
    BY <1>1, ElementOfSeq
  <2>2. Len(SubSeq(m, k + 1, Len(m))) = IF k + 1 <= Len(m) THEN Len(m) - (k + 1) + 1 ELSE 0
    BY <1>1, <2>1, SubSeqProperties
  <2>3. Len(SubSeq(m, k + 1, Len(m))) # 0
    BY <1>1, <2>2
  <2> QED BY <2>3, EmptySeq
<1> QED BY <1>1, <1>2, HeadTailOfSubSeq

\* Nothing is pushed before thread_monitor has started.
StartInv == mon = "start" => ~running /\ \A r \in Receivers : push[r] = "idle"

\* StartInv is kept by every step.
LEMMA StartNext == TypeInv /\ StartInv /\ [Next]_vars => StartInv'
<1> SUFFICES ASSUME TypeInv, StartInv, [Next]_vars, mon' = "start"
             PROVE  ~running' /\ \A r \in Receivers : push'[r] = "idle"
  BY DEF StartInv
<1>1. CASE Monitor \/ SpuriousWakeup \/ Joined
  BY <1>1 DEF Monitor, MonitorStart, GiveUp, TestEmpty, EnterWait, TestFailed, SleepEnds,
     TestCleared, Front, SaveFails, Failed, SaveThrows, Write, Register, PopFront, Interrupted,
     SpuriousWakeup, Joined, StartInv, pushers
<1>2. CASE Interrupt \/ UNCHANGED vars
  BY <1>2 DEF Interrupt, vars, pushers, StartInv
<1>3. ASSUME NEW r \in Receivers, PushBack(r) \/ \E f \in Files : NewFile(r, f)
      PROVE  ~running' /\ \A p \in Receivers : push'[p] = "idle"
  <2>1. mon = "start"
    BY <1>3 DEF PushBack, PushConstruct, PushCommit, Notify, NewFile
  <2> QED
    BY <1>3, <2>1 DEF PushBack, PushConstruct, PushCommit, Notify, NewFile, StartInv
<1> QED BY <1>1, <1>2, <1>3 DEF Next

\* The store's variables, as ImplementsStore maps them.
Waiting == SubSeq(mem, Len(disk) + 1, Len(mem))
Stored == [i \in DOMAIN disk |-> disk[i].file]

\* The names of what is on disk.
LEMMA StoredProperties ==
  ASSUME NEW d \in Seq([file : Files, whole : BOOLEAN]),
         NEW t, t = [i \in DOMAIN d |-> d[i].file]
  PROVE  t \in Seq(Files) /\ Len(t) = Len(d) /\ \A i \in 1 .. Len(d) : t[i] = d[i].file
<1>1. /\ Len(d) \in Nat /\ DOMAIN d = 1 .. Len(d)
      /\ \A i \in 1 .. Len(d) : d[i].file \in Files
  <2>1. Len(d) \in Nat /\ DOMAIN d = 1 .. Len(d)
    BY LenProperties
  <2>2. ASSUME NEW i \in 1 .. Len(d) PROVE d[i].file \in Files
    <3>1. d[i] \in [file : Files, whole : BOOLEAN]
      BY ElementOfSeq
    <3> QED BY <3>1
  <2> QED BY <2>1, <2>2
<1>2. t \in [1 .. Len(d) -> Files]
  BY <1>1
<1>3. t \in Seq(Files)
  BY <1>1, <1>2, SeqDef
<1>4. DOMAIN t = 1 .. Len(t) /\ Len(t) \in Nat /\ DOMAIN t = 1 .. Len(d)
  BY <1>2, <1>3, LenProperties
<1>5. Len(t) = Len(d)
  BY <1>1, <1>4
<1> QED BY <1>1, <1>3, <1>5

\* Steps that neither push nor write: at most the phase changes, as the store allows.
LEMMA PhaseSteps ==
  ASSUME TypeInv, DequeInv, ~crashed, UNCHANGED <<mem, disk>>,
         \/ Monitor
         \/ SpuriousWakeup
         \/ Interrupt
         \/ Joined
         \/ \E r \in Receivers : PushBack(r) \/ \E f \in Files : NewFile(r, f)
  PROVE  AbstractStore!Open \/ AbstractStore!Halt \/ UNCHANGED StorePhase
<1>0. UNCHANGED <<Waiting, Stored>>
  BY DEF Waiting, Stored
<1>1. StorePhase \in {"starting", "up", "down"}
  BY DEF StorePhase
<1>2. ASSUME StorePhase = "starting", StorePhase' = "up" PROVE AbstractStore!Open
  BY <1>0, <1>2 DEF AbstractStore!Open, Waiting, Stored
<1>3. ASSUME StorePhase # "down", StorePhase' = "down" PROVE AbstractStore!Halt
  BY <1>0, <1>3 DEF AbstractStore!Halt, Waiting, Stored
<1>a. ASSUME UNCHANGED <<crashed, stop>>, mon = mon' \/ {mon, mon'} \cap {"start", "ended"} = {}
      PROVE  UNCHANGED StorePhase
  BY <1>a DEF StorePhase, Alive
<1>4. CASE MonitorStart
  <2>1. StorePhase = "starting" /\ StorePhase' = "up"
    BY <1>4 DEF MonitorStart, StorePhase, Alive, DequeInv
  <2> QED BY <1>2, <2>1
<1>5. CASE GiveUp
  <2>1. StorePhase' = "down"
    BY <1>5 DEF GiveUp, StorePhase
  <2> QED BY <1>3, <2>1
<1>6. CASE Joined
  <2>1. StorePhase' = "down"
    BY <1>6 DEF Joined, StorePhase
  <2> QED BY <1>3, <2>1
<1>7. CASE Front \/ SaveThrows
  <2>1. CASE crashed' = TRUE
    <3>1. crashed' /\ ~Alive'
      BY <2>1, Zenon DEF Alive
    <3>2. StorePhase' = "down"
      BY <3>1, Zenon DEF StorePhase
    <3> QED BY <1>3, <3>2
  <2>2. CASE crashed' = crashed
    <3>1. UNCHANGED <<crashed, stop>> /\ (mon = mon' \/ {mon, mon'} \cap {"start", "ended"} = {})
      BY <1>7, <2>2 DEF Front, SaveThrows, Crash
    <3> QED BY <1>a, <3>1
  <2> QED BY <1>7, <2>1, <2>2 DEF Front, SaveThrows, Crash
<1>8. CASE Interrupt
  BY <1>8 DEF Interrupt, StorePhase, Alive
<1>9. CASE \/ TestEmpty \/ EnterWait \/ TestFailed \/ SleepEnds \/ TestCleared \/ SaveFails
           \/ Write \/ Register \/ PopFront \/ Interrupted \/ SpuriousWakeup
  <2>1. UNCHANGED <<crashed, stop>> /\ {mon, mon'} \cap {"start", "ended"} = {}
    BY <1>9 DEF TestEmpty, EnterWait, TestFailed, SleepEnds, TestCleared, SaveFails, Failed,
       Write, Register, PopFront, Interrupted, SpuriousWakeup
  <2> QED BY <1>a, <2>1
<1>10. ASSUME NEW r \in Receivers, PushBack(r) \/ \E f \in Files : NewFile(r, f)
       PROVE  UNCHANGED StorePhase
  <2>1. UNCHANGED <<crashed, stop>> /\ (mon = mon' \/ {mon, mon'} \cap {"start", "ended"} = {})
    BY <1>10 DEF PushBack, PushConstruct, PushCommit, Notify, NewFile
  <2> QED BY <1>a, <2>1
<1> QED BY <1>4, <1>5, <1>6, <1>7, <1>8, <1>9, <1>10 DEF Monitor

\* The writer of one connection implements the FIFO store: whatever the failures,
\* the wake-ups and the halves of push_back do, files reach the disk once each, in
\* the order the connection handed them over, and none is dropped.
THEOREM OneConnectionStores ==
  ASSUME NEW r, Receivers = {r}
  PROVE  Spec => ImplementsStore
<1> DEFINE Inv == TypeInv /\ LossInv /\ StartInv
<1>1. Init => Inv /\ AbstractStore!StoreInit
  <2> SUFFICES ASSUME Init PROVE Inv /\ AbstractStore!StoreInit
    OBVIOUS
  <2>1. TypeInv
    BY InitTypes
  <2>2. DequeInv /\ DiskInv /\ OnItsWay /\ StartInv
    BY DEF Init, DequeInv, DiskInv, OnItsWay, StartInv
  <2>3. SubSeq(mem, Len(disk) + 1, Len(mem)) = <<>>
    BY SubSeqEmpty DEF Init
  <2>4. [i \in DOMAIN disk |-> disk[i].file] = <<>>
    BY DEF Init
  <2>5. StorePhase = "starting"
    BY DEF Init, StorePhase, Alive
  <2> QED BY <2>1, <2>2, <2>3, <2>4, <2>5 DEF LossInv, AbstractStore!StoreInit
<1>2. Inv /\ [Next]_vars => Inv'
  <2> SUFFICES ASSUME TypeInv, LossInv, StartInv, [Next]_vars PROVE LossInv'
    BY NextTypes, StartNext
  <2>1. CASE UNCHANGED vars
    BY <2>1 DEF vars, deque, pushers, LossInv, DequeInv, DiskInv, OnItsWay
  <2> QED
    BY <2>1, MonitorKeepsFiles, PushKeepsFiles DEF Next
<1>3. Inv /\ [Next]_vars => [AbstractStore!StoreNext]_(AbstractStore!storeVars)
  <2> SUFFICES ASSUME TypeInv, LossInv, StartInv, [Next]_vars
               PROVE  AbstractStore!StoreNext \/ UNCHANGED AbstractStore!storeVars
    OBVIOUS
  <2>0. mem \in Seq(Files) /\ disk \in Seq([file : Files, whole : BOOLEAN]) /\ DequeInv
    BY DEF TypeInv, TypeOK, LossInv
  <2>a. ASSUME UNCHANGED <<mem, disk, StorePhase>> PROVE UNCHANGED AbstractStore!storeVars
    BY <2>a DEF AbstractStore!storeVars
  <2>1. CASE UNCHANGED vars
    BY <2>a, <2>1 DEF vars, deque, StorePhase, Alive
  <2>2. CASE PushConstruct(r)
    <3>1. push[r] = "construct" /\ last = Len(mem) + 1 /\ arg[r] \in Files
      BY <2>0, <2>2 DEF PushConstruct, DequeInv, TypeInv, TypeOK
    <3>2. mem' = Append(mem, arg[r]) /\ UNCHANGED <<disk, mon, stop, crashed>>
      BY <2>0, <2>2, <3>1 DEF PushConstruct
    <3>3. Len(disk) \in 0 .. Len(mem)
      BY <2>0 DEF LossInv, DiskInv
    <3>4. Waiting' = Append(Waiting, arg[r])
      BY <2>0, <3>1, <3>2, <3>3, PendingGrows DEF Waiting
    <3>5. StorePhase # "starting" /\ UNCHANGED StorePhase
      BY <3>1, <3>2 DEF StartInv, StorePhase, Alive
    <3>6. AbstractStore!Accept(arg[r])
      BY <3>2, <3>4, <3>5 DEF AbstractStore!Accept, Waiting
    <3> QED BY <3>1, <3>6 DEF AbstractStore!StoreNext
  <2>3. CASE Write /\ ~crashed
    <3>1. /\ mon = "write" /\ mon' = "register" /\ UNCHANGED <<mem, stop, crashed>>
          /\ ptr \in Files
      BY <2>3 DEF Write, TypeInv, deque
    <3>2. PICK whole \in BOOLEAN : disk' = Append(disk, [file |-> ptr, whole |-> whole])
      BY <2>3 DEF Write
    <3>3. stop # "done" /\ Len(disk) = first - 1 /\ first <= Len(mem) /\ ptr = mem[first]
      BY <3>1 DEF LossInv, DequeInv, DiskInv
    <3>4. Len(disk) \in Nat /\ Len(disk) < Len(mem) /\ ptr = mem[Len(disk) + 1]
      BY <2>0, <3>3 DEF TypeInv, TypeOK
    <3>5. Waiting # <<>> /\ Head(Waiting) = ptr
          /\ Tail(Waiting) = SubSeq(mem, (Len(disk) + 1) + 1, Len(mem))
      BY <2>0, <3>4, PendingShrinks DEF Waiting
    <3>6. /\ disk' \in Seq([file : Files, whole : BOOLEAN]) /\ Len(disk') = Len(disk) + 1
          /\ disk'[Len(disk) + 1].file = ptr
          /\ \A i \in 1 .. Len(disk) : disk'[i] = disk[i]
      BY <2>0, <3>1, <3>2, AppendProperties
    <3>7. Waiting' = Tail(Waiting)
      BY <3>1, <3>5, <3>6 DEF Waiting
    <3>8. Stored' = Append(Stored, ptr)
      <4>1. Stored \in Seq(Files) /\ Len(Stored) = Len(disk)
            /\ \A i \in 1 .. Len(disk) : Stored[i] = disk[i].file
        BY <2>0, StoredProperties DEF Stored
      <4>2. Stored' \in Seq(Files) /\ Len(Stored') = Len(disk) + 1
            /\ \A i \in 1 .. Len(disk) + 1 : Stored'[i] = disk'[i].file
        <5>1. disk' \in Seq([file : Files, whole : BOOLEAN]) /\ Len(disk') = Len(disk) + 1
          BY <3>6
        <5>2. Stored' = [i \in DOMAIN disk' |-> disk'[i].file]
          BY DEF Stored
        <5>3. /\ Stored' \in Seq(Files) /\ Len(Stored') = Len(disk')
              /\ \A i \in 1 .. Len(disk') : Stored'[i] = disk'[i].file
          BY <5>1, <5>2, StoredProperties
        <5> QED BY <5>1, <5>3
      <4>3. /\ Append(Stored, ptr) \in Seq(Files)
            /\ Len(Append(Stored, ptr)) = Len(disk) + 1
            /\ Append(Stored, ptr)[Len(disk) + 1] = ptr
            /\ \A i \in 1 .. Len(disk) : Append(Stored, ptr)[i] = Stored[i]
        BY <3>1, <4>1, AppendProperties
      <4>4. ASSUME NEW i \in 1 .. Len(disk) + 1 PROVE Stored'[i] = Append(Stored, ptr)[i]
        <5>1. i \in 1 .. Len(disk) \/ i = Len(disk) + 1
          BY <3>4
        <5> QED BY <3>6, <4>1, <4>2, <4>3, <5>1
      <4> QED BY <4>2, <4>3, <4>4, SeqEqual
    <3>9. StorePhase = "up" /\ StorePhase' = "up"
      BY <2>3, <3>1, <3>3 DEF StorePhase, Alive
    <3>10. AbstractStore!Store
      BY <3>5, <3>7, <3>8, <3>9 DEF AbstractStore!Store, Waiting, Stored
    <3> QED BY <3>10 DEF AbstractStore!StoreNext
  <2>4. CASE ~UNCHANGED vars /\ ~PushConstruct(r) /\ ~Write
    <3>1. /\ ~crashed
          /\ \/ Monitor \/ SpuriousWakeup \/ Interrupt \/ Joined
             \/ \E p \in Receivers : PushBack(p) \/ \E f \in Files : NewFile(p, f)
      BY <2>4 DEF Next
    <3>2. UNCHANGED <<mem, disk>>
      BY <2>4, <3>1 DEF Monitor, MonitorStart, GiveUp, TestEmpty, EnterWait, TestFailed,
         SleepEnds, TestCleared, Front, SaveFails, Failed, SaveThrows, Register, PopFront,
         Interrupted, SpuriousWakeup, Interrupt, Joined, PushBack, PushCommit, Notify, NewFile,
         deque
    <3>3. AbstractStore!Open \/ AbstractStore!Halt \/ UNCHANGED StorePhase
      BY <2>0, <3>1, <3>2, PhaseSteps
    <3> QED BY <2>a, <3>2, <3>3 DEF AbstractStore!StoreNext
  <2>5. ~UNCHANGED vars => ~crashed
    BY DEF Next
  <2> QED BY <2>1, <2>2, <2>3, <2>4, <2>5
<1> QED
  BY <1>1, <1>2, <1>3, PTL DEF Spec, ImplementsStore, AbstractStore!StoreSpec
================================================================================
