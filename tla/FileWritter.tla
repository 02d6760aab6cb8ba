------------------------------ MODULE FileWritter ------------------------------
(***************************************************************************)
(* src/src/FileWritter.{h,cpp}.  One FileWritter is shared by every        *)
(* connection.  The message thread of a connection calls NewFile; the      *)
(* writer's own thread, thread_monitor, saves the files one by one.        *)
(*                                                                         *)
(* No lock protects quenf_: thread_monitor waits on a mutex of its own     *)
(* stack ("dummy") that nobody else takes.  push_back is therefore two     *)
(* steps, the construction of the element in the cell after the last one   *)
(* and the advance of the end of the deque, and notify_one is a third.     *)
(* The deque is the cells mem, of which first .. last-1 are in the queue.  *)
(*                                                                         *)
(* Left to other modules: UpdateStorage and pathRoot_ (disk switching).    *)
(* Left out: the texts of the log.                                         *)
(***************************************************************************)
EXTENDS Naturals, Sequences

CONSTANTS Receivers,   \* the connections whose message threads call NewFile
          Files,       \* the received files, each offered to the writer once
          NoFile       \* the empty smart pointer

ASSUME FilesAssumption == NoFile \notin Files

VARIABLES
  running,    \* running_
  mon,        \* where thread_monitor is
  rslt,       \* rslt, the result of the last save_first
  errcnt,     \* errcnt
  ptr,        \* ptr of save_first, a second owner of the file being saved
  mem,        \* the cells of quenf_, in allocation order
  first,      \* quenf_.begin()
  last,       \* quenf_.end()
  push,       \* where each connection is inside NewFile
  arg,        \* the file each connection is pushing
  at,         \* the cell each connection constructs its element in
  offered,    \* files handed to NewFile so far
  rejected,   \* files NewFile refused
  disk,       \* what was written: a sequence of [file, whole]
  registered, \* files the database accepted
  stop,       \* the progress of ~FileWritter
  crashed,    \* the process has died
  sinceClear  \* history: failed saves since errcnt was last cleared

deque   == <<mem, first, last>>
pushers == <<push, arg, at, offered, rejected>>
vars == <<running, mon, rslt, errcnt, ptr, deque, pushers, disk, registered,
          stop, crashed, sinceClear>>

MonitorAt == {"start", "test", "enter", "wait", "sleep", "front", "write",
              "register", "pop", "ended", "interrupted"}

ErrLimit == 5
HistoryCap == ErrLimit + 1      \* bound of the history counter

Bump(n) == IF n < HistoryCap THEN n + 1 ELSE n

Empty == first = last                           \* !quenf_.size()
Queued == {mem[i] : i \in first .. last - 1}    \* the files in quenf_
Saved == {disk[i].file : i \in DOMAIN disk}

TypeOK ==
  /\ running \in BOOLEAN
  /\ mon \in MonitorAt
  /\ rslt \in BOOLEAN
  /\ errcnt \in 0 .. ErrLimit
  /\ ptr \in Files \cup {NoFile}
  /\ mem \in Seq(Files)
  /\ first \in Nat \ {0}
  /\ last \in Nat \ {0}
  /\ push \in [Receivers -> {"idle", "construct", "commit", "notify"}]
  /\ arg \in [Receivers -> Files \cup {NoFile}]
  /\ at \in [Receivers -> Nat]
  /\ offered \in SUBSET Files
  /\ rejected \in SUBSET Files
  /\ disk \in Seq([file : Files, whole : BOOLEAN])
  /\ registered \in SUBSET Files
  /\ stop \in {"no", "interrupt", "done"}
  /\ crashed \in BOOLEAN
  /\ sinceClear \in 0 .. HistoryCap

Init ==
  /\ running = FALSE
  /\ mon = "start"
  /\ rslt = TRUE
  /\ errcnt = 0
  /\ ptr = NoFile
  /\ mem = <<>>
  /\ first = 1
  /\ last = 1
  /\ push = [r \in Receivers |-> "idle"]
  /\ arg = [r \in Receivers |-> NoFile]
  /\ at = [r \in Receivers |-> 0]
  /\ offered = {}
  /\ rejected = {}
  /\ disk = <<>>
  /\ registered = {}
  /\ stop = "no"
  /\ crashed = FALSE
  /\ sinceClear = 0

-----------------------------------------------------------------------------
(* NewFile, on the message thread of connection r. *)

NewFile(r, f) ==
  /\ push[r] = "idle"
  /\ stop = "no"
  /\ f \notin offered
  /\ offered' = offered \cup {f}
  /\ \/ /\ running
        /\ push' = [push EXCEPT ![r] = "construct"]
        /\ arg' = [arg EXCEPT ![r] = f]
        /\ UNCHANGED rejected
     \/ /\ ~running
        /\ rejected' = rejected \cup {f}
        /\ UNCHANGED <<push, arg>>
  /\ UNCHANGED <<running, mon, rslt, errcnt, ptr, deque, at, disk, registered,
                 stop, crashed, sinceClear>>

\* push_back, first half: the element is built in the cell at end().
PushConstruct(r) ==
  /\ push[r] = "construct"
  /\ at' = [at EXCEPT ![r] = last]
  /\ mem' = IF last > Len(mem) THEN Append(mem, arg[r])
                               ELSE [mem EXCEPT ![last] = arg[r]]
  /\ push' = [push EXCEPT ![r] = "commit"]
  /\ UNCHANGED <<running, mon, rslt, errcnt, ptr, first, last, arg, offered,
                 rejected, disk, registered, stop, crashed, sinceClear>>

\* push_back, second half: end() advances.  Another thread may have moved it
\* since; the increment uses the position read before, or reads it again.
PushCommit(r) ==
  /\ push[r] = "commit"
  /\ \E end \in {at[r], last} : last' = end + 1
  /\ push' = [push EXCEPT ![r] = "notify"]
  /\ UNCHANGED <<running, mon, rslt, errcnt, ptr, mem, first, arg, at, offered,
                 rejected, disk, registered, stop, crashed, sinceClear>>

\* cvfile_.notify_one(): wakes the monitor only if it is already waiting.
Notify(r) ==
  /\ push[r] = "notify"
  /\ push' = [push EXCEPT ![r] = "idle"]
  /\ arg' = [arg EXCEPT ![r] = NoFile]
  /\ mon' = IF mon = "wait" THEN "front" ELSE mon
  /\ UNCHANGED <<running, rslt, errcnt, ptr, deque, at, offered, rejected,
                 disk, registered, stop, crashed, sinceClear>>

-----------------------------------------------------------------------------
(* thread_monitor. *)

MonitorStart ==
  /\ mon = "start"
  /\ running' = TRUE
  /\ mon' = "test"
  /\ UNCHANGED <<rslt, errcnt, ptr, deque, pushers, disk, registered, stop,
                 crashed, sinceClear>>

\* while (errcnt < 5)
LoopGoesLate == errcnt <= ErrLimit               \* mutant: <= for <
LoopGoes == errcnt < ErrLimit

\* The condition fails: the thread ends.
GiveUp ==
  /\ mon = "test"
  /\ ~LoopGoes
  /\ running' = FALSE
  /\ mon' = "ended"
  /\ UNCHANGED <<rslt, errcnt, ptr, deque, pushers, disk, registered, stop,
                 crashed, sinceClear>>

\* if (!quenf_.size()): the queue was seen empty, the wait is not entered yet.
TestEmpty ==
  /\ mon = "test"
  /\ LoopGoes
  /\ Empty
  /\ mon' = "enter"
  /\ UNCHANGED <<running, rslt, errcnt, ptr, deque, pushers, disk, registered,
                 stop, crashed, sinceClear>>

EnterWait ==
  /\ mon = "enter"
  /\ mon' = "wait"
  /\ UNCHANGED <<running, rslt, errcnt, ptr, deque, pushers, disk, registered,
                 stop, crashed, sinceClear>>

\* boost::condition_variable::wait may return with no notification.
SpuriousWakeup ==
  /\ mon = "wait"
  /\ mon' = "front"
  /\ UNCHANGED <<running, rslt, errcnt, ptr, deque, pushers, disk, registered,
                 stop, crashed, sinceClear>>

\* Mutant: the failure is not counted.
TestFailedUncounted ==
  /\ mon = "test"
  /\ LoopGoes
  /\ ~Empty
  /\ ~rslt
  /\ mon' = "sleep"
  /\ UNCHANGED <<running, rslt, errcnt, ptr, deque, pushers, disk, registered,
                 stop, crashed, sinceClear>>

\* else if (!rslt): the failure is counted, the retry comes a minute later.
TestFailed ==
  /\ mon = "test"
  /\ LoopGoes
  /\ ~Empty
  /\ ~rslt
  /\ errcnt' = errcnt + 1
  /\ mon' = "sleep"
  /\ UNCHANGED <<running, rslt, ptr, deque, pushers, disk, registered, stop,
                 crashed, sinceClear>>

SleepEnds ==
  /\ mon = "sleep"
  /\ mon' = "front"
  /\ UNCHANGED <<running, rslt, errcnt, ptr, deque, pushers, disk, registered,
                 stop, crashed, sinceClear>>

\* else if (errcnt) errcnt = 0.
TestCleared ==
  /\ mon = "test"
  /\ LoopGoes
  /\ ~Empty
  /\ rslt
  /\ errcnt' = 0
  /\ sinceClear' = 0
  /\ mon' = "front"
  /\ UNCHANGED <<running, rslt, ptr, deque, pushers, disk, registered, stop,
                 crashed>>

-----------------------------------------------------------------------------
(* save_first. *)

Failed ==
  /\ rslt' = FALSE
  /\ mon' = "test"
  /\ ptr' = NoFile
  /\ sinceClear' = Bump(sinceClear)

Crash == crashed' = TRUE

\* ptr = quenf_.front().  Nothing is tested: if the cell holds no element the
\* access is undefined and ptr->subpath kills the process.
Front ==
  /\ mon = "front"
  /\ \/ /\ first <= Len(mem)
        /\ ptr' = mem[first]
        /\ mon' = "write"
        /\ UNCHANGED crashed
     \/ /\ first > Len(mem)
        /\ Crash
        /\ UNCHANGED <<ptr, mon>>
  /\ UNCHANGED <<running, rslt, errcnt, deque, pushers, disk, registered, stop,
                 sinceClear>>

\* Mutant: the file is popped whether it was saved or not.
SaveFailsPops ==
  /\ mon = "write"
  /\ Failed
  /\ first' = first + 1
  /\ UNCHANGED <<running, errcnt, mem, last, pushers, disk, registered, stop,
                 crashed>>

\* create_directory returned false, or fopen failed: the file stays in front.
SaveFails ==
  /\ mon = "write"
  /\ Failed
  /\ UNCHANGED <<running, errcnt, deque, pushers, disk, registered, stop,
                 crashed>>

\* is_directory or create_directory threw, and nothing catches it.
SaveThrows ==
  /\ mon = "write"
  /\ Crash
  /\ UNCHANGED <<running, mon, rslt, errcnt, ptr, deque, pushers, disk,
                 registered, stop, sinceClear>>

\* fopen, fwrite, fclose.  The count fwrite returns is ignored: on a full disk
\* the file is short.
Write ==
  /\ mon = "write"
  /\ \E whole \in BOOLEAN :
       disk' = Append(disk, [file |-> ptr, whole |-> whole])
  /\ mon' = "register"
  /\ UNCHANGED <<running, rslt, errcnt, ptr, deque, pushers, registered, stop,
                 crashed, sinceClear>>

\* db_->regOrigImage, whose result is ignored.
Register ==
  /\ mon = "register"
  /\ \E accepted \in BOOLEAN :
       registered' = IF accepted THEN registered \cup {ptr} ELSE registered
  /\ mon' = "pop"
  /\ UNCHANGED <<running, rslt, errcnt, ptr, deque, pushers, disk, stop,
                 crashed, sinceClear>>

\* Mutant: rslt = true is forgotten.
PopFrontNoResult ==
  /\ mon = "pop"
  /\ first' = first + 1
  /\ rslt' = FALSE
  /\ ptr' = NoFile
  /\ mon' = "test"
  /\ UNCHANGED <<running, errcnt, mem, last, pushers, disk, registered, stop,
                 crashed, sinceClear>>

\* Mutant: the file stays in the queue.
PopFrontKeeps ==
  /\ mon = "pop"
  /\ rslt' = TRUE
  /\ ptr' = NoFile
  /\ mon' = "test"
  /\ UNCHANGED <<running, errcnt, deque, pushers, disk, registered, stop,
                 crashed, sinceClear>>

\* quenf_.pop_front(); rslt = true; and ptr goes out of scope.
PopFront ==
  /\ mon = "pop"
  /\ first' = first + 1
  /\ rslt' = TRUE
  /\ ptr' = NoFile
  /\ mon' = "test"
  /\ UNCHANGED <<running, errcnt, mem, last, pushers, disk, registered, stop,
                 crashed, sinceClear>>

-----------------------------------------------------------------------------
(* ~FileWritter, when the last connection and the agent have let go of it. *)

\* thrdmntr_->interrupt().
Interrupt ==
  /\ stop = "no"
  /\ \A r \in Receivers : push[r] = "idle"
  /\ stop' = "interrupt"
  /\ UNCHANGED <<running, mon, rslt, errcnt, ptr, deque, pushers, disk,
                 registered, crashed, sinceClear>>

\* Mutant: the wait for files is no interruption point.
InterruptedAsleep ==
  /\ stop = "interrupt"
  /\ mon = "sleep"
  /\ mon' = "interrupted"
  /\ UNCHANGED <<running, rslt, errcnt, ptr, deque, pushers, disk, registered,
                 stop, crashed, sinceClear>>

\* cvfile_.wait and sleep_for are the interruption points of thread_monitor.
Interrupted ==
  /\ stop = "interrupt"
  /\ mon \in {"wait", "sleep"}
  /\ mon' = "interrupted"
  /\ UNCHANGED <<running, rslt, errcnt, ptr, deque, pushers, disk, registered,
                 stop, crashed, sinceClear>>

\* join() returns; running_ = false; what is still queued is lost.
Joined ==
  /\ stop = "interrupt"
  /\ mon \in {"ended", "interrupted"}
  /\ stop' = "done"
  /\ running' = FALSE
  /\ first' = last
  /\ UNCHANGED <<mon, rslt, errcnt, ptr, mem, last, pushers, disk, registered,
                 crashed, sinceClear>>

-----------------------------------------------------------------------------

PushBack(r) == PushConstruct(r) \/ PushCommit(r) \/ Notify(r)

Monitor ==
  \/ MonitorStart
  \/ GiveUp
  \/ TestEmpty
  \/ EnterWait
  \/ TestFailed
  \/ SleepEnds
  \/ TestCleared
  \/ Front
  \/ SaveFails
  \/ SaveThrows
  \/ Write
  \/ Register
  \/ PopFront
  \/ Interrupted

Next ==
  /\ ~crashed
  /\ \/ \E r \in Receivers, f \in Files : NewFile(r, f)
     \/ \E r \in Receivers : PushBack(r)
     \/ Monitor
     \/ SpuriousWakeup
     \/ Interrupt
     \/ Joined

Spec == Init /\ [][Next]_vars

AtDatabase == mon = "register"

\* The threads are scheduled, sleeps end and a destruction that has begun goes
\* on.  The database need not answer, curl being given no timeout; and nothing
\* obliges a client to send a file, the condition variable to wake spuriously,
\* or the daemon to stop.
Fairness ==
  /\ WF_vars(~crashed /\ ~AtDatabase /\ Monitor)
  /\ \A r \in Receivers : WF_vars(~crashed /\ PushBack(r))
  /\ WF_vars(~crashed /\ Joined)

FairSpec == Spec /\ Fairness

-----------------------------------------------------------------------------
(* Properties. *)

Alive == ~crashed /\ stop # "done"

\* A file a connection handed to the running writer is, until the process
\* dies or the writer is destroyed, on its way into quenf_, in it, or on disk:
\* no failure of save_first and no timing of NewFile drops it.
NoAcceptedFileLost ==
  Alive => \A f \in offered \ rejected :
             \/ \E r \in Receivers : arg[r] = f /\ push[r] # "notify"
             \/ f \in Queued
             \/ f \in Saved

\* The writer gives up only after five failed saves since errcnt was last
\* cleared; nothing else ends the thread that serves all connections.  A save
\* that fails while the queue looks empty is not counted, so errcnt is at most
\* the number of failures.
GiveUpOnlyAfterFiveFailures ==
  /\ mon = "ended" => sinceClear >= ErrLimit
  /\ errcnt <= sinceClear

\* A failed save of a queued file is tried again until it is written or the
\* writer ends: a bad disk can neither make the monitor forget the file in
\* front nor have it retried for ever.
FailedSaveIsResolved ==
  (mon = "test" /\ ~rslt /\ ~Empty) ~> (rslt \/ AtDatabase \/ ~running \/ ~Alive)

\* ~FileWritter returns: the monitor always comes to a point where it can be
\* interrupted, or has ended, unless the database holds it.
DestructionEnds ==
  stop = "interrupt" ~> (stop = "done" \/ AtDatabase \/ crashed)

\* thread_monitor "checks whether a file waits to be stored, and stores it"
\* (FileWritter.h:109): no file stays in the queue of a running writer that does
\* not wait for the database.
QueuedIsSaved ==
  \A f \in Files : f \in Queued ~> (f \in Saved \/ AtDatabase \/ ~running \/ ~Alive)

\* The writer implements the FIFO store: files reach the disk once each, in
\* the order the connection handed them over.
StorePhase ==
  CASE crashed \/ stop = "done" \/ mon = "ended" -> "down"
    [] Alive /\ mon = "start"                     -> "starting"
    [] OTHER                                      -> "up"

AbstractStore == INSTANCE FileStore
                   WITH pending <- SubSeq(mem, Len(disk) + 1, Len(mem)),
                        stored <- [i \in DOMAIN disk |-> disk[i].file],
                        phase <- StorePhase
ImplementsStore == AbstractStore!StoreSpec
================================================================================
