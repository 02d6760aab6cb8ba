# ftserver in TLA+

`ftserver` is the file server of the GWAC cameras. A camera control program connects,
announces a FITS file with a `fileinfo` line, sends its bytes and is told `COMPLETE`. The
server queues the file in memory, a writer thread stores it on the disk in use and
registers it in a database; other threads drop dead connections, rotate and clean the disks
and keep the local clock on an NTP server's time. This directory models that program.
Paths below are under `src/src/`.

## Components

| Part | State | Operations | Module |
|---|---|---|---|
| `FileWritter` | `quenf_`, `running_`, the count of failures | `NewFile`, `thread_monitor`, `save_first`, destructor | `FileWritter`, `FileStore`, `FileWritterProofs` |
| `FileReceiver` (one per connection) | `state_`, `fileptr_`, `bufrcv_`, `tcpptr_` | `network_receive`, `on_network_receive`, `on_receive_complete`, `on_network_close`, `notify_status` | `FileReceiver`, `FileTransfer`, `FileReceiverProofs` |
| `TCPClient`, unbuffered | `bufrcv_`, `bytercv_`, the socket | `handle_read`, `Lookup`, `Read`, `Write`, `Close` | `FileReceiver`, `Sessions` |
| `MessageQueue` | queue of 1024, two priorities, a thread | `PostMessage`, `SendMessage`, `Stop`, `thread_message` | `FileReceiver`, `Sessions` |
| `TransferAgent`, connections | `filercv_`, `mtx_filercv_` | `network_accept`, `thread_idle`, `StopService` | `Sessions`, `SessionsProofs` |
| `TCPServer` | the acceptor | `handle_accept` | `Sessions` |
| `TransferAgent`, disks | `iStorage`, the disks, `pathRoot_` | `find_storage`, `free_storage`, `thread_autofree`, `UpdateStorage` | `Storage`, `StorageProofs` |
| `NTPClient` | `offset_`, `valid_`, `nfail_`, the socket | `thread_body`, `get_time`, `SynchClock`, destructor | `NTPClient`, `NTPClientProofs` |
| `DataTransfer` | the URLs, the reply buffer, the libcurl session | nine operations and `uploadDatas`, constructor, destructor | `DataTransfer`, `DataTransferProofs` |
| `AsciiProtocol` | ring of ten output buffers | `Compact*`, `Resolve` | `AsciiProtocol`, `BufferProofs` |
| `GLog` | `fd_`, `day_`, `bytecache_`, `tmlast_` | `Write`, `valid_file`, `thread_cycle`, destructor | `GLog`, `BufferProofs` |
| `param_config`, `daemon`, `main` | configuration file, PID file and its lock | `LoadFile`, `InitFile`, `~param_config`, `isProcSingleton`, `main` | `Daemon`, `DaemonProofs` |
| `TCPClient`, buffered | two ring buffers | `Lookup`, `Read`, `Write`, `handle_write` | no: nothing calls `UseBuffer` |
| `IOServiceKeep` | a thread and its `io_service` | `run` | the I/O threads of `FileReceiver` and `Sessions` |
| `free_template` | template directories | clean by age and size | no |

How they interact:

- An I/O thread per connection runs `network_receive` inside `handle_read`. While a file is
  being received it copies bytes into the `FileInfo` itself; everything else it *posts* to the
  receiver's message queue and then re-arms the read on the same buffer.
- What it posts for a read depends on `state_` at that moment and not on what was read: a line of
  any kind, or half a one, is a message `RECEIVE`.
- The receiver's message thread takes the messages, reads the line out of that shared buffer,
  writes the status to the socket and calls `FileWritter::NewFile`.
- One writer thread serves all connections. `quenf_` has no lock; the condition variable is
  waited for with a mutex of the waiting thread's own stack.
- `thread_idle` sweeps the table every minute under a mutex the acceptor takes as well, and
  destroys receivers (joining their message threads) under it. `StopService` does not take it.
- `thread_autofree` assigns `pathRoot_` while the writer copies it.
- The writer registers each file through one `DataTransfer` object, and ignores what it says.
- Every thread writes to the one `GLog`, whose own thread flushes it.
- `main` makes the process a daemon, takes the lock on the PID file, and has the configuration
  loaded and, at the end, saved by the agent's `param_config`.

What is hard here is the interleaving of these threads (nearly all state is shared without a
lock), then the ordering of statuses against state changes, the reuse of `FileInfo` objects by
reference count, and disconnections at any moment. What survives a process is the stored
files, the PID file and the configuration. The
places are listed, line by line, under `hazards` in `PROJECT.json`.

## Modules

**FileStore** is what the writer promises: a FIFO of accepted files, each stored once and in
order, that comes up once and goes down once. `FileWritter` is shown to implement it, and
`FileReceiver` uses it in place of the writer.

**FileWritter** is the detailed writer. `push_back` is two steps (construct in the cell at
`end()`, then advance) because two connections may be in it at once; `notify_one` is a third.
`thread_monitor` has one action per test, wait, sleep and step of `save_first`. The deque is
the cells `mem` and two positions `first`, `last`. `sinceClear` is a history variable, capped
at `HistoryCap`.

**FileReceiver** is one connection, step by step: client, I/O thread, message thread, writer.
TCP is a sequence of tokens, cut into reads of up to `PackUnits` tokens; a `fileinfo` line may
be split in two (`split`). `FileInfo` objects live at addresses `Objs` on a heap, with
`use_count` computed from who holds a pointer; `NoMemory` is `make_shared` finding none free,
which ends the process. The client follows `AsciiProtocol.h`, may send
heartbeats and more than it announced, and may close or reset at any time; which client it is
(`Clients`) is chosen at the start. `Orderly` clients send what they announced and no heartbeat.
A read that is longer than what is left of `filedata` is written all the same: it ends the
process, hurts nothing, or tramples the data of some other object that waits for the writer
(`Trampled`), and the history variable `overrun` says that it has happened. So is the zero that
`network_receive` stores at `bufrcv_[-1]` when `Lookup` found no end of line: the process goes on
or dies of it.

**FileTransfer** is what such a client is promised: its files are offered one at a time, granted,
taken whole by the writer or refused by it, and answered, in this order. It has no thread, queue,
buffer or byte. `FileReceiver` is shown to implement it: `Progress` reads the stage off the
receiver (what was taken, what is on its way to the client, `state_`), and `saved` is what is on
disk followed by what is queued, so that `save_first` is a step nobody outside can see.

**Sessions** is the table of connections. A receiver is `rcv[c]`, from accept to destruction. A
connection brings any number of files; of what is read only so much is told apart as decides what
happens (`file[c]`: nothing, a line or one half of it, some content, the last byte), and every read
while `state_` is `WAITING` posts one more `RECEIVE`, up to `MaxAhead` messages ahead. Which clients
send heartbeats is chosen at the start (`beating`). The module has the acceptor step by step, the
sweep with the two halves of `IsAlive`, the destruction with its join, and `StopService` with the
join of `thread_idle` and of `thread_autofree`. A read with its test of `state_` and its post is one
step here, and so is `on_receive_complete`: what falls between them is in `FileReceiver`, where the
content of files is, too. What is read of content is never taken for a line here.

**Storage** is the disks: `find_storage` one disk at a time, `free_storage` one directory at a
time with `remove_all` in two steps, and the writer's copy of `pathRoot_`, `create_directory`,
`fopen` and count of failures. The two threads and time go on whatever the others are doing: a tick
passes (`Day`) in the middle of a check or a save, and a check begins (`Noon`) whenever the last one
has ended. A save whose copy of `pathRoot_` another disk has replaced since is `stale`, and `late` says that one has stored into
the directory that is about to go. Sizes are in files, ages in ticks of a day; a full disk still
takes a directory and a name. `Zone` is the local time minus UTC.

**NTPClient** is the thread with the clock, network and server around it. Only differences of
times are kept, so that the state space is finite: the age of each message on its way out and
back, the error of the local clock, what is left of a sleep. The socket stays the same from cycle
to cycle, and with it what is still on its way: an answer is that of the last request (`own`) or of
an earlier one, and the thread takes the oldest. `MaxLate` bounds how many answers come when none,
or another, is being waited for.

**DataTransfer** is one object and a sequence of calls, each step by step through
`uploadDatas`, with every refusal. A block of memory is known by the pointer that holds it
(`ptr`: null, live or freed); a block that no pointer holds is counted in `lost`. The reply is a
sequence of pieces at positions that follow `tmpChunk->size`, so that a piece of an earlier
reply or a missing end can be seen. What is posted is left out.

**AsciiProtocol** packs and resolves. A text is a sequence of tokens (keywords, types and numbers
are one, the separators and a few letters one each), `Line`, `Split`, `ResolveKv`, `Recognise`
and `Resolve` are the functions of the code on it, and `mem` is the ten buffers as one block of
memory with what the heap has behind it: a line that is too long runs on.

**GLog** is the log, with the day of the file that is open, what stdio still holds (`buf`), how
long nothing has been written (`quiet`), the thread that flushes it and the local clock, which can be
set back.

**Daemon** is the life of processes, several at once: `isProcSingleton` call by call, the load of
the configuration, the service with its change of disks, and `~param_config` as read, cut and
write. A process can be killed at every step, and an administrator edits the configuration at any
time. The opening of the configuration for writing, which empties it, and the end of the writing are
two steps; in between the file is empty or cut. A file cut inside of an element is no XML (`NoXml`),
and the next start replaces it. One that is empty or ends between two elements is read without an
error: it says one of the settings in `Cut`, which lack a section, what it does not say stays
uninitialised, and the service is refused. `asked`, `raced` and `torn` are history variables: the
settings last asked for, whether that happened while a process rewrote the file, and whether a
process died since with the file open.

`MC...` modules hold the sets the `.cfg` files use. Operators marked *mutant* in the modules
are wrong forms of the definition after them; each property is checked to fail when its mutant
takes the definition's place.

## Runs

| Run | Instance | What it shows |
|---|---|---|
| `fw_one` | 1 connection, 2 files | Nothing accepted is lost, the writer gives up only after five failures, failed saves are resolved, the destructor returns unless the database holds the writer, and `FileWritter` implements `FileStore` |
| `fw_two` | 2 connections, 2 files | **violated** `NoAcceptedFileLost`: two `push_back` at once lose a file |
| `fw_wakeup` | 1 connection, 2 files, fair | **violated** `QueuedIsSaved`: the notification falls between the test and the wait |
| `fr_clients` | an orderly client with 3 files of 1-2 units, two others with 1 file; queue of 1 message | What an orderly client is told COMPLETE is what it sent, for it `FileReceiver` implements `FileTransfer` (each file is taken once, whole, in order and before COMPLETE is said of it), every whole file is answered; with any client queued files stay intact up to the first overrun, `tcpptr_` is not used after its reset, a left connection is let go |
| `fr_window` | 2 files, fair | **violated** `InfoIsAnswered`: a `fileinfo` before `state_` is WAITING again is dropped |
| `ss_two` | 2 connections; one sends files, with heartbeats or without | No whole file of a client without heartbeats is dropped with a queue, the mutex is given back, a left client is erased, the service stops |
| `st_disks` | 1 or 2 disks, 2 directories, 2 files each, local time is UTC, the writer ends after 2 failures | The disk chosen is the first with room, the writer agrees on it between checks, only old files are removed, only a save with a stale path meets a cleaning |
| `dt_calls` | 3 calls, replies of up to 2 pieces, every failure | No block is used or freed twice, only refused calls leak, success is exactly a whole answer 200 |
| `ap_lines` | 4 lines of 22 protocols in 3 buffers | A line resolves into what was packed exactly if the format can carry it; a line keeps for the turns the ring promises |
| `gl_days` | days of 8 s, months of 2 days, buffer of 3 lines | Entries are in the file of their day; a log that falls quiet is on the disk within two seconds; the destructor returns |
| `dm_three` | 3 instances, 3 configurations | One instance serves and the PID file names it; settings survive stops and starts, and kills but for one step; the disk in use survives stops |
| `ntp_clean` | answers in time, late, behind the next request, or never | A cycle with its own answer leaves the clock right, five cycles that asked in vain end the validity, the destructor returns |

The violated properties are what the code's own comments say of it; `findings` quotes them.

Further disagreements of the code with its comments, or with what a user must expect. The models
contain each; a property that holds excepts it by a named condition, or does not speak of it:

- A client that sends a heartbeat (FileReceiver.cpp:101, "heartbeat, not processed") can have its
  next `fileinfo` line taken for data: the message of the heartbeat resolves the line the I/O thread
  has just read and sets `state_` before that thread tests it. COMPLETE is then told for a corrupt
  file. `SavedIsSent`, `ToldIsKept`, `StatusExpected` and `ImplementsTransfer` are about `Orderly`
  clients.
- A heartbeat can also cost a whole file: it and the `fileinfo` line behind it post a `RECEIVE` each
  (FileReceiver.cpp:55-59). The first resolves the `fileinfo` line, the second finds `state_` no
  longer `WAITING` or content in the buffer and closes the connection (FileReceiver.cpp:104-107)
  while `COMPLETE` of the file is queued; the sweep sees a closed socket, and `QUIT` overtakes
  `COMPLETE`. `WholeFileIsHandedOver` excepts `beating` clients; without the exception TLC finds this
  in 17 states.
- A client that sends more than it announced tramples memory behind its own data
  (FileReceiver.cpp:56-57), where files of any connection wait: `overrun` in `QueuedIntact`.
- COMPLETE is said also of a file that `NewFile` refused because the writer had ended
  (FileWritter.cpp:54): `refused` in `ToldIsKept`.
- The writer ends after five failures that need not be in a row (FileWritter.cpp:75, 79): `errcnt` is
  cleared only when another file is queued. `GiveUpOnlyAfterFiveFailures` counts as the code does.
- `IsAlive` counts owners, and `handle_accept` is one until it returns: a sweep at that moment
  erases a connection whose client is there. `LeftIsErased` is the other direction.
- "Delete all data of 3 days ago" (TransferAgent.cpp:100) subtracts a file time in UTC from the local
  time: east of Greenwich younger files go. `RecentIsKept` speaks of `Zone <= 0`, and is violated
  with a positive one.
- An answer of the NTP server that comes after its `select` has timed out is taken for the next
  cycle's (NTPClient.cpp:173) and sets the clock wrong by half of what it is late.
  `AnsweredIsAccurate` is about cycles that took their own answer.
- "The offset is valid for 5 cycles" (NTPClient.cpp:129), but a cycle that fails in `getaddrinfo` or
  `socket` is not counted (NTPClient.cpp:104-106), and an old offset stays valid for as long as that
  goes on: `skipped` in `FailuresInvalidate`.
- The log is to be written when it exceeds 1 KB or is quiet for a second (GLog.h:11). The thread
  tests the second only (GLog.cpp:74); of a busy log stdio alone decides. `QuietIsFlushed` is about
  the second.
- A log that was silent from one day of a month to the same day of another goes on in the old
  file: `SilentForMonths` in `EntryInOwnDay`.
- A process that is killed between the opening of the configuration and the end of the writing
  (parameter.h:60) loses what was configured, and a file that it leaves empty or cut between two
  elements is not replaced by the defaults either, because `read_xml` takes it (parameter.h:130):
  every start from then on is refused until somebody edits it. `torn` in `SettingsAreAsked`.
- `CHECK_STRING_NULL_OR_EMPTY` prints the code 3007 and returns 3004 (data.h:59-64).

Bounds. Two connections are enough for every race on `quenf_` and the table, which are between two
actors. Three files with a queue of one message let a `FileInfo` be queued, being written and
being filled at once, and let the I/O thread block on a full queue. A file of two units can be cut
anywhere by reads of two tokens. One heartbeat and one surplus unit each give one message the
protocol does not count on. Six failures are one more than the limit. Two disks of two files fill
up, rotate and wrap; one disk makes cleaning meet the writer. The writer of
`st_disks` ends after two failures, so that one is survived. The disks of a run are alike, and so are
its directories, whose symmetry is used. Two messages ahead in `ss_two` are a heartbeat and a
`fileinfo`, a line in two halves, or a `RECEIVE` that is left over before a `COMPLETE`. The NTP instance has a sleep longer
than the timeout, a drift (2) that alone reaches the accuracy demanded (2), so that a client that
never sets the clock fails, answers that are late by a whole cycle, and six cycles for five
failures. `fr_clients` has one connection at a time; the
connections of `Sessions` share nothing that `FileReceiver` holds but the writer. Three calls of
`DataTransfer` let a call that fails come between two that do not, and two pieces are one before
and one behind another. Three buffers and four lines make the ring wrap and one line too long run
into its neighbour. Three instances are one that serves, one that is refused and one that comes
after a kill. The days of `gl_days` are long enough for a flush inside a day and the clock runs
over two months.

Fairness. Each thread of the server is weakly fair: they are ordinary threads with no priorities and
their sleeps end. The one call that may block for ever is the registration: `DataTransfer` gives
curl no timeout, so the writer owes no progress while it waits for the database (`AtDatabase`), and
its liveness properties except that wait. Weak fairness is enough for the table's mutex, too: each
connection is accepted once, so the acceptor leaves it alone in the end. A check of the disks ends
(`FreeEnds`), which `StopService` waits for: it is a loop over directories. A client is fair only in
taking statuses that have arrived and in finishing a file it has begun; it need not connect, send or
leave. Spurious wake-ups, failures, drifts, stops and the network have no fairness. The flushing
thread of `GLog` and the rest of a destruction that has begun are fair; seconds pass only when no
thread has something to do (`Tick`). `DataTransfer`, `AsciiProtocol`,
`Storage` and `Daemon` state no liveness.

## Proofs

TLC checked each inductive invariant below on the instance of its run before it was proved. A
`...Proofs` module holds, in this order, the parts of the invariant, the lemmas about the
operators, one lemma for each group of actions, and the theorems. What the theorems assume is
what the modules name (positive sizes, finite sets, values that are different from `NoFile`,
`NoObj` and `NoXml`, defaults with a disk) and what is said here.

`FileWritterProofs`, for any connections and files:

- `TypeCorrect`: `TypeOK`. In particular `errcnt <= 5`, which needs to know where the counter is
  compared before it is counted.
- `GivesUpLate`: the monitor ends only after five failed saves since `errcnt` was cleared. The
  property alone is not inductive: `CountInv` adds that `errcnt` never runs ahead of the
  failures at each point of the loop.
- `OneConnectionLosesNothing`: under `Receivers = {r}`, no accepted file is lost. `LossInv` adds
  the shape of the deque while an element is built (`DequeInv`), that the disk holds the first
  files of the queue in order and what the cell in front is while it is saved (`DiskInv`), and
  where each accepted file is (`OnItsWay`). The assumption cannot go: `fw_two` is the
  counterexample with two connections.
- `OneConnectionStores`: under the same assumption `FileWritter` implements `FileStore`, step by
  step: `PushConstruct` is `Accept` (nobody else builds in that cell), `Write` is `Store`, the
  start and the end of the thread are `Open` and `Halt`, and every other step stutters. It needs
  `LossInv`, for the cell that is written to be the head of what waits, and `StartInv`.

`FileReceiverProofs`, for any files, sizes, clients, number of objects and length of the queue:

- `TypeCorrect`: `TypeOK`, from `TypeInv`, which adds that there is a `FileInfo` wherever
  `fileptr_` is followed (`HasFileInfo`): a message `COMPLETE` is posted only while there is one,
  and `CLOSE` cannot overtake it.
- `NeverUsedAfterReset`: `NoUseAfterReset`, from `CloseInv`: `CLOSE` is the last thing an I/O
  thread posts, stands last in the queue and is taken once.
- `QueuedStaysIntact`: `QueuedIntact`, that is, up to the first overrun, from `QueuedWhole`:
  `fileptr_` may be an object that is
  queued, but then it is full, so that the I/O thread has nothing left to write to; and an
  object is taken for the next file only when `use_count` says that nobody else holds it.
- `SavedFilesAreWhole`, `ToldFilesAreKept`, `StatusesInOrder`, `OrderlyIsServed`, of orderly
  clients, from `TransferInv`: one file at a time goes through eight stages (`Idle`, `Offered`,
  `Tested`, `Announced`, `Ready`, `Sending`, `Complete`, `Answered`), each of which says where
  the client is, what is on the network in both directions, what the I/O thread has in hand,
  what is in the queue, where the message thread is, and, in `Sending`, that what was received,
  what was just read and what is on its way are together the units sent so far, in order. That
  the two threads and the client are never in two stages at once is the whole argument, and
  what a heartbeat breaks.
- `OrderlyTransfers`: `Spec => ImplementsTransfer`, the refinement of `FileTransfer`, for files of
  any size, empty ones too; `OrderlyIsTransfer` is the same as `Spec /\ Orderly => TransferSpec`.
  `OnceInv` adds to the stages that a file is offered before it is taken and that one that is taken
  is with the status or behind it (`Settled`), so it is never taken twice. `SavedSteps` says that
  what is on disk and queued changes only when `on_receive_complete` adds the client's whole file: a
  `FileInfo` that is reused too early would change an entry, and the move from the queue to the disk
  changes none (`HeadMoves`). `ClientTransfers` and `MsgTransfers` then map each step; the I/O
  thread and the writer stutter.

`SessionsProofs`, for any connections:

- `TypeCorrect`: `TypeOK`.
- `WholeFilesAreHandedOver`: `WholeFileIsHandedOver`, for any number of files on each connection, of
  clients that send no heartbeats, from `HandedInv`. `QUIT` overtakes what is queued, so a receiver
  must not be stopped while `COMPLETE` waits. `thread_idle` stops one whose client is reset or whose
  socket is closed. The client is reset by `CLOSE`, which stands behind `COMPLETE` (`HandOver`). The
  socket is closed by the message thread when it takes a `RECEIVE` and finds something else than a
  `fileinfo` line. Each read while `state_` is `WAITING` posts one; but such a client has one line
  under way at a time, READY is said of it by the last `RECEIVE` it has caused, or by none, and so no
  `RECEIVE` is left when its content comes. A socket that is closed is closed over a line in two
  pieces, before any content (`StoppedInv`).

`StorageProofs`, for any number and size of disks, whatever an earlier run has left on them:

- `TypeCorrect`: `TypeOK`, and with it that no disk holds more than it can. `Used` counts files; the
  lemmas say that one file more in one directory is one more on the disk, that a directory
  holds no more than its disk, and that counting is monotone.
- `PathFollowsConfiguration`: `RootIsCurrent`, from `RootInv`: from the start of a check to the
  assignment `pathRoot_` is the disk the check began with.
- `FirstDiskIsFound`: `FirstWithRoom`, from `ProbeInv`: the disks `find_storage` has passed are the
  first `i` from the one in use, wrapped once, and stay too full, for nobody but the writer
  touches them meanwhile (`StaysTooFull`, `WriterFills`); after all of them the wrap has met every
  disk, so that nothing is removed while one has room.
- `RecentFilesStay`: `RecentIsKept`, an action property, from `RemoveInv`: between the look at the
  age and `remove_all` nobody stores into the directory but a stale save, because the writer is
  otherwise on the disk of `RootInv` (`WriterInv`), and the disk that is cleaned is the next one,
  which is another one. It speaks of more than one disk and of a local time not ahead of UTC.
- `CleaningIsApart`: `SavesMeetNoCleaning`, an action property, by the same argument.

`NTPClientProofs`, for any times:

- `TypeCorrect`: `TypeOK`.
- `FiveFailuresInvalidate`: `FailuresInvalidate`, from `CountInv`. `missed` counts every cycle without
  an answer, `nfail_` only those that asked: they are equal unless one was `skipped`.
- `AnsweredClockIsAccurate`: `AnsweredIsAccurate`, an action property, from `ExchangeInv`. Nothing is
  assumed of the network: a message of the last request is as old as the time spent in `select`,
  during which the local clock does not drift in the model, so that the four times of an answer of
  its own belong to one exchange, whatever comes of earlier ones.

`DataTransferProofs`, for any number of calls, length of a reply and room for the status:

- `NothingIsMisused`: `NoMisuse`, from `OwnerInv` (who owns which block between two steps of a
  call: `tmpChunk->memory` dangles between calls and is set before it is used).
- `LeaksAreFailures`: `OnlyFailuresLeak`, from `LeakInv`: a block that still hangs on a pointer which
  the next call overwrites is already paid for by the failure of its own call.
- `AnswersAreWhole`: `SuccessIsAnswer`, from `AnswerInv`: `size` is the number of pieces, which lie
  one behind another.

`BufferProofs`, for days, months and buffers of any length:

- `QuietLogIsFlushed`: `QuietIsFlushed`, from `FlushInv`: by the log's clock two seconds at most have
  passed since the last line while lines are buffered, and each step back of the clock costs one
  second.
- `EntriesInOwnDay`: `EntryInOwnDay`, an action property, from `DayInv`.
- `RecentLinesIntact`, of `AsciiProtocol`: `RecentIntact`, for any number and length of buffers and
  any lines, from `RingInv`: two lines of the last `NBuf` are in different buffers (`InTurn`), and
  a line that fits ends before the next buffer begins. It rests on the two assumptions of
  the module, which TLC evaluates in `ap_lines`: that there are buffers (`BufferAssumption`), and
  that what a protocol packs into is a sequence of tokens (`LinesAreTexts`), which is assumed
  because `Line` is a fold.

`DaemonProofs`, for any set of processes and any settings:

- `TypeCorrect`: `TypeOK`.
- `OneServes`: `AtMostOneServes`. It is not inductive; `LockInv` is (a process from the lock on owns
  it), because the descriptor of the PID file is never closed before the process ends.
- `PidFileIsRight`: `PidFileNamesIt`, from `PidInv` and `LockInv`: whoever cuts or writes the PID
  file has the lock, so no other process is named at that time.
- `SettingsStay`: `SettingsAreAsked`, from `SetInv`, which adds what a process that is about to
  write has read. It holds over kills, `InitFile` included, but for one that leaves the file open
  and not written (`torn`).
- `DiskIsKept`: `StopKeepsDisk`, from `IndexInv`: the file keeps the index the process loaded until
  the process writes its own, whatever the administrator does.

TLC only, and why:

- everything about liveness: it needs fairness and ENABLED, which the provers do not reason about;
- `RoundTrip` of `AsciiProtocol`: lines are built and resolved with folds and filters over
  sequences of any length, and what these compute takes an induction over the data, which the
  provers cannot do;
- the refinement of `FileTransfer` for clients that are not orderly: a heartbeat breaks it;
- the refinement of `FileStore` with more than one connection: it is false (`fw_two`).

## Abstractions and what is not modelled

- A data race on the deque or on `pathRoot_` is a choice over what a build can do: the position
  is the one read before or is read again; the copied path is old, new, or garbage that
  `create_directory` throws at. An exception that leaves a thread ends the process (`crashed`),
  and properties are stated up to it.
- File attributes, log texts, the notice file's contents, partial writes of a status line and
  failures of the message queue are left out.
- `NoAcceptedFileLost` does not say that a stored file is whole or registered: the code tests
  neither `fwrite` nor `regOrigImage` (both outcomes are in the model).
- With a single disk the writer may store into a directory that is being removed and
  `RecentIsKept` fails; it and `SavesMeetNoCleaning` are stated for more than one.
- Files still queued when the writer is destroyed are dropped (FileWritter.cpp:28-31), and
  `NoAcceptedFileLost` ends there.
- An empty file (`filesize` 0) is never answered; `fr_clients`, which asks for answers, has none.
  What `FileReceiverProofs` says holds of empty files too.
- `DataTransfer`: names and values of the parameters, the wording of the status, `#ifdef DEBUG`.
  The first byte of the reply and the form are always granted. An empty reply is printed without
  an end, and a long one overruns `statusstr` (200 bytes in FileWritter.cpp:106); both are undefined
  and may kill the process. The header list that would drop "Expect" is built and never used.
- `AsciiProtocol`: upper and lower case, and the empty pointer (NULL is returned).
- `GLog`: a log on stdout or stderr, and the text of entries.
- `Daemon`: the two forks are one step, for nothing is shared before them; "ftserver -d" writes a new
  configuration in the current directory and is left out; a stop is the end of `StopService`, whose
  steps are in `Sessions`. Server, NTP and database settings are one value with the list of disks
  (`LoadFile` looks for them one level too deep, parameter.h:134-143, and always takes the
  defaults). A list of disks that was made shorter than half its index kills the next start
  (`FindStorage`), since the search takes the length off the index once only.
- The buffered mode of `TCPClient` (rings, `Read` from a position, `start_write`) is not modelled:
  nothing in the program calls `UseBuffer`. `free_template` deletes files the way
  `free_storage` does, from a list nothing else reads.
- `IOServiceKeep` is a thread per socket; the models have the thread, not the class.

## Plan

In this order:

1. `free_template` in `Storage`, and `Sessions` with the server created and refused.
2. The buffered mode of `TCPClient`, should something switch it on.
3. A receiver that does not test `state_` while the message thread changes it: `FileTransfer` is what
   such a change would have to implement for every client, with a heartbeat too.
