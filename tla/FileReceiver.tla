----------------------------- MODULE FileReceiver -----------------------------
(***************************************************************************)
(* src/src/FileReceiver.{h,cpp} with the parts of tcpasio.{h,cpp} and      *)
(* MessageQueue.{h,cpp} it runs on: one connection, from the first         *)
(* fileinfo line to the disconnection.                                     *)
(*                                                                         *)
(* Four parties: the client (external, it follows AsciiProtocol.h), the    *)
(* I/O thread of the TCPClient (network_receive), the message thread of    *)
(* the receiver (on_network_receive, on_receive_complete,                  *)
(* on_network_close) and the file writer, here its abstraction FileStore.  *)
(* The TCPClient is not buffered (UseBuffer is never called): each read    *)
(* overwrites its bufrcv_, whoever was still to look at it.                *)
(*                                                                         *)
(* Data.  A fileinfo line is the token [is |-> "info"], or "head" and      *)
(* "tail" when TCP splits it; a filestat line sent by the client as a      *)
(* heartbeat is "hb"; the content of file f is the units "data" 1..Size[f].*)
(* Left out: the file's attributes, the texts of the log, partial writes   *)
(* of a status line.  Stop() and the table of connections are elsewhere.   *)
(***************************************************************************)
EXTENDS Naturals, Sequences, FiniteSets

CONSTANTS Files,       \* the files the client has
          NoFile,
          Size,        \* their sizes, in units
          Objs,        \* addresses of FileInfo objects
          NoObj,       \* the empty smart pointer
          PackUnits,   \* TCP_PACK_SIZE, in tokens
          QueueCap,    \* capacity of the message queue (1024 in the code)
          Clients      \* the clients there may be: the files of each, bounds on the
                       \* heartbeats it sends and on the units each file has beyond
                       \* its filesize, and whether TCP splits its fileinfo lines

ASSUME SizeAssumption == Size \in [Files -> Nat]
ASSUME ObjsAssumption == NoObj \notin Objs
ASSUME BoundsAssumption ==
  /\ PackUnits \in Nat \ {0}
  /\ QueueCap \in Nat \ {0}
  /\ Clients \subseteq [files : SUBSET Files, beats : Nat, surplus : [Files -> Nat],
                       split : BOOLEAN]
  /\ NoFile \notin Files

VARIABLES
  \* client and connection
  client,    \* which of the Clients it is
  cpc,       \* where the client is
  cfile,     \* the file it is sending
  csent,     \* how many units of it were sent
  todo,      \* files it has not offered yet
  beats,     \* heartbeats it sent
  c2s,       \* bytes on their way to the server, as tokens
  s2c,       \* statuses on their way to the client
  peer,      \* the client's side: "open", "fin" (closed), "rst" (reset)
  told,      \* history: files the client was told are COMPLETE
  \* I/O thread
  iopc,      \* where the I/O thread is
  iomsg,     \* the message it is about to post
  rx,        \* TCPClient::bufrcv_[0 .. bytercv_ - 1]
  \* message thread
  mpc,       \* where the message thread is
  mq,        \* mq_
  found,     \* pos + len of on_network_receive
  \* the receiver's members
  state,     \* state_
  fileptr,   \* fileptr_
  line,      \* bufrcv_ of the receiver
  tcp,       \* tcpptr_ is set
  open,      \* sock_.is_open()
  \* the heap and the writer
  heap,      \* FileInfo objects
  pending, stored, phase,   \* the writer's queue, as in FileStore
  held,      \* ptr of save_first
  disk,      \* history: what was written, as [file, data]
  refused,   \* history: complete files NewFile refused
  overrun,   \* DataArrive has written beyond filedata
  crashed    \* the process has died

clientVars == <<client, cpc, cfile, csent, todo, beats, told>>
netVars    == <<c2s, s2c, peer>>
ioVars     == <<iopc, iomsg, rx>>
msgVars    == <<mpc, found>>
rcvVars    == <<state, fileptr, line, tcp, open>>
storeVars  == <<pending, stored, phase>>
writerVars == <<storeVars, held, disk>>
vars == <<clientVars, netVars, ioVars, msgVars, mq, rcvVars, heap, writerVars,
          refused, overrun, crashed>>

Writer == INSTANCE FileStore WITH Files <- Objs

Info(f) == [is |-> "info", file |-> f, unit |-> 0]
Head1(f) == [is |-> "head", file |-> f, unit |-> 0]
Tail1(f) == [is |-> "tail", file |-> f, unit |-> 0]
Data(f, i) == [is |-> "data", file |-> f, unit |-> i]
Heartbeat == [is |-> "hb", file |-> NoFile, unit |-> 0]

Tokens == [is : {"info", "head", "tail", "data", "hb"},
           file : Files \cup {NoFile}, unit : Nat]

Content(f) == [i \in 1 .. Size[f] |-> Data(f, i)]       \* what f should hold

\* What fwrite writes: the memory of filedata, received or not.
Unwritten == Data(NoFile, 0)
Written(o) == [i \in 1 .. heap[o].size |->
                 IF i <= Len(heap[o].data) THEN heap[o].data[i] ELSE Unwritten]

ClientOK ==
  /\ client \in Clients
  /\ cpc \in {"idle", "await", "send", "confirm", "gone"}
  /\ cfile \in Files \cup {NoFile}
  /\ csent \in Nat
  /\ todo \subseteq Files
  /\ beats \in 0 .. client.beats
  /\ told \subseteq Files

NetOK ==
  /\ c2s \in Seq(Tokens)
  /\ s2c \in Seq({"READY", "COMPLETE", "FAILURE"})
  /\ peer \in {"open", "fin", "rst"}

IoOK ==
  /\ iopc \in {"reading", "test", "arrive", "waiting", "post", "ended"}
  /\ iomsg \in {"RECEIVE", "COMPLETE", "CLOSE"}
  /\ rx \in Seq(Tokens)

ReceiverOK ==
  /\ mpc \in {"receive", "lookup", "read", "resolve", "complete", "done",
              "notify", "rewait", "close"}
  /\ mq \in Seq({"RECEIVE", "COMPLETE", "CLOSE"}) /\ Len(mq) <= QueueCap
  /\ found \in Nat
  /\ state \in {"WAITING", "READY", "COMPLETE", "FAILURE"}
  /\ fileptr \in Objs \cup {NoObj}
  /\ line \in Seq(Tokens)
  /\ tcp \in BOOLEAN
  /\ open \in BOOLEAN

HeapOK ==
  heap \in [Objs -> [size : Nat, file : Files \cup {NoFile}, data : Seq(Tokens)]]

WriterOK ==
  /\ pending \in Seq(Objs)
  /\ stored \in Seq(Objs)
  /\ phase \in {"starting", "up", "down"}
  /\ held \in Objs \cup {NoObj}
  /\ disk \in Seq([file : Files \cup {NoFile}, data : Seq(Tokens)])

TypeOK ==
  /\ ClientOK
  /\ NetOK
  /\ IoOK
  /\ ReceiverOK
  /\ HeapOK
  /\ WriterOK
  /\ refused \subseteq Files
  /\ overrun \in BOOLEAN
  /\ crashed \in BOOLEAN

Init ==
  /\ client \in Clients
  /\ cpc = "idle" /\ cfile = NoFile /\ csent = 0
  /\ todo = client.files /\ beats = 0 /\ told = {}
  /\ c2s = <<>> /\ s2c = <<>> /\ peer = "open"
  /\ iopc = "reading" /\ iomsg = "RECEIVE" /\ rx = <<>>
  /\ mpc = "receive" /\ found = 0 /\ mq = <<>>
  /\ state = "WAITING" /\ fileptr = NoObj /\ line = <<>>
  /\ tcp = TRUE /\ open = TRUE
  /\ heap = [o \in Objs |-> [size |-> 0, file |-> NoFile, data |-> <<>>]]
  /\ Writer!StoreInit
  /\ held = NoObj /\ disk = <<>>
  /\ refused = {} /\ overrun = FALSE /\ crashed = FALSE

-----------------------------------------------------------------------------
(* The client, as AsciiProtocol.h describes it: announce a file, wait for   *)
(* READY, send the content, wait for COMPLETE or FAILURE, next file.        *)

ClientOnly == UNCHANGED <<client, ioVars, msgVars, mq, rcvVars, heap,
                          writerVars, refused, overrun, crashed>>

Offer(f) ==
  /\ cpc = "idle"
  /\ f \in todo
  /\ cpc' = "await" /\ cfile' = f /\ csent' = 0 /\ todo' = todo \ {f}
  /\ \/ c2s' = Append(c2s, Info(f))
     \/ client.split /\ c2s' = c2s \o <<Head1(f), Tail1(f)>>
  /\ UNCHANGED <<beats, told, s2c, peer>>
  /\ ClientOnly

SendUnit ==
  /\ cpc = "send"
  /\ csent < Size[cfile]
  /\ csent' = csent + 1
  /\ c2s' = Append(c2s, Data(cfile, csent + 1))
  /\ UNCHANGED <<cpc, cfile, todo, beats, told, s2c, peer>>
  /\ ClientOnly

\* The file has grown since its size was announced.
SendSurplus ==
  /\ cpc = "send"
  /\ csent \in Size[cfile] .. Size[cfile] + client.surplus[cfile] - 1
  /\ csent' = csent + 1
  /\ c2s' = Append(c2s, Data(cfile, csent + 1))
  /\ UNCHANGED <<cpc, cfile, todo, beats, told, s2c, peer>>
  /\ ClientOnly

AllSent ==
  /\ cpc = "send"
  /\ csent >= Size[cfile]
  /\ cpc' = "confirm"
  /\ UNCHANGED <<cfile, csent, todo, beats, told, netVars>>
  /\ ClientOnly

\* The statuses the client acts on.  Any other one at any other time is
\* outside the protocol, and the client hangs up.
ClientReceive ==
  /\ cpc # "gone"
  /\ s2c # <<>>
  /\ s2c' = Tail(s2c)
  /\ \/ /\ cpc = "await" /\ Head(s2c) = "READY"
        /\ cpc' = "send"
        /\ UNCHANGED <<cfile, peer, told>>
     \/ /\ cpc = "confirm" /\ Head(s2c) \in {"COMPLETE", "FAILURE"}
        /\ cpc' = "idle" /\ cfile' = NoFile
        /\ told' = IF Head(s2c) = "COMPLETE" THEN told \cup {cfile} ELSE told
        /\ UNCHANGED peer
     \/ /\ ~ \/ cpc = "await" /\ Head(s2c) = "READY"
             \/ cpc = "confirm" /\ Head(s2c) \in {"COMPLETE", "FAILURE"}
        /\ cpc' = "gone" /\ peer' = "fin"
        /\ UNCHANGED <<cfile, told>>
  /\ UNCHANGED <<csent, todo, beats, c2s>>
  /\ ClientOnly

\* A filestat line between files: the receiver's comment calls it a heartbeat.
Beat ==
  /\ cpc = "idle"
  /\ beats < client.beats
  /\ beats' = beats + 1
  /\ c2s' = Append(c2s, Heartbeat)
  /\ UNCHANGED <<cpc, cfile, csent, todo, told, s2c, peer>>
  /\ ClientOnly

\* The client leaves, in order or not; a client that has closed its socket
\* answers what it still receives with a reset.
Disconnect ==
  /\ \/ /\ peer = "open"
        /\ peer' \in {"fin", "rst"}
     \/ /\ peer = "fin"
        /\ peer' = "rst"
  /\ cpc' = "gone"
  /\ UNCHANGED <<cfile, csent, todo, beats, told, c2s, s2c>>
  /\ ClientOnly

-----------------------------------------------------------------------------
(* The I/O thread of the connection: handle_read and network_receive.       *)

IoOnly == UNCHANGED <<clientVars, msgVars, state, tcp, open, writerVars,
                      refused>>

\* After the callback, start_read() if the socket is still open.
Rearm == iopc' = IF open THEN "reading" ELSE "ended"

\* async_read_some and handle_read: what has arrived, at most a pack, replaces
\* what bufrcv_ held.
ReadSome ==
  /\ iopc = "reading"
  /\ open
  /\ peer # "rst"
  /\ \E n \in 1 .. PackUnits :
       /\ n <= Len(c2s)
       /\ rx' = SubSeq(c2s, 1, n)
       /\ c2s' = SubSeq(c2s, n + 1, Len(c2s))
  /\ iopc' = "test"
  /\ UNCHANGED <<s2c, peer, iomsg, mq, fileptr, line, heap, overrun, crashed>>
  /\ IoOnly

\* The read ends with an error: end of stream, reset, or Close() aborted it.
ReadError ==
  /\ iopc = "reading"
  /\ \/ peer = "fin" /\ c2s = <<>>
     \/ peer = "rst"
     \/ ~open
  /\ iopc' = "post" /\ iomsg' = "CLOSE"
  /\ UNCHANGED <<netVars, rx, mq, fileptr, line, heap, overrun, crashed>>
  /\ IoOnly

\* else if (state_ == READY)
TestReady ==
  /\ iopc = "test"
  /\ iopc' = IF state = "READY" THEN "arrive" ELSE "waiting"
  /\ UNCHANGED <<netVars, iomsg, rx, mq, fileptr, line, heap, overrun, crashed>>
  /\ IoOnly

\* else if (state_ == WAITING); anything read in another state is forgotten.
TestWaiting ==
  /\ iopc = "waiting"
  /\ \/ /\ state = "WAITING"
        /\ iopc' = "post" /\ iomsg' = "RECEIVE"
     \/ /\ state # "WAITING"
        /\ Rearm /\ UNCHANGED iomsg
  /\ UNCHANGED <<netVars, rx, mq, fileptr, line, heap, overrun, crashed>>
  /\ IoOnly

\* Mutants: complete one unit early; only when too much came.
DataArriveEarly ==
  /\ iopc = "arrive"
  /\ line' = rx
  /\ heap' = [heap EXCEPT ![fileptr].data = @ \o rx]
  /\ IF Len(heap'[fileptr].data) + 1 >= heap[fileptr].size
       THEN iopc' = "post" /\ iomsg' = "COMPLETE"
       ELSE Rearm /\ UNCHANGED iomsg
  /\ UNCHANGED <<netVars, rx, mq, fileptr, overrun, crashed>>
  /\ IoOnly
DataArriveLate ==
  /\ iopc = "arrive"
  /\ line' = rx
  /\ heap' = [heap EXCEPT ![fileptr].data = @ \o rx]
  /\ IF Len(heap'[fileptr].data) > heap[fileptr].size
       THEN iopc' = "post" /\ iomsg' = "COMPLETE"
       ELSE Rearm /\ UNCHANGED iomsg
  /\ UNCHANGED <<netVars, rx, mq, fileptr, overrun, crashed>>
  /\ IoOnly

Owned == {held} \cup {pending[i] : i \in DOMAIN pending}    \* by the writer

\* What a copy beyond filedata may do to the heap: nothing that counts, or change
\* a unit of another file that waits for the writer.
Trampled(h) ==
  {h} \cup UNION {{[h EXCEPT ![o].data[k] = rx[Len(rx)]] : k \in DOMAIN h[o].data} :
                    o \in Owned \ {NoObj, fileptr}}

\* Read into the receiver's bufrcv_ and DataArrive, which copies the whole read.
\* Beyond filedata this is undefined: the process dies, or the heap is trampled on.
DataArrive ==
  /\ iopc = "arrive"
  /\ line' = rx
  /\ LET arrived == [heap EXCEPT ![fileptr].data = @ \o rx]
         size    == heap[fileptr].size
         rcvsize == Len(arrived[fileptr].data)
     IN /\ IF rcvsize > size
             THEN /\ heap' \in Trampled(arrived)
                  /\ overrun' = TRUE /\ crashed' \in BOOLEAN
             ELSE heap' = arrived /\ UNCHANGED <<overrun, crashed>>
        /\ IF rcvsize >= size
             THEN iopc' = "post" /\ iomsg' = "COMPLETE"
             ELSE Rearm /\ UNCHANGED iomsg
  /\ UNCHANGED <<netVars, rx, mq, fileptr>>
  /\ IoOnly

\* Mutants: the queue has no limit; a full queue drops the message; the read is
\* started again after an error.
PostUnlimited ==
  /\ iopc = "post"
  /\ mq' = Append(mq, iomsg)
  /\ IF iomsg = "CLOSE" THEN iopc' = "ended" ELSE Rearm
  /\ UNCHANGED <<netVars, iomsg, rx, fileptr, line, heap, overrun, crashed>>
  /\ IoOnly
PostOrDrop ==
  /\ iopc = "post"
  /\ mq' = IF Len(mq) < QueueCap THEN Append(mq, iomsg) ELSE mq
  /\ IF iomsg = "CLOSE" THEN iopc' = "ended" ELSE Rearm
  /\ UNCHANGED <<netVars, iomsg, rx, fileptr, line, heap, overrun, crashed>>
  /\ IoOnly
PostRearms ==
  /\ iopc = "post"
  /\ Len(mq) < QueueCap
  /\ mq' = Append(mq, iomsg)
  /\ Rearm
  /\ UNCHANGED <<netVars, iomsg, rx, fileptr, line, heap, overrun, crashed>>
  /\ IoOnly

\* PostMessage: send() blocks while the queue is full.
Post ==
  /\ iopc = "post"
  /\ Len(mq) < QueueCap
  /\ mq' = Append(mq, iomsg)
  /\ IF iomsg = "CLOSE" THEN iopc' = "ended" ELSE Rearm
  /\ UNCHANGED <<netVars, iomsg, rx, fileptr, line, heap, overrun, crashed>>
  /\ IoOnly

-----------------------------------------------------------------------------
(* The message thread: thread_message and the three handlers.               *)

MsgOnly == UNCHANGED <<clientVars, c2s, peer, ioVars, overrun>>

Dispatch ==
  /\ mpc = "receive"
  /\ mq # <<>>
  /\ mq' = Tail(mq)
  /\ mpc' = CASE Head(mq) = "RECEIVE"  -> "lookup"
              [] Head(mq) = "COMPLETE" -> "complete"
              [] Head(mq) = "CLOSE"    -> "close"
  /\ UNCHANGED <<s2c, found, rcvVars, heap, writerVars, refused, crashed>>
  /\ MsgOnly

\* on_network_receive: Lookup("\n").  0 stands for pos = -1.
IsLine(t) == t.is \in {"info", "tail", "hb"}
EndsFirstLine(s, i) == IsLine(s[i]) /\ \A j \in 1 .. i - 1 : ~IsLine(s[j])
FirstLine(s) ==
  IF \E i \in DOMAIN s : EndsFirstLine(s, i)
    THEN CHOOSE i \in DOMAIN s : EndsFirstLine(s, i)
    ELSE 0

Lookup ==
  /\ mpc = "lookup"
  /\ found' = FirstLine(rx)
  /\ mpc' = "read"
  /\ UNCHANGED <<s2c, mq, rcvVars, heap, writerVars, refused, crashed>>
  /\ MsgOnly

\* Read(pos + len): with nothing found it reads nothing, and the buffer still
\* holds what it held; the 0 is then written before its first byte, into the
\* allocator's header, which an allocator that checks it does not survive.  rx may
\* have been overwritten since Lookup.
ReadLine ==
  /\ mpc = "read"
  /\ crashed' \in IF found = 0 THEN BOOLEAN ELSE {FALSE}
  /\ line' = IF found = 0 THEN line
             ELSE SubSeq(rx, 1, IF found < Len(rx) THEN found ELSE Len(rx))
  /\ mpc' = "resolve"
  /\ UNCHANGED <<s2c, found, mq, state, fileptr, tcp, open, heap, writerVars,
                 refused>>
  /\ MsgOnly

Announces(f) == line \in {<<Info(f)>>, <<Head1(f), Tail1(f)>>}

Referenced == {fileptr} \cup Owned
UseCount == IF fileptr = NoObj THEN 0
            ELSE 1 + Cardinality({i \in DOMAIN pending : pending[i] = fileptr})
                   + (IF held = fileptr THEN 1 ELSE 0)
FreshObj == CHOOSE o \in Objs \ Referenced : TRUE

\* Mutants: the buffer is reused while the writer holds it; or whatever its size.
NeedsObjectIfNone(f) ==
  \/ UseCount = 0
  \/ UseCount = 1 /\ heap[fileptr].size # Size[f]
NeedsObjectAnySize(f) ==
  \/ UseCount = 0
  \/ UseCount > 1

\* A fileinfo: the object is reused only if nobody else holds it and its buffer
\* has the size; then notify_status(READY), whose first step sets state_.
NeedsObject(f) ==
  \/ UseCount = 0
  \/ UseCount > 1
  \/ UseCount = 1 /\ heap[fileptr].size # Size[f]

ReceiveInfo(f) ==
  /\ mpc = "resolve"
  /\ Announces(f)
  /\ NeedsObject(f) => Objs \ Referenced # {}
  /\ fileptr' = IF NeedsObject(f) THEN FreshObj ELSE fileptr
  /\ heap' = [heap EXCEPT ![fileptr'].size = IF NeedsObject(f) THEN Size[f] ELSE @,
                          ![fileptr'].file = f,
                          ![fileptr'].data = <<>>]
  /\ state' = "READY"
  /\ mpc' = "notify"
  /\ UNCHANGED <<s2c, found, mq, line, tcp, open, writerVars, refused, crashed>>
  /\ MsgOnly

\* filesize is the client's word: the memory may be refused, and nothing catches
\* the exception of new.
NoMemory(f) ==
  /\ mpc = "resolve"
  /\ Announces(f)
  /\ NeedsObject(f)
  /\ crashed' = TRUE
  /\ UNCHANGED <<s2c, mpc, found, mq, rcvVars, heap, writerVars, refused>>
  /\ MsgOnly

\* A filestat: "heartbeat, not processed".
ReceiveBeat ==
  /\ mpc = "resolve"
  /\ line = <<Heartbeat>>
  /\ mpc' = "receive"
  /\ UNCHANGED <<s2c, found, mq, rcvVars, heap, writerVars, refused, crashed>>
  /\ MsgOnly

\* Anything else: "wrong communication", Close().
ReceiveWrong ==
  /\ mpc = "resolve"
  /\ line # <<Heartbeat>>
  /\ \A f \in Files : ~Announces(f)
  /\ open' = FALSE
  /\ mpc' = "receive"
  /\ UNCHANGED <<s2c, found, mq, state, fileptr, line, tcp, heap, writerVars,
                 refused, crashed>>
  /\ MsgOnly

\* on_receive_complete: the sizes are compared, the writer takes the file or,
\* when it is not running, drops it.
ReceiveComplete ==
  /\ mpc = "complete"
  /\ heap[fileptr].size = Len(heap[fileptr].data)
  /\ \/ /\ phase = "up"
        /\ Writer!Accept(fileptr)
        /\ UNCHANGED refused
     \/ /\ phase # "up"
        /\ refused' = refused \cup {heap[fileptr].file}
        /\ UNCHANGED storeVars
  /\ mpc' = "done"
  /\ UNCHANGED <<s2c, found, mq, rcvVars, heap, held, disk, crashed>>
  /\ MsgOnly

\* notify_status(COMPLETE): state_ first.
CompleteStatus ==
  /\ mpc = "done"
  /\ state' = "COMPLETE"
  /\ mpc' = "notify"
  /\ UNCHANGED <<s2c, found, mq, fileptr, line, tcp, open, heap, writerVars,
                 refused, crashed>>
  /\ MsgOnly

\* The sizes differ: notify_status(FAILURE).
FailureStatus ==
  /\ mpc = "complete"
  /\ heap[fileptr].size # Len(heap[fileptr].data)
  /\ state' = "FAILURE"
  /\ mpc' = "notify"
  /\ UNCHANGED <<s2c, found, mq, fileptr, line, tcp, open, heap, writerVars,
                 refused, crashed>>
  /\ MsgOnly

\* tcpptr_->Write.  write_some throws if the socket is closed or the peer has
\* reset the connection, and nothing in the message thread catches it.
Notify ==
  /\ mpc = "notify"
  /\ \/ /\ open /\ peer # "rst"
        /\ s2c' = Append(s2c, state)
        /\ mpc' = IF state = "READY" THEN "receive" ELSE "rewait"
        /\ UNCHANGED crashed
     \/ /\ ~open \/ peer = "rst"
        /\ crashed' = TRUE
        /\ UNCHANGED <<s2c, mpc>>
  /\ UNCHANGED <<found, mq, rcvVars, heap, writerVars, refused>>
  /\ MsgOnly

\* state_ = WAITING, at the end of on_receive_complete.
Rewait ==
  /\ mpc = "rewait"
  /\ state' = "WAITING"
  /\ mpc' = "receive"
  /\ UNCHANGED <<s2c, found, mq, fileptr, line, tcp, open, heap, writerVars,
                 refused, crashed>>
  /\ MsgOnly

\* on_network_close: the last owner of the TCPClient lets go, the socket closes.
NetworkClose ==
  /\ mpc = "close"
  /\ tcp' = FALSE
  /\ open' = FALSE
  /\ mpc' = "receive"
  /\ UNCHANGED <<s2c, found, mq, state, fileptr, line, heap, writerVars,
                 refused, crashed>>
  /\ MsgOnly

-----------------------------------------------------------------------------
(* The writer. *)

WriterOnly == UNCHANGED <<clientVars, netVars, ioVars, msgVars, mq, rcvVars,
                          heap, refused, overrun, crashed>>

\* fwrite takes filesize bytes of the object; ptr still owns it afterwards.
SaveFirst ==
  /\ held = NoObj
  /\ Writer!Store
  /\ held' = Head(pending)
  /\ disk' = Append(disk, [file |-> heap[Head(pending)].file,
                           data |-> Written(Head(pending))])
  /\ WriterOnly

Release ==
  /\ held # NoObj
  /\ held' = NoObj
  /\ UNCHANGED <<storeVars, disk>>
  /\ WriterOnly

WriterPhase ==
  /\ Writer!Open \/ Writer!Halt
  /\ UNCHANGED <<held, disk>>
  /\ WriterOnly

-----------------------------------------------------------------------------

Client ==
  \/ \E f \in Files : Offer(f)
  \/ SendUnit
  \/ SendSurplus
  \/ AllSent
  \/ ClientReceive
  \/ Beat
  \/ Disconnect

IoThread ==
  \/ ReadSome
  \/ ReadError
  \/ TestReady
  \/ TestWaiting
  \/ DataArrive
  \/ Post

MsgThread ==
  \/ Dispatch
  \/ Lookup
  \/ ReadLine
  \/ \E f \in Files : ReceiveInfo(f) \/ NoMemory(f)
  \/ ReceiveBeat
  \/ ReceiveWrong
  \/ ReceiveComplete
  \/ CompleteStatus
  \/ FailureStatus
  \/ Notify
  \/ Rewait
  \/ NetworkClose

Next ==
  /\ ~crashed
  /\ Client \/ IoThread \/ MsgThread \/ SaveFirst \/ Release \/ WriterPhase

Spec == Init /\ [][Next]_vars

\* Both threads of the server run.  Of the client only that it takes the
\* statuses that arrive and finishes a file it has begun.
Fairness ==
  /\ WF_vars(~crashed /\ IoThread)
  /\ WF_vars(~crashed /\ MsgThread)
  /\ WF_vars(~crashed /\ ClientReceive)
  /\ WF_vars(~crashed /\ (SendUnit \/ AllSent))

FairSpec == Spec /\ Fairness

-----------------------------------------------------------------------------
(* Properties. *)

\* A client that sends what it announced and nothing else, in whole lines.
Orderly == client.beats = 0 /\ (\A f \in Files : client.surplus[f] = 0) /\ ~client.split

\* What is on disk under the name of a file is that file, whole and in order:
\* neither the reuse of FileInfo objects nor the overwriting of the read buffer
\* mixes two files or loses a part.
SavedIsSent ==
  Orderly => \A i \in DOMAIN disk : /\ disk[i].file \in Files
                                    /\ disk[i].data = Content(disk[i].file)

\* A client that was told COMPLETE can delete its copy: the file is queued with
\* its whole content, or on disk, unless the writer was not running.
ToldIsKept ==
  Orderly => \A f \in told \ refused :
    \/ \E i \in DOMAIN disk : disk[i].file = f
    \/ \E i \in DOMAIN pending : /\ heap[pending[i]].file = f
                                 /\ Written(pending[i]) = Content(f)

\* As long as no client has sent more than it announced (DataArrive copies that
\* beyond filedata), nothing touches a FileInfo between NewFile and the end of its
\* fwrite, though three threads hold pointers to it and none holds a lock.
QueuedIntact ==
  [][~overrun' => \A o \in Objs : o \in Owned =>
       heap'[o].file = heap[o].file /\ Written(o)' = Written(o)]_vars

\* The message thread never uses tcpptr_ after on_network_close has reset it:
\* no message is behind MSG_NETWORK_CLOSE in the queue.
NoUseAfterReset == ~tcp => mpc \in {"receive", "close"} /\ mq = <<>>

\* What the writer took, stored or not yet: a file and what it (would have) written.
Entry(o) == [file |-> heap[o].file, data |-> Written(o)]
Queued == [i \in DOMAIN pending |-> Entry(pending[i])]
Saved == disk \o Queued
IsKept(f) ==
  \/ \E i \in DOMAIN disk : disk[i].file = f
  \/ \E i \in DOMAIN pending : heap[pending[i]].file = f
IsTaken(f) == f \in refused \/ IsKept(f)

\* How far the client's file is, as FileTransfer counts it.
Progress ==
  IF cfile = NoFile THEN "idle"
  ELSE IF IsTaken(cfile) THEN IF mpc \in {"done", "notify"} THEN "taken" ELSE "answered"
  ELSE IF s2c = <<"READY">> THEN "granted"
  ELSE IF state = "READY" /\ mpc # "notify" THEN "sending"
  ELSE "offered"

Transfer == INSTANCE FileTransfer WITH
  Whole <- [f \in Files |-> Content(f)], here <- (cpc # "gone"), file <- cfile,
  stage <- Progress, said <- s2c, saved <- Saved

\* To an orderly client the two threads, the queue, the buffers and the writer behave
\* as FileTransfer: every file is taken whole, once, in the order in which they were
\* sent, before COMPLETE is said of it, and stays taken.  A client is orderly all the
\* time or never.
ImplementsTransfer ==
  Transfer!TransferInit /\ [][Orderly => [Transfer!TransferNext]_(Transfer!transferVars)]_vars

\* A file that was sent whole is answered.
SentIsAnswered ==
  Orderly /\ cpc = "confirm" ~> (cpc # "confirm" \/ crashed)

\* A connection the peer has left is let go, so that thread_idle can reap it.
DisconnectReleases == peer # "open" ~> (~tcp \/ ~open \/ crashed)

\* A file that was announced is answered READY.
InfoIsAnswered == cpc = "await" ~> (cpc # "await" \/ crashed)
================================================================================
