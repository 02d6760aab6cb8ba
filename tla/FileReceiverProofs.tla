-------------------------- MODULE FileReceiverProofs --------------------------
(***************************************************************************)
(* Proofs about FileReceiver, for any files, sizes, clients and memory:    *)
(* the types; that nothing is used after its reset; that a queued file     *)
(* stays as it is; of a client that keeps to the protocol, that its files  *)
(* are saved whole, kept once it is told so, and answered in order; and    *)
(* that to such a client the whole of it is a FileTransfer.                *)
(***************************************************************************)
EXTENDS FileReceiver, SequenceTheorems, FiniteSetTheorems, TLAPS

\* A client that sends, sends a file; there is a FileInfo wherever it is used; a read
\* in hand is not empty; what is notified is a status of the protocol.
SendsFile == cpc \in {"await", "send", "confirm"} => cfile \in Files
HasFileInfo ==
  fileptr = NoObj =>
    /\ state = "WAITING"
    /\ iopc # "arrive"
    /\ iopc = "post" => iomsg # "COMPLETE"
    /\ \A i \in DOMAIN mq : mq[i] # "COMPLETE"
    /\ mpc \notin {"complete", "done"}
NotifiesStatus == mpc = "notify" => state # "WAITING"
IsNamed == fileptr # NoObj => heap[fileptr].file \in Files
ReadHasCome == iopc \in {"test", "waiting", "arrive"} => rx # <<>>
PointersInv == SendsFile /\ HasFileInfo /\ NotifiesStatus /\ IsNamed /\ ReadHasCome

HistoryOK == refused \subseteq Files /\ overrun \in BOOLEAN /\ crashed \in BOOLEAN
TypeInv == TypeOK /\ PointersInv

-----------------------------------------------------------------------------
(* Types. *)

\* Tokens.
LEMMA TokenTypes ==
  /\ Heartbeat \in Tokens
  /\ Unwritten \in Tokens
  /\ \A f \in Files : /\ Info(f) \in Tokens /\ Head1(f) \in Tokens /\ Tail1(f) \in Tokens
                      /\ \A i \in Nat : Data(f, i) \in Tokens
BY DEF Heartbeat, Unwritten, Tokens, Info, Head1, Tail1, Data

\* The client keeps the types.
LEMMA ClientTypes ==
  ASSUME TypeInv, Client
  PROVE  TypeInv'
<1>0. client \in [files : SUBSET Files, beats : Nat, surplus : [Files -> Nat],
                 split : BOOLEAN]
  BY BoundsAssumption DEF TypeInv, TypeOK, ClientOK
<1>1. ClientOnly
  BY DEF Client, Offer, SendUnit, SendSurplus, AllSent, ClientReceive, Beat, Disconnect
<1>2. IoOK' /\ ReceiverOK' /\ HeapOK' /\ WriterOK' /\ HistoryOK'
  BY <1>1 DEF ClientOnly, ioVars, msgVars, rcvVars, writerVars, storeVars, TypeInv, TypeOK,
     IoOK, ReceiverOK, HeapOK, WriterOK, HistoryOK
<1>3. HasFileInfo' /\ NotifiesStatus' /\ IsNamed' /\ ReadHasCome'
  BY <1>1 DEF ClientOnly, ioVars, msgVars, rcvVars, TypeInv, PointersInv, HasFileInfo,
     NotifiesStatus, IsNamed, ReadHasCome
<1>4. ClientOK' /\ NetOK' /\ SendsFile'
  <2>0. ClientOK /\ NetOK /\ SendsFile /\ UNCHANGED client
    BY <1>1 DEF TypeInv, TypeOK, PointersInv, ClientOnly
  <2> USE <1>0, <2>0, TokenTypes DEF ClientOK, NetOK, SendsFile, netVars
  <2> HIDE DEF Tokens
  <2>1. ASSUME NEW f \in Files, Offer(f) PROVE ClientOK' /\ NetOK' /\ SendsFile'
    <3>1. c2s' = Append(c2s, Info(f)) \/ c2s' = c2s \o <<Head1(f), Tail1(f)>>
      BY <2>1 DEF Offer
    <3>2. CASE c2s' = Append(c2s, Info(f))
      <4>1. c2s' \in Seq(Tokens)
        BY <3>2
      <4> QED BY <2>1, <4>1 DEF Offer
    <3>3. CASE c2s' = c2s \o <<Head1(f), Tail1(f)>>
      <4>1. <<Head1(f), Tail1(f)>> \in Seq(Tokens)
        OBVIOUS
      <4>2. c2s' \in Seq(Tokens)
        BY <3>3, <4>1, ConcatProperties
      <4> QED BY <2>1, <4>2 DEF Offer
    <3> QED BY <3>1, <3>2, <3>3
  <2>2. CASE SendUnit \/ SendSurplus
    <3>1. /\ cfile \in Files /\ csent' = csent + 1
          /\ c2s' = Append(c2s, Data(cfile, csent + 1))
      BY <2>2 DEF SendUnit, SendSurplus
    <3>2. Data(cfile, csent + 1) \in Tokens
      BY <3>1
    <3>3. c2s' \in Seq(Tokens)
      BY <3>1, <3>2
    <3> QED BY <2>2, <3>1, <3>3 DEF SendUnit, SendSurplus
  <2>3. CASE AllSent
    BY <2>3 DEF AllSent
  <2>4. CASE ClientReceive
    BY <2>4 DEF ClientReceive
  <2>5. CASE Beat
    BY <2>5 DEF Beat
  <2>6. CASE Disconnect
    BY <2>6 DEF Disconnect
  <2> QED BY <2>1, <2>2, <2>3, <2>4, <2>5, <2>6 DEF Client
<1> QED
  BY <1>2, <1>3, <1>4 DEF TypeInv, TypeOK, PointersInv, HistoryOK

\* The read in hand does not fit into filedata.
Overruns == iopc = "arrive" /\ Len(heap[fileptr].data \o rx) > heap[fileptr].size

\* What DataArrive does to the heap: the read is appended to the FileInfo of the receiver;
\* of the others it changes at most a unit, and that only when the read does not fit.
LEMMA ArrivedHeap ==
  ASSUME TypeInv, DataArrive
  PROVE  /\ fileptr \in Objs /\ HeapOK'
         /\ \A o \in Objs : heap'[o].size = heap[o].size /\ heap'[o].file = heap[o].file
         /\ heap'[fileptr].data = heap[fileptr].data \o rx
         /\ \A o \in Objs : o # fileptr => Len(heap'[o].data) = Len(heap[o].data)
         /\ Overruns => overrun' = TRUE
         /\ ~Overruns => /\ heap' = [heap EXCEPT ![fileptr].data = @ \o rx]
                         /\ UNCHANGED <<overrun, crashed>>
         /\ overrun' \in BOOLEAN /\ crashed' \in BOOLEAN
         /\ IF Len(heap'[fileptr].data) >= heap[fileptr].size
              THEN iopc' = "post" /\ iomsg' = "COMPLETE"
              ELSE Rearm /\ UNCHANGED iomsg
<1>1. fileptr \in Objs /\ rx \in Seq(Tokens) /\ rx # <<>> /\ HeapOK
      /\ overrun \in BOOLEAN /\ crashed \in BOOLEAN
  BY DEF DataArrive, TypeInv, TypeOK, PointersInv, HasFileInfo, ReadHasCome, ReceiverOK, IoOK
<1>2. rx[Len(rx)] \in Tokens
  BY <1>1
<1>3. PICK arrived : arrived = [heap EXCEPT ![fileptr].data = @ \o rx]
  OBVIOUS
<1> HIDE DEF Tokens
<1>4. /\ arrived \in [Objs -> [size : Nat, file : Files \cup {NoFile}, data : Seq(Tokens)]]
      /\ \A o \in Objs : arrived[o].size = heap[o].size /\ arrived[o].file = heap[o].file
      /\ arrived[fileptr].data = heap[fileptr].data \o rx
      /\ \A o \in Objs : o # fileptr => arrived[o] = heap[o]
  <2>1. heap[fileptr].data \o rx \in Seq(Tokens)
    BY <1>1 DEF HeapOK
  <2> QED BY <1>1, <1>3, <2>1 DEF HeapOK
<1>5. /\ IF Overruns
           THEN heap' \in Trampled(arrived) /\ overrun' = TRUE /\ crashed' \in BOOLEAN
           ELSE heap' = arrived /\ UNCHANGED <<overrun, crashed>>
      /\ IF Len(arrived[fileptr].data) >= heap[fileptr].size
           THEN iopc' = "post" /\ iomsg' = "COMPLETE"
           ELSE Rearm /\ UNCHANGED iomsg
  BY <1>3, <1>4 DEF DataArrive, Overruns
<1>6. CASE heap' = arrived
  BY <1>1, <1>3, <1>4, <1>5, <1>6 DEF HeapOK
<1>7. CASE heap' # arrived
  <2>1. Overruns /\ heap' \in Trampled(arrived) \ {arrived}
    BY <1>5, <1>7
  <2>2. PICK o \in Owned \ {NoObj, fileptr} :
          \E k \in DOMAIN arrived[o].data :
            heap' = [arrived EXCEPT ![o].data[k] = rx[Len(rx)]]
    BY <2>1 DEF Trampled
  <2>3. PICK k \in DOMAIN arrived[o].data :
          heap' = [arrived EXCEPT ![o].data[k] = rx[Len(rx)]]
    BY <2>2
  <2>4. o \in Objs /\ o # fileptr
    BY <2>2 DEF Owned, TypeInv, TypeOK, WriterOK
  <2>5. PICK d : d = [arrived[o].data EXCEPT ![k] = rx[Len(rx)]]
    OBVIOUS
  <2>6. arrived[o].data \in Seq(Tokens)
    BY <1>4, <2>4
  <2>7. d \in Seq(Tokens) /\ Len(d) = Len(arrived[o].data)
    BY <1>2, <2>3, <2>5, <2>6
  <2>8. heap' = [arrived EXCEPT ![o].data = d]
    BY <1>4, <2>3, <2>4, <2>5
  <2>9. HeapOK'
    BY <1>4, <2>4, <2>7, <2>8 DEF HeapOK
  <2>10. /\ \A q \in Objs : heap'[q].size = arrived[q].size /\ heap'[q].file = arrived[q].file
         /\ \A q \in Objs : Len(heap'[q].data) = Len(arrived[q].data)
         /\ heap'[fileptr] = arrived[fileptr]
    BY <1>1, <1>4, <2>4, <2>7, <2>8
  <2> QED BY <1>1, <1>4, <1>5, <2>1, <2>9, <2>10
<1> QED BY <1>6, <1>7

\* So does the I/O thread.
LEMMA IoTypes ==
  ASSUME TypeInv, IoThread
  PROVE  TypeInv'
<1>1. IoOnly
  BY DEF IoThread, ReadSome, ReadError, TestReady, TestWaiting, DataArrive, Post
<1>2. ClientOK' /\ WriterOK' /\ SendsFile' /\ NotifiesStatus' /\ refused' \subseteq Files
  BY <1>1 DEF IoOnly, clientVars, msgVars, writerVars, storeVars, TypeInv, TypeOK,
     PointersInv, ClientOK, WriterOK, SendsFile, NotifiesStatus
<1>3. NetOK' /\ IoOK' /\ ReceiverOK' /\ HeapOK' /\ HasFileInfo' /\ IsNamed' /\ ReadHasCome'
      /\ overrun' \in BOOLEAN /\ crashed' \in BOOLEAN
  <2>0. /\ NetOK /\ IoOK /\ ReceiverOK /\ HeapOK /\ HasFileInfo /\ IsNamed /\ ReadHasCome
        /\ overrun \in BOOLEAN /\ crashed \in BOOLEAN
        /\ UNCHANGED <<mpc, found, state, tcp, open>>
    BY <1>1 DEF TypeInv, TypeOK, PointersInv, IoOnly, msgVars
  <2> USE <2>0, BoundsAssumption
      DEF NetOK, IoOK, ReceiverOK, HeapOK, HasFileInfo, IsNamed, ReadHasCome, netVars, Rearm
  <2> HIDE DEF Tokens
  <2>1. CASE ReadSome
    <3>1. PICK n \in 1 .. PackUnits : /\ n <= Len(c2s)
                                      /\ rx' = SubSeq(c2s, 1, n)
                                      /\ c2s' = SubSeq(c2s, n + 1, Len(c2s))
      BY <2>1 DEF ReadSome
    <3>2. rx' \in Seq(Tokens) /\ c2s' \in Seq(Tokens)
      BY <3>1
    <3>3. Len(rx') = n /\ n \in Nat /\ n # 0
      BY <3>1, SubSeqProperties
    <3>4. rx' # <<>>
      BY <3>3, EmptySeq
    <3>5. iopc' = "test" /\ UNCHANGED <<s2c, peer, iomsg, mq, fileptr, line, heap, overrun, crashed>>
      BY <2>1 DEF ReadSome
    <3>6. NetOK' /\ IoOK' /\ ReadHasCome'
      BY <3>2, <3>4, <3>5
    <3> QED BY <3>5, <3>6
  <2>2. CASE ReadError
    BY <2>2 DEF ReadError
  <2>3. CASE TestReady
    BY <2>3 DEF TestReady
  <2>4. CASE TestWaiting
    BY <2>4 DEF TestWaiting
  <2>5. CASE DataArrive
    <3>1. /\ fileptr \in Objs /\ HeapOK' /\ overrun' \in BOOLEAN /\ crashed' \in BOOLEAN
          /\ heap'[fileptr].file = heap[fileptr].file
          /\ \/ iopc' = "post" /\ iomsg' = "COMPLETE"
             \/ Rearm /\ UNCHANGED iomsg
      BY <2>5, ArrivedHeap
    <3>2. line' = rx /\ UNCHANGED <<netVars, rx, mq, fileptr>>
      BY <2>5 DEF DataArrive
    <3>3. NetOK' /\ ReceiverOK' /\ HasFileInfo' /\ IsNamed'
      BY <3>1, <3>2, ObjsAssumption
    <3>4. IoOK' /\ ReadHasCome'
      BY <3>1, <3>2
    <3> QED BY <3>1, <3>3, <3>4
  <2>6. CASE Post
    BY <2>6 DEF Post
  <2> QED BY <2>1, <2>2, <2>3, <2>4, <2>5, <2>6 DEF IoThread
<1> QED
  BY <1>2, <1>3 DEF TypeInv, TypeOK, PointersInv

\* FirstLine is a position, or 0.
LEMMA FirstLineType ==
  ASSUME NEW s \in Seq(Tokens)
  PROVE  FirstLine(s) \in 0 .. Len(s)
<1>1. CASE \E i \in DOMAIN s : EndsFirstLine(s, i)
  <2>1. (CHOOSE i \in DOMAIN s : EndsFirstLine(s, i)) \in DOMAIN s
    BY <1>1
  <2> QED BY <1>1, <2>1 DEF FirstLine
<1>2. CASE ~ \E i \in DOMAIN s : EndsFirstLine(s, i)
  BY <1>2 DEF FirstLine
<1> QED BY <1>1, <1>2

\* A new object is nobody else's.
LEMMA FreshObjFree ==
  ASSUME Objs \ Referenced # {}
  PROVE  FreshObj \in Objs /\ FreshObj \notin Referenced
BY DEF FreshObj

\* A fileinfo is received into an object.
LEMMA ReceiveInfoObject ==
  ASSUME TypeInv, NEW f \in Files, ReceiveInfo(f)
  PROVE  fileptr' \in Objs
<1>1. CASE NeedsObject(f)
  BY <1>1, FreshObjFree DEF ReceiveInfo
<1>2. CASE ~NeedsObject(f)
  BY <1>2 DEF ReceiveInfo, NeedsObject, UseCount, TypeInv, TypeOK, ReceiverOK
<1> QED BY <1>1, <1>2

\* The message thread keeps the types.
LEMMA MessageTypes ==
  ASSUME TypeInv, MsgThread
  PROVE  TypeInv'
<1>1. MsgOnly
  BY DEF MsgThread, Dispatch, Lookup, ReadLine, ReceiveInfo, NoMemory, ReceiveBeat, ReceiveWrong,
     ReceiveComplete, CompleteStatus, FailureStatus, Notify, Rewait, NetworkClose
<1>2. ClientOK' /\ IoOK' /\ SendsFile' /\ ReadHasCome'
  BY <1>1 DEF MsgOnly, clientVars, ioVars, TypeInv, TypeOK, PointersInv, ClientOK, IoOK, SendsFile,
     ReadHasCome
<1>3. NetOK' /\ ReceiverOK' /\ HeapOK' /\ WriterOK' /\ HasFileInfo' /\ NotifiesStatus'
      /\ IsNamed' /\ HistoryOK'
  <2>0. /\ NetOK /\ ReceiverOK /\ HeapOK /\ WriterOK /\ HasFileInfo /\ NotifiesStatus
        /\ IsNamed /\ HistoryOK
        /\ UNCHANGED <<c2s, peer, iopc, iomsg, rx, overrun>>
    BY <1>1 DEF TypeInv, TypeOK, PointersInv, HistoryOK, MsgOnly, ioVars
  <2> USE <2>0
  <2> HIDE DEF Tokens
  <2> DEFINE Kept == NetOK' /\ ReceiverOK' /\ HeapOK' /\ WriterOK' /\ HasFileInfo'
                     /\ NotifiesStatus' /\ IsNamed' /\ HistoryOK'
  <2>a. ASSUME UNCHANGED <<heap, fileptr, pending, stored, phase, held, disk, refused>>,
               NetOK', ReceiverOK', crashed' \in BOOLEAN, HasFileInfo', NotifiesStatus'
        PROVE  Kept
    BY <2>a DEF HeapOK, WriterOK, IsNamed, HistoryOK
  <2>1. CASE Dispatch
    <3>1. UNCHANGED <<s2c, found, state, fileptr, line, tcp, open, heap, pending, stored, phase,
                      held, disk, refused, crashed>>
      BY <2>1 DEF Dispatch, rcvVars, writerVars, storeVars
    <3>2. mq # <<>> /\ mq' = Tail(mq) /\ mq \in Seq({"RECEIVE", "COMPLETE", "CLOSE"})
      BY <2>1 DEF Dispatch, ReceiverOK
    <3>3. /\ mq' \in Seq({"RECEIVE", "COMPLETE", "CLOSE"}) /\ Len(mq') <= Len(mq)
          /\ Head(mq) \in {"RECEIVE", "COMPLETE", "CLOSE"}
          /\ \A i \in DOMAIN mq' : mq'[i] = mq[i + 1] /\ i + 1 \in DOMAIN mq
          /\ Head(mq) = mq[1] /\ 1 \in DOMAIN mq
      BY <3>2
    <3>4. mpc' = CASE Head(mq) = "RECEIVE"  -> "lookup"
                   [] Head(mq) = "COMPLETE" -> "complete"
                   [] Head(mq) = "CLOSE"    -> "close"
      BY <2>1 DEF Dispatch
    <3>5. NetOK' /\ crashed' \in BOOLEAN
      BY <3>1 DEF NetOK, HistoryOK
    <3>6. ReceiverOK' /\ NotifiesStatus'
      BY <3>1, <3>3, <3>4, BoundsAssumption DEF ReceiverOK, NotifiesStatus
    <3>7. HasFileInfo'
      BY <3>1, <3>3, <3>4 DEF HasFileInfo
    <3> QED BY <2>a, <3>1, <3>5, <3>6, <3>7
  <2>2. CASE Lookup
    <3>1. found' \in Nat
      BY <2>2, FirstLineType DEF Lookup, TypeInv, TypeOK, IoOK
    <3>2. UNCHANGED <<s2c, mq, state, fileptr, line, tcp, open, heap, pending, stored, phase,
                      held, disk, refused, crashed>>
          /\ mpc' = "read"
      BY <2>2 DEF Lookup, rcvVars, writerVars, storeVars
    <3> QED BY <2>a, <3>1, <3>2 DEF NetOK, ReceiverOK, HasFileInfo, NotifiesStatus, HistoryOK
  <2>3. CASE ReadLine
    <3>1. line' \in Seq(Tokens)
      BY <2>3 DEF ReadLine, TypeInv, TypeOK, IoOK, ReceiverOK
    <3>2. UNCHANGED <<s2c, found, mq, state, fileptr, tcp, open, heap, pending, stored, phase,
                      held, disk, refused>>
          /\ mpc' = "resolve" /\ crashed' \in BOOLEAN
      BY <2>3 DEF ReadLine, writerVars, storeVars
    <3> QED BY <2>a, <3>1, <3>2 DEF NetOK, ReceiverOK, HasFileInfo, NotifiesStatus, HistoryOK
  <2>4. ASSUME NEW f \in Files, ReceiveInfo(f) PROVE Kept
    <3>1. fileptr' \in Objs
      BY <2>4, ReceiveInfoObject
    <3>2. UNCHANGED <<s2c, found, mq, line, tcp, open, pending, stored, phase, held, disk,
                      refused, crashed>>
          /\ mpc' = "notify" /\ state' = "READY"
      BY <2>4 DEF ReceiveInfo, writerVars, storeVars
    <3>3. HeapOK' /\ IsNamed'
      BY <2>4, <3>1, SizeAssumption DEF ReceiveInfo, HeapOK, IsNamed
    <3>4. ReceiverOK' /\ HasFileInfo' /\ NotifiesStatus'
      BY <3>1, <3>2, ObjsAssumption DEF ReceiverOK, HasFileInfo, NotifiesStatus
    <3> QED BY <3>2, <3>3, <3>4 DEF NetOK, WriterOK, HistoryOK
  <2>5. ASSUME NEW f \in Files, NoMemory(f) PROVE Kept
    <3>1. UNCHANGED <<s2c, found, mpc, mq, state, fileptr, line, tcp, open, heap, pending, stored,
                      phase, held, disk, refused>>
          /\ crashed' = TRUE
      BY <2>5 DEF NoMemory, rcvVars, writerVars, storeVars
    <3> QED BY <2>a, <3>1 DEF NetOK, ReceiverOK, HasFileInfo, NotifiesStatus
  <2>6. CASE ReceiveBeat \/ ReceiveWrong \/ NetworkClose
    <3>1. /\ UNCHANGED <<s2c, found, mq, state, fileptr, line, heap, pending, stored,
                         phase, held, disk, refused, crashed>>
          /\ mpc' = "receive"
          /\ tcp' \in {tcp, FALSE} /\ open' \in {open, FALSE}
      BY <2>6 DEF ReceiveBeat, ReceiveWrong, NetworkClose, rcvVars, writerVars, storeVars
    <3> QED BY <2>a, <3>1 DEF NetOK, ReceiverOK, HasFileInfo, NotifiesStatus, HistoryOK
  <2>7. CASE ReceiveComplete
    <3>1. fileptr \in Objs /\ heap[fileptr].file \in Files
      BY <2>7 DEF ReceiveComplete, HasFileInfo, ReceiverOK, IsNamed
    <3>2. /\ UNCHANGED <<s2c, found, mq, state, fileptr, line, tcp, open, heap, held, disk, crashed>>
          /\ mpc' = "done"
      BY <2>7 DEF ReceiveComplete, rcvVars
    <3>3. pending' \in {pending, Append(pending, fileptr)} /\ UNCHANGED <<stored, phase>>
      BY <2>7 DEF ReceiveComplete, Writer!Accept, storeVars
    <3>4. Append(pending, fileptr) \in Seq(Objs)
      BY <3>1 DEF WriterOK
    <3>5. WriterOK'
      BY <3>2, <3>3, <3>4 DEF WriterOK
    <3>6. refused' \subseteq Files
      BY <2>7, <3>1 DEF ReceiveComplete, HistoryOK
    <3>7. HasFileInfo'
      BY <2>7, <3>2 DEF HasFileInfo, ReceiveComplete
    <3> QED
      BY <3>2, <3>5, <3>6, <3>7 DEF NetOK, ReceiverOK, HeapOK, NotifiesStatus, IsNamed, HistoryOK
  <2>8. CASE CompleteStatus \/ FailureStatus
    <3>1. /\ UNCHANGED <<s2c, found, mq, fileptr, line, tcp, open, heap, pending, stored,
                         phase, held, disk, refused, crashed>>
          /\ mpc' = "notify" /\ mpc \in {"done", "complete"}
          /\ state' \in {"COMPLETE", "FAILURE"}
      BY <2>8 DEF CompleteStatus, FailureStatus, writerVars, storeVars
    <3> QED BY <2>a, <3>1 DEF NetOK, ReceiverOK, HasFileInfo, NotifiesStatus, HistoryOK
  <2>9. CASE Notify
    <3>1. /\ UNCHANGED <<found, mq, state, fileptr, line, tcp, open, heap, pending, stored,
                         phase, held, disk, refused>>
          /\ mpc' \in {"receive", "rewait", "notify"}
          /\ s2c' \in {s2c, Append(s2c, state)} /\ crashed' \in {crashed, TRUE}
          /\ mpc = "notify"
      BY <2>9 DEF Notify, rcvVars, writerVars, storeVars
    <3>2. state \in {"READY", "COMPLETE", "FAILURE"}
      BY <3>1 DEF NotifiesStatus, ReceiverOK
    <3>3. NetOK'
      BY <3>1, <3>2 DEF NetOK
    <3> QED BY <2>a, <3>1, <3>3 DEF ReceiverOK, HasFileInfo, NotifiesStatus, HistoryOK
  <2>10. CASE Rewait
    <3>1. /\ UNCHANGED <<s2c, found, mq, fileptr, line, tcp, open, heap, pending, stored,
                         phase, held, disk, refused, crashed>>
          /\ mpc' = "receive" /\ state' = "WAITING"
      BY <2>10 DEF Rewait, writerVars, storeVars
    <3> QED BY <2>a, <3>1 DEF NetOK, ReceiverOK, HasFileInfo, NotifiesStatus, HistoryOK
  <2> QED
    BY <2>1, <2>2, <2>3, <2>4, <2>5, <2>6, <2>7, <2>8, <2>9, <2>10 DEF MsgThread
<1> QED
  BY <1>2, <1>3 DEF TypeInv, TypeOK, PointersInv, HistoryOK

\* What the writer writes of an object are tokens.
LEMMA WrittenType ==
  ASSUME HeapOK, NEW o \in Objs
  PROVE  Written(o) \in Seq(Tokens) /\ Len(Written(o)) = heap[o].size
<1>1. /\ heap[o].size \in Nat
      /\ heap[o].data \in Seq(Tokens)
  BY DEF HeapOK
<1> QED BY <1>1, TokenTypes DEF Written

\* The writer keeps the types.
LEMMA WriterTypes ==
  ASSUME TypeInv, SaveFirst \/ Release \/ WriterPhase
  PROVE  TypeInv'
<1>1. WriterOnly
  BY DEF SaveFirst, Release, WriterPhase
<1>2. /\ ClientOK' /\ NetOK' /\ IoOK' /\ ReceiverOK' /\ HeapOK' /\ HistoryOK'
      /\ PointersInv'
  BY <1>1 DEF WriterOnly, clientVars, netVars, ioVars, msgVars, rcvVars, TypeInv, TypeOK,
     PointersInv, ClientOK, NetOK, IoOK, ReceiverOK, HeapOK, HistoryOK, SendsFile, HasFileInfo,
     NotifiesStatus, IsNamed, ReadHasCome
<1>3. WriterOK'
  <2>1. CASE SaveFirst
    <3>1. Head(pending) \in Objs /\ Tail(pending) \in Seq(Objs)
      BY <2>1 DEF SaveFirst, Writer!Store, TypeInv, TypeOK, WriterOK
    <3>2. heap[Head(pending)].file \in Files \cup {NoFile}
      BY <3>1 DEF TypeInv, TypeOK, HeapOK
    <3>3. Written(Head(pending)) \in Seq(Tokens)
      BY <3>1, WrittenType DEF TypeInv, TypeOK
    <3>4. disk' \in Seq([file : Files \cup {NoFile}, data : Seq(Tokens)])
      BY <2>1, <3>2, <3>3 DEF SaveFirst, TypeInv, TypeOK, WriterOK
    <3> QED BY <2>1, <3>1, <3>4 DEF SaveFirst, Writer!Store, TypeInv, TypeOK, WriterOK
  <2>2. CASE Release
    BY <2>2 DEF Release, storeVars, TypeInv, TypeOK, WriterOK
  <2>3. CASE WriterPhase
    BY <2>3 DEF WriterPhase, Writer!Open, Writer!Halt, TypeInv, TypeOK, WriterOK
  <2> QED BY <2>1, <2>2, <2>3
<1> QED
  BY <1>2, <1>3 DEF TypeInv, TypeOK, HistoryOK

\* Initially the types are right.
LEMMA InitTypes == Init => TypeInv
<1> SUFFICES ASSUME Init PROVE TypeInv
  OBVIOUS
<1> USE DEF Init
<1>0. client \in [files : SUBSET Files, beats : Nat, surplus : [Files -> Nat],
                 split : BOOLEAN]
  BY BoundsAssumption
<1>1. ClientOK
  BY <1>0 DEF ClientOK
<1>4. NetOK /\ IoOK /\ HistoryOK
  <2>1. <<>> \in Seq(Tokens) /\ <<>> \in Seq({"READY", "COMPLETE", "FAILURE"})
    BY EmptySeq
  <2> QED BY <2>1 DEF NetOK, IoOK, HistoryOK
<1>5. ReceiverOK
  BY BoundsAssumption DEF ReceiverOK
<1>2. HeapOK /\ WriterOK
  BY DEF HeapOK, WriterOK, Writer!StoreInit
<1>3. PointersInv
  BY DEF PointersInv, SendsFile, HasFileInfo, NotifiesStatus, IsNamed, ReadHasCome
<1> QED BY <1>1, <1>2, <1>3, <1>4, <1>5 DEF TypeInv, TypeOK, HistoryOK

\* Every step keeps them.
LEMMA NextTypes == TypeInv /\ [Next]_vars => TypeInv'
<1>1. ASSUME TypeInv, UNCHANGED vars PROVE TypeInv'
  BY <1>1 DEF vars, clientVars, netVars, ioVars, msgVars, rcvVars, writerVars, storeVars,
     TypeInv, TypeOK, ClientOK, NetOK, IoOK, ReceiverOK, HeapOK, WriterOK, PointersInv,
     SendsFile, HasFileInfo, NotifiesStatus, IsNamed, ReadHasCome
<1> QED
  BY <1>1, ClientTypes, IoTypes, MessageTypes, WriterTypes DEF Next

\* Type correctness: every message notified is a status of the protocol, every use
\* of fileptr_ has a FileInfo and the queue keeps to its capacity.
THEOREM TypeCorrect == Spec => []TypeOK
<1>1. TypeInv => TypeOK
  BY DEF TypeInv
<1> QED
  BY <1>1, InitTypes, NextTypes, PTL DEF Spec

-----------------------------------------------------------------------------
(* MSG_NETWORK_CLOSE is the last message. *)

\* It is posted once, by the last step of the I/O thread, and nothing is behind it.
CloseIsLast == \A i \in DOMAIN mq : mq[i] = "CLOSE" => i = Len(mq) /\ iopc = "ended"
CloseTaken == mpc = "close" => iopc = "ended" /\ mq = <<>>
ClosedForGood == ~tcp => iopc = "ended" /\ mpc = "receive" /\ mq = <<>>
CloseInv == CloseIsLast /\ CloseTaken /\ ClosedForGood

\* What Append does to the queue.
LEMMA Appended ==
  ASSUME NEW S, NEW q \in Seq(S), NEW x \in S, NEW r, r = Append(q, x)
  PROVE  /\ r \in Seq(S) /\ Len(r) = Len(q) + 1 /\ r[Len(r)] = x
         /\ \A i \in DOMAIN r : i = Len(r) \/ (i \in DOMAIN q /\ r[i] = q[i])
         /\ \A i \in DOMAIN q : i \in DOMAIN r /\ r[i] = q[i]
<1>1. /\ r \in Seq(S) /\ Len(r) = Len(q) + 1 /\ r[Len(r)] = x
      /\ \A i \in 1 .. Len(q) : r[i] = q[i]
  BY AppendProperties
<1>2. DOMAIN q = 1 .. Len(q) /\ DOMAIN r = 1 .. Len(r) /\ Len(q) \in Nat
  BY <1>1, LenProperties
<1> QED BY <1>1, <1>2

\* What Tail does to it.
LEMMA Dequeued ==
  ASSUME NEW S, NEW q \in Seq(S), q # <<>>, NEW r, r = Tail(q)
  PROVE  /\ r \in Seq(S) /\ Len(r) = Len(q) - 1 /\ Head(q) = q[1] /\ 1 \in DOMAIN q
         /\ \A i \in DOMAIN r : i + 1 \in DOMAIN q /\ r[i] = q[i + 1]
         /\ Len(q) = 1 => r = <<>>
OBVIOUS

\* Every step keeps CLOSE last.
LEMMA CloseNext == TypeInv /\ CloseInv /\ [Next]_vars => CloseInv'
<1> SUFFICES ASSUME TypeInv, CloseInv, [Next]_vars PROVE CloseInv'
  OBVIOUS
<1>0. mq \in Seq({"RECEIVE", "COMPLETE", "CLOSE"}) /\ iomsg \in {"RECEIVE", "COMPLETE", "CLOSE"}
  BY DEF TypeInv, TypeOK, ReceiverOK, IoOK
<1>a. ASSUME UNCHANGED <<mq, mpc, tcp>>, iopc = "ended" => iopc' = "ended" PROVE CloseInv'
  BY <1>a DEF CloseInv, CloseIsLast, CloseTaken, ClosedForGood
<1>1. CASE Client
  <2>1. ClientOnly
    BY <1>1 DEF Client, Offer, SendUnit, SendSurplus, AllSent, ClientReceive, Beat, Disconnect
  <2> QED BY <1>a, <2>1 DEF ClientOnly, ioVars, msgVars, rcvVars
<1>2. CASE IoThread
  <2>1. IoOnly /\ iopc # "ended"
    BY <1>2 DEF IoThread, ReadSome, ReadError, TestReady, TestWaiting, DataArrive, Post
  <2>2. CASE ReadSome \/ ReadError \/ TestReady \/ TestWaiting \/ DataArrive
    BY <1>a, <2>1, <2>2
       DEF IoOnly, msgVars, ReadSome, ReadError, TestReady, TestWaiting, DataArrive
  <2>3. CASE Post
    <3>2. mpc # "close" /\ tcp /\ \A i \in DOMAIN mq : mq[i] # "CLOSE"
      BY <2>1 DEF CloseInv, CloseIsLast, CloseTaken, ClosedForGood
    <3>3. mpc' # "close" /\ tcp' = tcp
      BY <2>1, <2>3, <3>2 DEF Post, IoOnly, msgVars
    <3>4. \A i \in DOMAIN mq' : mq'[i] = "CLOSE" => i = Len(mq') /\ iomsg = "CLOSE"
      BY <1>0, <2>3, <3>2, Appended DEF Post
    <3>5. iomsg = "CLOSE" => iopc' = "ended"
      BY <2>3 DEF Post
    <3> QED BY <3>2, <3>3, <3>4, <3>5 DEF CloseInv, CloseIsLast, CloseTaken, ClosedForGood
  <2> QED BY <1>2, <2>2, <2>3 DEF IoThread
<1>3. CASE MsgThread
  <2>1. MsgOnly
    BY <1>3 DEF MsgThread, Dispatch, Lookup, ReadLine, ReceiveInfo, NoMemory, ReceiveBeat,
       ReceiveWrong, ReceiveComplete, CompleteStatus, FailureStatus, Notify, Rewait, NetworkClose
  <2>2. iopc' = iopc
    BY <2>1 DEF MsgOnly, ioVars
  <2>3. CASE Dispatch
    <3>2. mpc' = "close" => Head(mq) = "CLOSE"
      <4>1. Head(mq) \in {"RECEIVE", "COMPLETE", "CLOSE"}
        BY <1>0, <2>3 DEF Dispatch
      <4> QED BY <2>3, <4>1 DEF Dispatch
    <3>3. mq # <<>> /\ mq' = Tail(mq) /\ tcp' = tcp
      BY <2>3 DEF Dispatch, rcvVars
    <3>4. tcp
      BY <3>3 DEF CloseInv, ClosedForGood
    <3>5. CloseTaken'
      BY <1>0, <2>2, <3>2, <3>3, Dequeued DEF CloseInv, CloseIsLast, CloseTaken
    <3>6. CloseIsLast'
      BY <1>0, <2>2, <3>3, Dequeued DEF CloseInv, CloseIsLast
    <3> QED BY <3>3, <3>4, <3>5, <3>6 DEF CloseInv, ClosedForGood
  <2>4. CASE NetworkClose
    BY <2>2, <2>4 DEF NetworkClose, CloseInv, CloseIsLast, CloseTaken, ClosedForGood
  <2>5. CASE ~Dispatch /\ ~NetworkClose
    <3>1. UNCHANGED <<mq, tcp>> /\ mpc # "receive" /\ mpc' # "close"
      BY <1>3, <2>5 DEF MsgThread, Lookup, ReadLine, ReceiveInfo, NoMemory, ReceiveBeat,
         ReceiveWrong, ReceiveComplete, CompleteStatus, FailureStatus, Notify, Rewait, rcvVars
    <3> QED BY <2>2, <3>1 DEF CloseInv, CloseIsLast, CloseTaken, ClosedForGood
  <2> QED BY <2>3, <2>4, <2>5
<1>4. CASE SaveFirst \/ Release \/ WriterPhase
  <2>1. WriterOnly
    BY <1>4 DEF SaveFirst, Release, WriterPhase
  <2> QED BY <1>a, <2>1 DEF WriterOnly, ioVars, msgVars, rcvVars
<1>5. CASE UNCHANGED vars
  BY <1>a, <1>5 DEF vars, ioVars, msgVars, rcvVars
<1> QED BY <1>1, <1>2, <1>3, <1>4, <1>5 DEF Next

\* The message thread does not use the TCPClient after on_network_close has let it
\* go, whatever the client sends and wherever it leaves.
THEOREM NeverUsedAfterReset == Spec => []NoUseAfterReset
<1>1. Init => CloseInv
  BY DEF Init, CloseInv, CloseIsLast, CloseTaken, ClosedForGood
<1>2. CloseInv => NoUseAfterReset
  BY DEF CloseInv, ClosedForGood, NoUseAfterReset
<1> QED
  BY <1>1, <1>2, InitTypes, NextTypes, CloseNext, PTL DEF Spec

-----------------------------------------------------------------------------
(* What the writer holds is not touched. *)

\* A FileInfo is handed to the writer when all its bytes are there.
QueuedWhole == \A o \in Owned : o \in Objs => heap[o].size <= Len(heap[o].data)

\* All the I/O thread can still do to it is append, beyond what fwrite takes, unless it
\* writes where it has no memory; the name stays in any case.
Intact == \A o \in Objs : o \in Owned =>
            heap'[o].file = heap[o].file /\ Written(o)' = Written(o)
NamesStay == \A o \in Objs : o \in Owned => heap'[o].file = heap[o].file

\* A fileinfo is received into an object the writer does not hold: a new one, or the
\* one that only fileptr_ points to.
LEMMA InfoObjectFree ==
  ASSUME TypeInv, NEW f \in Files, ReceiveInfo(f)
  PROVE  fileptr' \notin Owned
<1>1. CASE NeedsObject(f)
  BY <1>1, FreshObjFree DEF ReceiveInfo, Referenced
<1>2. CASE ~NeedsObject(f)
  <2> DEFINE Places == {i \in DOMAIN pending : pending[i] = fileptr}
  <2>1. IsFiniteSet(DOMAIN pending)
    <3>1. DOMAIN pending = 1 .. Len(pending) /\ Len(pending) \in Nat
      BY DEF TypeInv, TypeOK, WriterOK
    <3> QED BY <3>1, FS_Interval
  <2>2. IsFiniteSet(Places) /\ Cardinality(Places) \in Nat
    BY <2>1, FS_Subset, FS_CardinalityType
  <2>3. /\ fileptr # NoObj
        /\ 1 + Cardinality(Places) + (IF held = fileptr THEN 1 ELSE 0) <= 1
    BY <1>2, <2>2 DEF NeedsObject, UseCount
  <2>4. Cardinality(Places) = 0 /\ held # fileptr
    BY <2>2, <2>3
  <2>5. Places = {}
    BY <2>2, <2>4, FS_EmptySet
  <2>6. fileptr' = fileptr
    BY <1>2 DEF ReceiveInfo
  <2> QED BY <2>4, <2>5, <2>6 DEF Owned
<1> QED BY <1>1, <1>2

\* Every step keeps what the writer holds as it is, but a read that does not fit.
LEMMA QueuedNext ==
  ASSUME TypeInv, QueuedWhole, [Next]_vars
  PROVE  QueuedWhole' /\ NamesStay /\ (Intact \/ (DataArrive /\ Overruns /\ overrun'))
<1> SUFFICES QueuedWhole' /\ (Intact \/ (NamesStay /\ DataArrive /\ Overruns /\ overrun'))
  BY DEF Intact, NamesStay
<1>0. pending \in Seq(Objs) /\ HeapOK
  BY DEF TypeInv, TypeOK, WriterOK
<1>a. ASSUME UNCHANGED heap, Owned' \subseteq Owned PROVE QueuedWhole' /\ Intact
  BY <1>a DEF QueuedWhole, Intact, Written
<1>b. ASSUME UNCHANGED <<pending, held>> PROVE Owned' = Owned
  BY <1>b DEF Owned
<1>1. CASE Client
  <2>1. ClientOnly
    BY <1>1 DEF Client, Offer, SendUnit, SendSurplus, AllSent, ClientReceive, Beat, Disconnect
  <2> QED BY <1>a, <1>b, <2>1 DEF ClientOnly, writerVars, storeVars
<1>2. CASE IoThread
  <2>1. Owned' = Owned
    BY <1>2, <1>b DEF IoThread, ReadSome, ReadError, TestReady, TestWaiting, DataArrive, Post,
       IoOnly, writerVars, storeVars
  <2>2. CASE DataArrive
    <3>1. fileptr \in Objs /\ rx \in Seq(Tokens)
      BY <2>2, ArrivedHeap DEF TypeInv, TypeOK, IoOK
    <3>2. /\ \A o \in Objs : heap'[o].size = heap[o].size /\ heap'[o].file = heap[o].file
          /\ heap'[fileptr].data = heap[fileptr].data \o rx
          /\ \A o \in Objs : o # fileptr => Len(heap'[o].data) = Len(heap[o].data)
          /\ Overruns => overrun'
          /\ ~Overruns => heap' = [heap EXCEPT ![fileptr].data = @ \o rx]
      BY <2>2, ArrivedHeap
    <3>3. ASSUME NEW o \in Objs, o \in Owned
          PROVE  /\ heap'[o].size <= Len(heap'[o].data)
                 /\ heap'[o].file = heap[o].file /\ (Overruns \/ Written(o)' = Written(o))
      <4>1. /\ heap[o].size \in Nat /\ heap[o].data \in Seq(Tokens)
            /\ heap[o].size <= Len(heap[o].data)
        BY <1>0, <3>3 DEF HeapOK, QueuedWhole
      <4>2. CASE o # fileptr
        BY <1>0, <3>1, <3>2, <4>1, <4>2 DEF HeapOK, Written
      <4>3. CASE o = fileptr
        <5>1. /\ heap'[o].size = heap[o].size /\ heap'[o].file = heap[o].file
              /\ heap'[o].data = heap[o].data \o rx
          BY <1>0, <3>1, <3>2, <4>3 DEF HeapOK
        <5>2. /\ Len(heap'[o].data) = Len(heap[o].data) + Len(rx)
              /\ Len(rx) \in Nat /\ Len(heap[o].data) \in Nat
              /\ \A i \in 1 .. Len(heap[o].data) : heap'[o].data[i] = heap[o].data[i]
          BY <3>1, <4>1, <5>1, ConcatProperties
        <5>3. heap'[o].size <= Len(heap'[o].data)
          BY <4>1, <5>1, <5>2
        <5>4. Written(o)' = Written(o)
          BY <4>1, <5>1, <5>2, <5>3 DEF Written
        <5> QED BY <5>1, <5>3, <5>4
      <4> QED BY <4>2, <4>3
    <3> QED BY <2>1, <2>2, <3>2, <3>3 DEF QueuedWhole, Intact, NamesStay
  <2>3. CASE ReadSome \/ ReadError \/ TestReady \/ TestWaiting \/ Post
    BY <1>a, <2>1, <2>3 DEF ReadSome, ReadError, TestReady, TestWaiting, Post
  <2> QED BY <1>2, <2>2, <2>3 DEF IoThread
<1>3. CASE MsgThread
  <2>1. ASSUME NEW f \in Files, ReceiveInfo(f) PROVE QueuedWhole' /\ Intact
    <3>1. Owned' = Owned
      BY <1>b, <2>1 DEF ReceiveInfo, writerVars, storeVars
    <3>2. fileptr' \notin Owned /\ fileptr' \in Objs
      BY <2>1, InfoObjectFree, ReceiveInfoObject
    <3>3. \A o \in Objs : o \in Owned => heap'[o] = heap[o]
      BY <1>0, <2>1, <3>2 DEF ReceiveInfo, HeapOK
    <3> QED BY <3>1, <3>3 DEF QueuedWhole, Intact, Written
  <2>2. CASE ReceiveComplete
    <3>1. /\ UNCHANGED <<heap, held>> /\ heap[fileptr].size = Len(heap[fileptr].data)
          /\ fileptr \in Objs
      BY <2>2 DEF ReceiveComplete, TypeInv, TypeOK, PointersInv, HasFileInfo, ReceiverOK
    <3>2. pending' = pending \/ pending' = Append(pending, fileptr)
      BY <2>2 DEF ReceiveComplete, Writer!Accept, storeVars
    <3>3. Owned' \subseteq Owned \cup {fileptr}
      BY <1>0, <3>1, <3>2, Appended DEF Owned
    <3>4. heap[fileptr].size <= Len(heap[fileptr].data)
      BY <1>0, <3>1 DEF HeapOK
    <3> QED BY <3>1, <3>3, <3>4 DEF QueuedWhole, Intact, Written
  <2>3. CASE ~ReceiveComplete /\ ~ \E f \in Files : ReceiveInfo(f)
    <3>1. UNCHANGED <<heap, pending, held>>
      BY <1>3, <2>3 DEF MsgThread, Dispatch, Lookup, ReadLine, NoMemory, ReceiveBeat,
         ReceiveWrong, CompleteStatus, FailureStatus, Notify, Rewait, NetworkClose,
         writerVars, storeVars
    <3> QED BY <1>a, <1>b, <3>1
  <2> QED BY <2>1, <2>2, <2>3
<1>4. CASE SaveFirst \/ Release \/ WriterPhase
  <2>1. UNCHANGED heap
    BY <1>4 DEF SaveFirst, Release, WriterPhase, WriterOnly
  <2>2. CASE SaveFirst
    <3>1. pending # <<>> /\ pending' = Tail(pending) /\ held' = Head(pending)
      BY <2>2 DEF SaveFirst, Writer!Store
    <3>2. Owned' \subseteq Owned
      BY <1>0, <3>1, Dequeued DEF Owned
    <3> QED BY <1>a, <2>1, <3>2
  <2>3. CASE Release
    <3>1. Owned' \subseteq Owned \cup {NoObj}
      BY <2>3 DEF Release, storeVars, Owned
    <3> QED BY <2>1, <3>1, ObjsAssumption DEF QueuedWhole, Intact, Written
  <2>4. CASE WriterPhase
    BY <1>a, <1>b, <2>1, <2>4 DEF WriterPhase, Writer!Open, Writer!Halt
  <2> QED BY <1>4, <2>2, <2>3, <2>4
<1>5. CASE UNCHANGED vars
  BY <1>a, <1>b, <1>5 DEF vars, writerVars, storeVars
<1> QED BY <1>1, <1>2, <1>3, <1>4, <1>5 DEF Next

\* Until a client has sent more than it announced, no FileInfo changes between NewFile
\* and the end of its fwrite, although the I/O thread, the message thread and the writer
\* hold pointers to it without a lock.
THEOREM QueuedStaysIntact == Spec => QueuedIntact
<1>1. Init => QueuedWhole
  BY ObjsAssumption DEF Init, QueuedWhole, Owned, Writer!StoreInit
<1>2. TypeInv /\ QueuedWhole /\ [Next]_vars => QueuedWhole' /\ [~overrun' => Intact]_vars
  BY QueuedNext
<1> QED
  BY <1>1, <1>2, InitTypes, NextTypes, PTL DEF Spec, QueuedIntact, Intact

-----------------------------------------------------------------------------
(* A client that keeps to the protocol: one inductive invariant follows a  *)
(* file through its stages, from the fileinfo line to the answer, across   *)
(* the client, the network, the I/O thread, the message thread and the     *)
(* writer.                                                                 *)

\* The I/O thread has nothing of this file in hand: it reads, or has stopped, or is
\* about to announce the disconnection.
QuietIo ==
  \/ iopc \in {"reading", "ended"}
  \/ iopc = "post" /\ iomsg = "CLOSE"
NoWork == mq = <<>> \/ mq = <<"CLOSE">>
\* The message thread has done with a file, but for the last assignment.
AtRest ==
  \/ mpc \in {"receive", "close"} /\ state = "WAITING"
  \/ mpc = "rewait" /\ state = "COMPLETE"
Still == QuietIo /\ NoWork

\* s holds the units of the client's file that follow the k-th, in order.
UnitsFrom(s, k) == \A i \in DOMAIN s : s[i] = Data(cfile, k + i)

\* The object of the receiver is the one of the client's file.
Receives ==
  /\ fileptr \in Objs
  /\ heap[fileptr].file = cfile
  /\ heap[fileptr].size = Size[cfile]
Got == heap[fileptr].data

\* The file is on disk, or queued with its whole content.
IsQueued(o) == heap[o].file \in Files /\ Written(o) = Content(heap[o].file)
Accounted == cfile \in refused \/ IsKept(cfile)

Idle ==
  /\ cfile = NoFile
  /\ cpc \in {"idle", "gone"} /\ c2s = <<>> /\ s2c = <<>>
  /\ Still /\ AtRest

\* The fileinfo is on its way, or was read too early and forgotten.
Offered ==
  /\ cfile \in Files /\ csent = 0 /\ cpc \in {"await", "gone"}
  /\ c2s = <<Info(cfile)>> \/ c2s = <<>>
  /\ s2c = <<>>
  /\ Still /\ AtRest

Tested ==
  /\ cfile \in Files /\ csent = 0 /\ cpc \in {"await", "gone"}
  /\ c2s = <<>> /\ s2c = <<>>
  /\ rx = <<Info(cfile)>> /\ iopc \in {"test", "waiting"}
  /\ mq = <<>> /\ AtRest

\* From PostMessage(MSG_NETWORK_RECEIVE) to the resolution of the line.
Announced ==
  /\ cfile \in Files /\ csent = 0 /\ cpc \in {"await", "gone"}
  /\ c2s = <<>> /\ s2c = <<>>
  /\ state = "WAITING"
  /\ \/ /\ rx = <<Info(cfile)>> /\ iopc = "post" /\ iomsg = "RECEIVE"
        /\ mq = <<>> /\ mpc = "receive"
     \/ /\ rx = <<Info(cfile)>> /\ QuietIo
        /\ mq = <<"RECEIVE">> \/ mq = <<"RECEIVE", "CLOSE">>
        /\ mpc = "receive"
     \/ rx = <<Info(cfile)>> /\ Still /\ mpc = "lookup"
     \/ rx = <<Info(cfile)>> /\ Still /\ mpc = "read" /\ found = 1
     \/ line = <<Info(cfile)>> /\ Still /\ mpc = "resolve"

Ready ==
  /\ cfile \in Files /\ csent = 0 /\ cpc \in {"await", "gone"}
  /\ c2s = <<>>
  /\ state = "READY" /\ Receives /\ Got = <<>>
  /\ Still
  /\ \/ mpc = "notify" /\ s2c = <<>>
     \/ mpc \in {"receive", "close"} /\ s2c = <<"READY">>

\* The content arrives: what was received, what the I/O thread has just read and
\* what is on its way are the units sent so far.
Sending ==
  /\ cfile \in Files /\ cpc \in {"send", "confirm", "gone"}
  /\ csent <= Size[cfile] /\ (cpc = "confirm" => csent = Size[cfile])
  /\ s2c = <<>>
  /\ state = "READY" /\ Receives
  /\ mpc \in {"receive", "close"}
  /\ UnitsFrom(Got, 0)
  /\ \/ /\ Still
        /\ UnitsFrom(c2s, Len(Got))
        /\ csent = Len(Got) + Len(c2s)
     \/ /\ iopc \in {"test", "arrive"} /\ mq = <<>> /\ mpc = "receive"
        /\ UnitsFrom(rx, Len(Got))
        /\ UnitsFrom(c2s, Len(Got) + Len(rx))
        /\ csent = Len(Got) + Len(rx) + Len(c2s)

\* From PostMessage(MSG_RECEIVE_COMPLETE) to the status.
Complete ==
  /\ cfile \in Files /\ cpc \in {"send", "confirm", "gone"} /\ csent = Size[cfile]
  /\ c2s = <<>> /\ s2c = <<>>
  /\ Receives /\ UnitsFrom(Got, 0) /\ Len(Got) = Size[cfile]
  /\ \/ /\ state = "READY" /\ iopc = "post" /\ iomsg = "COMPLETE"
        /\ mq = <<>> /\ mpc = "receive"
     \/ /\ state = "READY" /\ QuietIo
        /\ mq = <<"COMPLETE">> \/ mq = <<"COMPLETE", "CLOSE">>
        /\ mpc = "receive"
     \/ state = "READY" /\ Still /\ mpc = "complete"
     \/ state = "READY" /\ Still /\ mpc = "done" /\ Accounted
     \/ state = "COMPLETE" /\ Still /\ mpc = "notify" /\ Accounted

\* The client that had not yet noticed it has sent everything hangs up.
Answered ==
  /\ cfile \in Files /\ csent = Size[cfile]
  /\ c2s = <<>>
  /\ \/ s2c = <<"COMPLETE">> /\ cpc \in {"send", "confirm", "gone"}
     \/ s2c = <<>> /\ cpc = "gone"
  /\ Still /\ AtRest
  /\ Accounted

Stage ==
  \/ Idle
  \/ Offered
  \/ Tested
  \/ Announced
  \/ Ready
  \/ Sending
  \/ Complete
  \/ Answered

StoreInv ==
  /\ \A i \in DOMAIN disk : disk[i].file \in Files /\ disk[i].data = Content(disk[i].file)
  /\ \A i \in DOMAIN pending : IsQueued(pending[i])
ToldInv == \A f \in told : f \in refused \/ IsKept(f)

TransferInv == Orderly => Stage /\ StoreInv /\ ToldInv /\ ~overrun

-----------------------------------------------------------------------------
(* Lemmas about the operators. *)

\* The short queues that occur.
LEMMA QueueFacts ==
  ASSUME NEW x, NEW y
  PROVE  /\ Append(<<>>, x) = <<x>> /\ Append(<<x>>, y) = <<x, y>>
         /\ Tail(<<x>>) = <<>> /\ Tail(<<x, y>>) = <<y>>
         /\ Head(<<x>>) = x /\ Head(<<x, y>>) = x
<1> DEFINE S == {x, y}
<1>1. /\ <<x>> \in Seq(S) /\ Len(<<x>>) = 1 /\ <<x>>[1] = x
      /\ <<y>> \in Seq(S) /\ Len(<<y>>) = 1 /\ <<y>>[1] = y
      /\ <<x, y>> \in Seq(S) /\ Len(<<x, y>>) = 2 /\ <<x, y>>[1] = x /\ <<x, y>>[2] = y
  OBVIOUS
<1>2. <<>> \in Seq(S) /\ Len(<<>>) = 0 /\ <<x>> # <<>> /\ <<x, y>> # <<>>
  BY <1>1, EmptySeq
<1> HIDE DEF S
<1>3. Append(<<>>, x) = <<x>>
  <2>1. /\ Append(<<>>, x) \in Seq(S) /\ Len(Append(<<>>, x)) = 1
        /\ Append(<<>>, x)[1] = x
    BY <1>2, AppendProperties DEF S
  <2> QED BY <1>1, <2>1, SeqEqual
<1>4. Append(<<x>>, y) = <<x, y>>
  <2>1. /\ Append(<<x>>, y) \in Seq(S) /\ Len(Append(<<x>>, y)) = 2
        /\ Append(<<x>>, y)[1] = x /\ Append(<<x>>, y)[2] = y
    BY <1>1, AppendProperties DEF S
  <2>2. \A i \in 1 .. 2 : Append(<<x>>, y)[i] = <<x, y>>[i]
    <3>1. \A i \in 1 .. 2 : i = 1 \/ i = 2
      OBVIOUS
    <3> QED BY <1>1, <2>1, <3>1
  <2> QED BY <1>1, <2>1, <2>2, SeqEqual
<1>5. Tail(<<x>>) = <<>> /\ Head(<<x>>) = x
  <2>1. Tail(<<x>>) \in Seq(S) /\ Len(Tail(<<x>>)) = 0
    BY <1>1, <1>2, HeadTailProperties
  <2> QED BY <1>1, <1>2, <2>1, SeqEqual
<1>6. Tail(<<x, y>>) = <<y>> /\ Head(<<x, y>>) = x
  <2>1. /\ Tail(<<x, y>>) \in Seq(S) /\ Len(Tail(<<x, y>>)) = 1
        /\ Tail(<<x, y>>)[1] = y
    BY <1>1, <1>2, HeadTailProperties
  <2> QED BY <1>1, <1>2, <2>1, SeqEqual
<1> QED BY <1>3, <1>4, <1>5, <1>6

\* They are not empty, and differ.
LEMMA QueuesDiffer ==
  /\ <<"CLOSE">> # <<>> /\ <<"RECEIVE">> # <<>> /\ <<"COMPLETE">> # <<>> /\ <<"READY">> # <<>>
  /\ <<"RECEIVE", "CLOSE">> # <<>> /\ <<"COMPLETE", "CLOSE">> # <<>>
  /\ Len(<<"COMPLETE">>) = 1 /\ Len(<<"READY">>) = 1
  /\ \A x : <<x>> # <<>> /\ Len(<<x>>) = 1
OBVIOUS

\* A fileinfo line is a line, and announces its file and no other.
LEMMA InfoLine ==
  ASSUME NEW f \in Files
  PROVE  /\ FirstLine(<<Info(f)>>) = 1
         /\ <<Info(f)>> # <<Heartbeat>>
         /\ \A g \in Files : <<Info(f)>> \in {<<Info(g)>>, <<Head1(g), Tail1(g)>>} => g = f
<1> DEFINE s == <<Info(f)>>
<1>1. DOMAIN s = 1 .. 1 /\ s[1] = Info(f) /\ Info(f).is = "info" /\ Info(f).file = f
  BY DEF Info
<1>2. EndsFirstLine(s, 1)
  BY <1>1 DEF EndsFirstLine, IsLine
<1>3. FirstLine(s) = 1
  <2>1. (CHOOSE i \in DOMAIN s : EndsFirstLine(s, i)) \in DOMAIN s
    BY <1>1, <1>2
  <2> QED BY <1>1, <1>2, <2>1 DEF FirstLine
<1>4. s # <<Heartbeat>>
  <2>1. Heartbeat.is = "hb" /\ <<Heartbeat>>[1] = Heartbeat
    BY DEF Heartbeat
  <2> QED BY <1>1, <2>1
<1>5. ASSUME NEW g \in Files, s \in {<<Info(g)>>, <<Head1(g), Tail1(g)>>} PROVE g = f
  <2>1. <<Info(g)>>[1] = Info(g) /\ Info(g).file = g
    BY DEF Info
  <2>2. Len(s) = 1 /\ Len(<<Head1(g), Tail1(g)>>) = 2
    OBVIOUS
  <2> QED BY <1>1, <1>5, <2>1, <2>2
<1> QED BY <1>3, <1>4, <1>5

\* An object that holds all the units of its file is written as the file.
LEMMA WholeIsContent ==
  ASSUME HeapOK, cfile \in Files, Receives, UnitsFrom(Got, 0), Len(Got) = Size[cfile]
  PROVE  IsQueued(fileptr)
<1>1. Got \in Seq(Tokens)
  BY DEF HeapOK, Receives, Got
<1>2. /\ DOMAIN Got = 1 .. Size[cfile]
      /\ \A i \in 1 .. Size[cfile] : Got[i] = Data(cfile, i)
  <2>1. \A i \in 1 .. Size[cfile] : 0 + i = i
    BY SizeAssumption
  <2> QED BY <1>1, <2>1, LenProperties DEF UnitsFrom
<1>3. Written(fileptr) = Content(cfile)
  BY <1>2, SizeAssumption DEF Written, Content, Receives, Got
<1> QED BY <1>3 DEF IsQueued, Receives

\* One more unit.
LEMMA UnitsAppend ==
  ASSUME NEW s \in Seq(Tokens), NEW k \in Nat, UnitsFrom(s, k), cfile \in Files,
         NEW r, r = Append(s, Data(cfile, k + Len(s) + 1))
  PROVE  UnitsFrom(r, k) /\ Len(r) = Len(s) + 1
<1>1. Data(cfile, k + Len(s) + 1) \in Tokens
  BY TokenTypes, LenProperties
<1>2. /\ Len(r) = Len(s) + 1 /\ DOMAIN r = 1 .. Len(s) + 1 /\ Len(s) \in Nat
      /\ DOMAIN s = 1 .. Len(s)
      /\ r[Len(s) + 1] = Data(cfile, k + Len(s) + 1)
      /\ \A i \in 1 .. Len(s) : r[i] = s[i]
  BY <1>1, AppendProperties, LenProperties
<1>3. k + (Len(s) + 1) = k + Len(s) + 1
  BY <1>2
<1> QED BY <1>2, <1>3 DEF UnitsFrom

\* What is received follows what was there.
LEMMA UnitsConcat ==
  ASSUME NEW s \in Seq(Tokens), NEW t \in Seq(Tokens), NEW k \in Nat,
         UnitsFrom(s, k), UnitsFrom(t, k + Len(s))
  PROVE  UnitsFrom(s \o t, k) /\ Len(s \o t) = Len(s) + Len(t)
<1>1. /\ Len(s) \in Nat /\ Len(t) \in Nat /\ Len(s \o t) = Len(s) + Len(t)
      /\ DOMAIN (s \o t) = 1 .. Len(s) + Len(t)
      /\ DOMAIN s = 1 .. Len(s) /\ DOMAIN t = 1 .. Len(t)
      /\ \A i \in 1 .. Len(s) + Len(t) :
           (s \o t)[i] = IF i <= Len(s) THEN s[i] ELSE t[i - Len(s)]
  BY ConcatProperties, LenProperties
<1>2. ASSUME NEW i \in 1 .. Len(s) + Len(t) PROVE (s \o t)[i] = Data(cfile, k + i)
  <2>1. CASE i <= Len(s)
    BY <1>1, <2>1 DEF UnitsFrom
  <2>2. CASE i > Len(s)
    <3>1. i - Len(s) \in DOMAIN t /\ k + Len(s) + (i - Len(s)) = k + i
      BY <1>1, <2>2
    <3>2. t[i - Len(s)] = Data(cfile, k + Len(s) + (i - Len(s)))
      BY <3>1 DEF UnitsFrom
    <3> QED BY <1>1, <2>2, <3>1, <3>2
  <2> QED BY <1>1, <2>1, <2>2
<1> QED BY <1>1, <1>2 DEF UnitsFrom

\* What is read and what is left are the two parts of what was on its way.
LEMMA UnitsSplit ==
  ASSUME NEW s \in Seq(Tokens), NEW k \in Nat, UnitsFrom(s, k),
         NEW n \in 1 .. Len(s)
  PROVE  /\ UnitsFrom(SubSeq(s, 1, n), k) /\ Len(SubSeq(s, 1, n)) = n
         /\ UnitsFrom(SubSeq(s, n + 1, Len(s)), k + n)
         /\ Len(SubSeq(s, n + 1, Len(s))) = Len(s) - n
<1>a. PICK a : a = SubSeq(s, 1, n)
  OBVIOUS
<1>b. PICK b : b = SubSeq(s, n + 1, Len(s))
  OBVIOUS
<1>0. Len(s) \in Nat /\ n \in Nat /\ n >= 1 /\ n <= Len(s)
  BY LenProperties
<1>1. /\ Len(s) \in Nat /\ DOMAIN s = 1 .. Len(s) /\ \A i \in 1 .. Len(s) : s[i] \in Tokens
      /\ n \in Nat /\ n >= 1 /\ n <= Len(s)
  BY <1>0, LenProperties
<1>2. a \in Seq(Tokens) /\ Len(a) = n /\ \A i \in 1 .. n : a[i] = s[i]
  BY <1>1, <1>a, SubSeqProperties
<1>3. b \in Seq(Tokens) /\ Len(b) = Len(s) - n /\ \A i \in 1 .. Len(s) - n : b[i] = s[n + i]
  <2>1. n + 1 \in Int /\ Len(s) \in Int /\ \A i \in n + 1 .. Len(s) : s[i] \in Tokens
    BY <1>1
  <2>2. /\ b \in Seq(Tokens)
        /\ Len(b) = IF n + 1 <= Len(s) THEN Len(s) - (n + 1) + 1 ELSE 0
        /\ \A i \in 1 .. Len(s) - (n + 1) + 1 : b[i] = s[(n + 1) + i - 1]
    BY <1>b, <2>1, SubSeqProperties
  <2>3. Len(b) = Len(s) - n
    <3>1. CASE n + 1 <= Len(s)
      <4>1. Len(b) = Len(s) - (n + 1) + 1
        BY <2>2, <3>1
      <4> QED BY <1>1, <4>1
    <3>2. CASE ~(n + 1 <= Len(s))
      <4>1. Len(b) = 0
        BY <2>2, <3>2
      <4>2. n = Len(s)
        BY <1>0, <3>2
      <4> QED BY <1>0, <4>1, <4>2
    <3> QED BY <3>1, <3>2
  <2>4. ASSUME NEW i \in 1 .. Len(s) - n PROVE b[i] = s[n + i]
    <3>1. (n + 1) + i - 1 = n + i /\ i \in 1 .. Len(s) - (n + 1) + 1
      BY <1>1
    <3> QED BY <2>2, <3>1
  <2> QED BY <2>2, <2>3, <2>4
<1>4. DOMAIN a = 1 .. n /\ DOMAIN b = 1 .. Len(s) - n
  BY <1>2, <1>3, LenProperties
<1>5. UnitsFrom(a, k)
  BY <1>1, <1>2, <1>4 DEF UnitsFrom
<1>6. UnitsFrom(b, k + n)
  <2>1. ASSUME NEW i \in DOMAIN b PROVE b[i] = Data(cfile, k + n + i)
    <3>1. n + i \in DOMAIN s /\ k + (n + i) = k + n + i
      BY <1>1, <1>4
    <3> QED BY <1>3, <1>4, <3>1 DEF UnitsFrom
  <2> QED BY <2>1 DEF UnitsFrom
<1> QED BY <1>a, <1>b, <1>2, <1>3, <1>5, <1>6

-----------------------------------------------------------------------------
(* The writer's part: what is kept stays kept. *)

\* What is in the queue is the writer's.
LEMMA PendingOwned ==
  ASSUME TypeInv
  PROVE  \A i \in DOMAIN pending : pending[i] \in Objs /\ pending[i] \in Owned
<1>1. pending \in Seq(Objs)
  BY DEF TypeInv, TypeOK, WriterOK
<1> QED BY <1>1 DEF Owned

\* The only steps that change the queue or the disk.
LEMMA QueueSteps ==
  ASSUME TypeInv, [Next]_vars
  PROVE  \/ UNCHANGED <<pending, disk>>
         \/ ReceiveComplete /\ pending' = Append(pending, fileptr) /\ UNCHANGED <<disk, heap>>
         \/ SaveFirst /\ WriterOnly
<1>1. CASE Client
  <2>1. ClientOnly
    BY <1>1 DEF Client, Offer, SendUnit, SendSurplus, AllSent, ClientReceive, Beat, Disconnect
  <2> QED BY <2>1 DEF ClientOnly, writerVars, storeVars
<1>2. CASE IoThread
  <2>1. IoOnly
    BY <1>2 DEF IoThread, ReadSome, ReadError, TestReady, TestWaiting, DataArrive, Post
  <2> QED BY <2>1 DEF IoOnly, writerVars, storeVars
<1>3. CASE MsgThread
  <2>1. CASE ReceiveComplete
    BY <2>1 DEF ReceiveComplete, Writer!Accept, storeVars
  <2>2. CASE ~ReceiveComplete
    BY <1>3, <2>2 DEF MsgThread, Dispatch, Lookup, ReadLine, ReceiveInfo, NoMemory, ReceiveBeat,
       ReceiveWrong, CompleteStatus, FailureStatus, Notify, Rewait, NetworkClose,
       writerVars, storeVars
  <2> QED BY <2>1, <2>2
<1>4. CASE SaveFirst
  BY <1>4 DEF SaveFirst
<1>5. CASE Release \/ WriterPhase
  BY <1>5 DEF Release, WriterPhase, Writer!Open, Writer!Halt, storeVars
<1>6. CASE UNCHANGED vars
  BY <1>6 DEF vars, writerVars, storeVars
<1> QED BY <1>1, <1>2, <1>3, <1>4, <1>5, <1>6 DEF Next

\* A file that is queued or on disk stays so.
LEMMA KeptStays ==
  ASSUME TypeInv, QueuedWhole, [Next]_vars, NEW f, IsKept(f)
  PROVE  IsKept(f)'
<1>0. pending \in Seq(Objs) /\ disk \in Seq([file : Files \cup {NoFile}, data : Seq(Tokens)])
  BY DEF TypeInv, TypeOK, WriterOK
<1>1. \A i \in DOMAIN pending : heap'[pending[i]].file = heap[pending[i]].file
  BY PendingOwned, QueuedNext DEF NamesStay
<1>2. CASE UNCHANGED <<pending, disk>>
  BY <1>1, <1>2 DEF IsKept
<1>3. CASE ReceiveComplete /\ pending' = Append(pending, fileptr) /\ UNCHANGED <<disk, heap>>
  <2>1. fileptr \in Objs
    BY <1>3 DEF ReceiveComplete, TypeInv, TypeOK, PointersInv, HasFileInfo, ReceiverOK
  <2>2. \A i \in DOMAIN pending : i \in DOMAIN pending' /\ pending'[i] = pending[i]
    BY <1>0, <1>3, <2>1, Appended
  <2> QED BY <1>3, <2>2 DEF IsKept
<1>4. CASE SaveFirst /\ WriterOnly
  <2> DEFINE entry == [file |-> heap[Head(pending)].file, data |-> Written(Head(pending))]
  <2>1. pending # <<>> /\ pending' = Tail(pending) /\ disk' = Append(disk, entry) /\ heap' = heap
    BY <1>4 DEF SaveFirst, Writer!Store, WriterOnly
  <2>2. Head(pending) \in Objs /\ Head(pending) = pending[1]
    BY <1>0, <2>1
  <2>3. entry \in [file : Files \cup {NoFile}, data : Seq(Tokens)]
    BY <2>2, WrittenType DEF TypeInv, TypeOK, HeapOK
  <2>4. /\ \A i \in DOMAIN disk : i \in DOMAIN disk' /\ disk'[i] = disk[i]
        /\ Len(disk') \in DOMAIN disk' /\ disk'[Len(disk')] = entry
    <3>1. /\ \A i \in DOMAIN disk : i \in DOMAIN disk' /\ disk'[i] = disk[i]
          /\ Len(disk') = Len(disk) + 1 /\ disk'[Len(disk')] = entry
          /\ disk' \in Seq([file : Files \cup {NoFile}, data : Seq(Tokens)])
      BY <1>0, <2>1, <2>3, Appended
    <3> QED BY <1>0, <3>1, LenProperties
  <2>5. CASE \E i \in DOMAIN disk : disk[i].file = f
    BY <2>4, <2>5 DEF IsKept
  <2>6. ASSUME NEW i \in DOMAIN pending, heap[pending[i]].file = f PROVE IsKept(f)'
    <3>1. CASE i = 1
      <4>1. entry.file = f
        BY <2>2, <2>6, <3>1
      <4> QED BY <2>4, <4>1 DEF IsKept
    <3>2. CASE i # 1
      <4>1. i - 1 \in DOMAIN pending' /\ pending'[i - 1] = pending[i]
        <5>1. i \in 2 .. Len(pending) /\ Len(pending) \in Nat
          BY <1>0, <2>6, <3>2, LenProperties
        <5>2. /\ pending' \in Seq(Objs) /\ Len(pending') = Len(pending) - 1
              /\ \A j \in 1 .. Len(pending') : pending'[j] = pending[j + 1]
          BY <1>0, <2>1, HeadTailProperties
        <5>3. i - 1 \in 1 .. Len(pending') /\ (i - 1) + 1 = i
          BY <5>1, <5>2
        <5> QED BY <5>2, <5>3, LenProperties
      <4> QED BY <2>1, <2>6, <4>1 DEF IsKept
    <3> QED BY <3>1, <3>2
  <2> QED BY <2>5, <2>6 DEF IsKept
<1> QED BY <1>2, <1>3, <1>4, QueueSteps

\* refused only grows.
LEMMA RefusedGrows == ASSUME [Next]_vars PROVE refused \subseteq refused'
<1>1. CASE Client
  <2>1. ClientOnly
    BY <1>1 DEF Client, Offer, SendUnit, SendSurplus, AllSent, ClientReceive, Beat, Disconnect
  <2> QED BY <2>1 DEF ClientOnly
<1>2. CASE IoThread
  BY <1>2 DEF IoThread, ReadSome, ReadError, TestReady, TestWaiting, DataArrive, Post, IoOnly
<1>3. CASE MsgThread
  BY <1>3 DEF MsgThread, Dispatch, Lookup, ReadLine, ReceiveInfo, NoMemory, ReceiveBeat,
     ReceiveWrong, ReceiveComplete, CompleteStatus, FailureStatus, Notify, Rewait, NetworkClose
<1>4. CASE SaveFirst \/ Release \/ WriterPhase
  BY <1>4 DEF SaveFirst, Release, WriterPhase, WriterOnly
<1>5. CASE UNCHANGED vars
  BY <1>5 DEF vars
<1> QED BY <1>1, <1>2, <1>3, <1>4, <1>5 DEF Next

\* What was accounted for stays so, while the client is at the same file.
LEMMA AccountedStays ==
  ASSUME TypeInv, QueuedWhole, [Next]_vars, Accounted, cfile' = cfile
  PROVE  Accounted'
<1>1. CASE cfile \in refused
  BY <1>1, RefusedGrows DEF Accounted
<1>2. CASE IsKept(cfile)
  BY <1>2, KeptStays DEF Accounted, IsKept
<1> QED BY <1>1, <1>2 DEF Accounted

-----------------------------------------------------------------------------
(* Every step moves the file to the same stage or to the next. *)

\* At every stage a read that has come fits into filedata.
LEMMA StageFits ==
  ASSUME TypeInv, Stage
  PROVE  ~Overruns
<1> SUFFICES ASSUME iopc = "arrive"
             PROVE  ~(Len(heap[fileptr].data \o rx) > heap[fileptr].size)
  BY DEF Overruns
<1>1. Sending /\ csent = Len(Got) + Len(rx) + Len(c2s)
  BY DEF Stage, Idle, Offered, Tested, Announced, Ready, Sending, Complete, Answered,
     Still, QuietIo
<1>2. /\ fileptr \in Objs /\ heap[fileptr].size = Size[cfile] /\ csent <= Size[cfile]
      /\ Got \in Seq(Tokens) /\ rx \in Seq(Tokens) /\ c2s \in Seq(Tokens)
      /\ Size[cfile] \in Nat
  BY <1>1, SizeAssumption DEF Sending, Receives, Got, TypeInv, TypeOK, HeapOK, IoOK, NetOK
<1>3. /\ Len(heap[fileptr].data \o rx) = Len(Got) + Len(rx)
      /\ Len(c2s) \in Nat /\ Len(Got) \in Nat /\ Len(rx) \in Nat
  BY <1>2, ConcatProperties, LenProperties DEF Got
<1> QED BY <1>1, <1>2, <1>3

\* So what the writer holds is not touched at all.
LEMMA StageIntact ==
  ASSUME TypeInv, QueuedWhole, Stage, [Next]_vars
  PROVE  Intact
BY QueuedNext, StageFits

\* A step that touches nothing of the transfer leaves it at its stage.
LEMMA Unmoved ==
  ASSUME Stage, Accounted => Accounted',
         UNCHANGED <<cpc, cfile, csent, c2s, s2c, rx, iopc, iomsg, mq, mpc, found, state,
                     fileptr, line, heap>>
  PROVE  Stage'
<1> USE DEF Stage, QuietIo, NoWork, AtRest, Still
<1>1. CASE Idle
  BY <1>1 DEF Idle
<1>2. CASE Offered
  BY <1>2 DEF Offered
<1>3. CASE Tested
  BY <1>3 DEF Tested
<1>4. CASE Announced
  BY <1>4 DEF Announced
<1>5. CASE Ready
  BY <1>5 DEF Ready, Receives, Got
<1>6. CASE Sending
  BY <1>6 DEF Sending, Receives, Got, UnitsFrom
<1>7. CASE Complete
  BY <1>7 DEF Complete, Receives, Got, UnitsFrom
<1>8. CASE Answered
  BY <1>8 DEF Answered
<1> QED BY <1>1, <1>2, <1>3, <1>4, <1>5, <1>6, <1>7, <1>8

\* The writer.
LEMMA WriterStages ==
  ASSUME TypeInv, QueuedWhole, Stage, [Next]_vars,
         SaveFirst \/ Release \/ WriterPhase \/ UNCHANGED vars
  PROVE  Stage'
<1>1. UNCHANGED <<cpc, cfile, csent, c2s, s2c, rx, iopc, iomsg, mq, mpc, found, state,
                  fileptr, line, heap>>
  BY DEF SaveFirst, Release, WriterPhase, WriterOnly, vars, clientVars, netVars, ioVars, msgVars,
     rcvVars
<1> QED BY <1>1, Unmoved, AccountedStays

\* The client.
LEMMA ClientStages ==
  ASSUME TypeInv, QueuedWhole, Orderly, Stage, [Next]_vars, Client
  PROVE  Stage'
<1>0. /\ client \in [files : SUBSET Files, beats : Nat, surplus : [Files -> Nat],
                 split : BOOLEAN]
      /\ csent \in Nat /\ c2s \in Seq(Tokens) /\ cfile \in Files \cup {NoFile}
      /\ \A f \in Files : Size[f] \in Nat
      /\ HeapOK
  BY BoundsAssumption, SizeAssumption DEF TypeInv, TypeOK, ClientOK, NetOK
<1>1. UNCHANGED <<rx, iopc, iomsg, mq, mpc, found, state, fileptr, line, heap>>
  <2>1. ClientOnly
    BY DEF Client, Offer, SendUnit, SendSurplus, AllSent, ClientReceive, Beat, Disconnect
  <2> QED BY <2>1 DEF ClientOnly, ioVars, msgVars, rcvVars
<1>a. cfile' = cfile /\ Accounted => Accounted'
  BY AccountedStays
<1> USE DEF QuietIo, NoWork, AtRest, Still
<1>2. ASSUME NEW f \in Files, Offer(f) PROVE Stage'
  <2>1. cpc = "idle" /\ cpc' = "await" /\ cfile' = f /\ csent' = 0 /\ s2c' = s2c
    BY <1>2 DEF Offer, ClientOnly
  <2>2. Idle
    BY <2>1 DEF Stage, Idle, Offered, Tested, Announced, Ready, Sending, Complete, Answered
  <2>3. c2s' = <<Info(f)>>
    BY <1>2, <2>2, QueueFacts DEF Offer, Orderly, Idle
  <2> QED BY <1>1, <2>1, <2>2, <2>3 DEF Stage, Idle, Offered
<1>3. CASE SendUnit
  <2>1. /\ cpc = "send" /\ csent < Size[cfile] /\ csent' = csent + 1
        /\ c2s' = Append(c2s, Data(cfile, csent + 1))
        /\ UNCHANGED <<cpc, cfile, s2c>>
    BY <1>3 DEF SendUnit
  <2>2. Sending
    BY <1>0, <2>1 DEF Stage, Idle, Offered, Tested, Announced, Ready, Sending, Complete, Answered
  <2>3. cfile \in Files /\ Len(Got) \in Nat /\ Len(rx) \in Nat
    BY <1>0, <2>2 DEF Sending, Receives, Got, HeapOK, TypeInv, TypeOK, IoOK
  <2>4. csent' <= Size[cfile]
    BY <1>0, <2>1, <2>3
  <2>5. Got' = Got /\ Receives' /\ UnitsFrom(Got, 0)'
    BY <1>1, <2>1, <2>2 DEF Sending, Receives, Got, UnitsFrom
  <2>6. CASE Still /\ UnitsFrom(c2s, Len(Got)) /\ csent = Len(Got) + Len(c2s)
    <3>1. UnitsFrom(c2s', Len(Got)) /\ Len(c2s') = Len(c2s) + 1
      BY <1>0, <2>1, <2>3, <2>6, UnitsAppend
    <3>2. UnitsFrom(c2s, Len(Got))' /\ csent' = Len(Got) + Len(c2s')
      BY <1>0, <2>1, <2>3, <2>5, <2>6, <3>1 DEF UnitsFrom
    <3> QED BY <1>1, <2>1, <2>2, <2>4, <2>5, <2>6, <3>2 DEF Stage, Sending
  <2>7. CASE /\ iopc \in {"test", "arrive"} /\ mq = <<>> /\ mpc = "receive"
             /\ UnitsFrom(rx, Len(Got)) /\ UnitsFrom(c2s, Len(Got) + Len(rx))
             /\ csent = Len(Got) + Len(rx) + Len(c2s)
    <3>0. /\ Len(Got) + Len(rx) \in Nat
          /\ c2s' = Append(c2s, Data(cfile, (Len(Got) + Len(rx)) + Len(c2s) + 1))
      BY <1>0, <2>1, <2>3, <2>7
    <3>1. UnitsFrom(c2s', Len(Got) + Len(rx)) /\ Len(c2s') = Len(c2s) + 1
      BY <1>0, <2>3, <2>7, <3>0, UnitsAppend
    <3>2. /\ UnitsFrom(rx, Len(Got))' /\ UnitsFrom(c2s, Len(Got) + Len(rx))'
          /\ csent' = Len(Got) + Len(rx) + Len(c2s')
      BY <1>0, <1>1, <2>1, <2>3, <2>5, <2>7, <3>1 DEF UnitsFrom
    <3> QED BY <1>1, <2>1, <2>2, <2>4, <2>5, <2>7, <3>2 DEF Stage, Sending
  <2> QED BY <2>2, <2>6, <2>7 DEF Sending
<1>4. CASE SendSurplus
  <2>1. cpc = "send" /\ csent \in Size[cfile] .. Size[cfile] + 0 - 1 /\ cfile \in Files
    BY <1>0, <1>4 DEF SendSurplus, Orderly, TypeInv, PointersInv, SendsFile
  <2> QED BY <1>0, <2>1
<1>5. CASE AllSent
  <2>1. /\ cpc = "send" /\ cpc' = "confirm" /\ csent >= Size[cfile] /\ cfile \in Files
        /\ UNCHANGED <<cfile, csent, c2s, s2c>>
    BY <1>5 DEF AllSent, netVars, TypeInv, PointersInv, SendsFile
  <2>2. Sending \/ Complete \/ Answered
    BY <2>1 DEF Stage, Idle, Offered, Tested, Announced, Ready
  <2>3. CASE Sending
    <3>1. csent' = Size[cfile]'
      BY <1>0, <2>1, <2>3 DEF Sending
    <3> QED BY <1>0, <1>1, <2>1, <2>3, <3>1 DEF Stage, Sending, Receives, Got, UnitsFrom
  <2>4. CASE Complete
    BY <1>1, <1>a, <2>1, <2>4 DEF Stage, Complete, Receives, Got, UnitsFrom
  <2>5. CASE Answered
    BY <1>1, <1>a, <2>1, <2>5 DEF Stage, Answered
  <2> QED BY <2>2, <2>3, <2>4, <2>5
<1>6. CASE ClientReceive
  <2>1. /\ cpc # "gone" /\ s2c # <<>> /\ s2c' = Tail(s2c)
        /\ UNCHANGED <<csent, c2s>>
    BY <1>6 DEF ClientReceive
  <2>2. (Ready /\ s2c = <<"READY">>) \/ (Answered /\ s2c = <<"COMPLETE">>)
    BY <2>1 DEF Stage, Idle, Offered, Tested, Announced, Ready, Sending, Complete, Answered
  <2>3. CASE Ready /\ s2c = <<"READY">>
    <3>1. cpc' = "send" /\ cfile' = cfile /\ s2c' = <<>>
      BY <1>6, <2>1, <2>3, QueueFacts DEF ClientReceive, Ready
    <3>2. UnitsFrom(<<>>, 0)' /\ Len(<<>>) = 0
      BY DEF UnitsFrom
    <3> QED
      BY <1>0, <1>1, <2>1, <2>3, <3>1, <3>2, QueuesDiffer
         DEF Stage, Ready, Sending, Receives, Got
  <2>4. CASE Answered /\ s2c = <<"COMPLETE">> /\ cpc = "confirm"
    <3>1. cpc' = "idle" /\ cfile' = NoFile /\ s2c' = <<>>
      BY <1>6, <2>1, <2>4, QueueFacts DEF ClientReceive
    <3> QED BY <1>1, <2>1, <2>4, <3>1 DEF Stage, Answered, Idle
  <2>5. CASE Answered /\ s2c = <<"COMPLETE">> /\ cpc = "send"
    <3>1. cpc' = "gone" /\ s2c' = <<>> /\ cfile' = cfile
      BY <1>6, <2>1, <2>5, QueueFacts DEF ClientReceive
    <3> QED BY <1>1, <1>a, <2>1, <2>5, <3>1 DEF Stage, Answered
  <2> QED BY <2>1, <2>2, <2>3, <2>4, <2>5, QueuesDiffer DEF Answered
<1>7. CASE Beat
  BY <1>7 DEF Beat, Orderly, TypeInv, TypeOK, ClientOK
<1>8. CASE Disconnect
  <2>1. cpc' = "gone" /\ UNCHANGED <<cfile, csent, c2s, s2c>>
    BY <1>8 DEF Disconnect
  <2>2. CASE Idle \/ Offered \/ Tested \/ Announced
    BY <1>1, <2>1, <2>2 DEF Stage, Idle, Offered, Tested, Announced
  <2>3. CASE Ready
    BY <1>1, <2>1, <2>3 DEF Stage, Ready, Receives, Got
  <2>4. CASE Sending
    BY <1>1, <2>1, <2>4 DEF Stage, Sending, Receives, Got, UnitsFrom
  <2>5. CASE Complete
    BY <1>1, <1>a, <2>1, <2>5 DEF Stage, Complete, Receives, Got, UnitsFrom
  <2>6. CASE Answered
    BY <1>1, <1>a, <2>1, <2>6 DEF Stage, Answered
  <2> QED BY <2>2, <2>3, <2>4, <2>5, <2>6 DEF Stage
<1> QED BY <1>2, <1>3, <1>4, <1>5, <1>6, <1>7, <1>8 DEF Client

\* The I/O thread.
LEMMA IoStages ==
  ASSUME TypeInv, CloseInv, QueuedWhole, Stage, [Next]_vars, IoThread
  PROVE  Stage'
<1>0. /\ rx \in Seq(Tokens) /\ c2s \in Seq(Tokens) /\ HeapOK
      /\ \A f \in Files : Size[f] \in Nat
  BY SizeAssumption DEF TypeInv, TypeOK, IoOK, NetOK
<1>1. UNCHANGED <<cpc, cfile, csent, mpc, found, state, pending, disk, refused>> /\ IoOnly
  <2>1. IoOnly
    BY DEF IoThread, ReadSome, ReadError, TestReady, TestWaiting, DataArrive, Post
  <2> QED BY <2>1 DEF IoOnly, clientVars, msgVars, writerVars, storeVars
<1>a. Accounted => Accounted'
  BY <1>1, AccountedStays
<1>b. iopc # "ended" => mq # <<"CLOSE">> /\ mpc # "close"
  <2>1. mq = <<"CLOSE">> => 1 \in DOMAIN mq /\ mq[1] = "CLOSE"
    OBVIOUS
  <2> QED BY <2>1 DEF CloseInv, CloseIsLast, CloseTaken
<1> USE DEF QuietIo, NoWork, AtRest, Still
<1>2. CASE ReadSome
  <2>1. /\ iopc = "reading" /\ iopc' = "test" /\ mq = mq' /\ UNCHANGED <<s2c, fileptr, heap, iomsg>>
        /\ mq # <<"CLOSE">> /\ mpc # "close"
    BY <1>2, <1>b DEF ReadSome
  <2>2. PICK n \in 1 .. PackUnits : /\ n <= Len(c2s)
                                    /\ rx' = SubSeq(c2s, 1, n)
                                    /\ c2s' = SubSeq(c2s, n + 1, Len(c2s))
    BY <1>2 DEF ReadSome
  <2>3. n \in 1 .. Len(c2s) /\ c2s # <<>> /\ Len(c2s) \in Nat /\ n \in Nat
    BY <1>0, <2>2, BoundsAssumption
  <2>4. CASE Offered
    <3>1. c2s = <<Info(cfile)>>
      BY <2>3, <2>4 DEF Offered
    <3>2. Len(c2s) = 1
      BY <3>1, QueuesDiffer
    <3>3. n = 1
      BY <2>3, <3>2
    <3>4. rx' = c2s
      BY <1>0, <2>2, <3>2, <3>3, SubSeqFull
    <3>5. c2s' = <<>>
      BY <2>2, <3>2, <3>3, SubSeqEmpty
    <3> QED BY <1>1, <2>1, <2>4, <3>1, <3>4, <3>5 DEF Stage, Offered, Tested
  <2>5. CASE Sending
    <3>1. Still /\ UnitsFrom(c2s, Len(Got)) /\ csent = Len(Got) + Len(c2s)
      BY <2>1, <2>5 DEF Sending
    <3>2. Got' = Got /\ Receives' /\ UnitsFrom(Got, 0)' /\ Len(Got) \in Nat
      BY <1>0, <1>1, <2>1, <2>5 DEF Sending, Receives, Got, UnitsFrom, HeapOK
    <3>3. /\ UnitsFrom(rx', Len(Got)) /\ Len(rx') = n
          /\ UnitsFrom(c2s', Len(Got) + n) /\ Len(c2s') = Len(c2s) - n
      BY <1>0, <2>2, <2>3, <3>1, <3>2, UnitsSplit
    <3>4. csent' = Len(Got') + Len(rx') + Len(c2s')
      BY <1>1, <2>3, <3>1, <3>2, <3>3
    <3>5. UnitsFrom(rx, Len(Got))' /\ UnitsFrom(c2s, Len(Got) + Len(rx))'
      BY <1>1, <3>2, <3>3 DEF UnitsFrom
    <3> QED BY <1>1, <2>1, <2>5, <3>2, <3>4, <3>5 DEF Stage, Sending
  <2>6. Offered \/ Sending
    BY <2>1, <2>3 DEF Stage, Idle, Tested, Announced, Ready, Complete, Answered
  <2> QED BY <2>4, <2>5, <2>6
<1>3. CASE ReadError
  <2>1. /\ iopc = "reading" /\ iopc' = "post" /\ iomsg' = "CLOSE"
        /\ UNCHANGED <<c2s, s2c, rx, mq, fileptr, line, heap>>
    BY <1>3 DEF ReadError, netVars
  <2>2. CASE Idle \/ Offered \/ Announced
    BY <1>1, <2>1, <2>2 DEF Stage, Idle, Offered, Announced
  <2>3. CASE Ready
    BY <1>1, <2>1, <2>3 DEF Stage, Ready, Receives, Got
  <2>4. CASE Sending
    BY <1>1, <2>1, <2>4 DEF Stage, Sending, Receives, Got, UnitsFrom
  <2>5. CASE Complete
    BY <1>1, <1>a, <2>1, <2>5 DEF Stage, Complete, Receives, Got, UnitsFrom
  <2>6. CASE Answered
    BY <1>1, <1>a, <2>1, <2>6 DEF Stage, Answered
  <2> QED BY <2>1, <2>2, <2>3, <2>4, <2>5, <2>6 DEF Stage, Tested
<1>4. CASE TestReady
  <2>1. /\ iopc = "test" /\ iopc' = IF state = "READY" THEN "arrive" ELSE "waiting"
        /\ UNCHANGED <<c2s, s2c, rx, mq, fileptr, line, heap>>
    BY <1>4 DEF TestReady, netVars
  <2>2. CASE Tested
    BY <1>1, <2>1, <2>2 DEF Stage, Tested
  <2>3. CASE Sending
    BY <1>1, <2>1, <2>3 DEF Stage, Sending, Receives, Got, UnitsFrom
  <2> QED BY <2>1, <2>2, <2>3 DEF Stage, Idle, Offered, Announced, Ready, Complete, Answered
<1>5. CASE TestWaiting
  <2>1. /\ iopc = "waiting" /\ UNCHANGED <<c2s, s2c, rx, mq, fileptr, line, heap>>
        /\ mpc # "close"
    BY <1>5, <1>b DEF TestWaiting, netVars
  <2>2. Tested
    BY <2>1 DEF Stage, Idle, Offered, Announced, Ready, Sending, Complete, Answered
  <2>3. CASE state = "WAITING"
    <3>1. iopc' = "post" /\ iomsg' = "RECEIVE"
      BY <1>5, <2>3 DEF TestWaiting
    <3> QED BY <1>1, <2>1, <2>2, <2>3, <3>1 DEF Stage, Tested, Announced
  <2>4. CASE state # "WAITING"
    <3>1. iopc' \in {"reading", "ended"}
      BY <1>5, <2>4 DEF TestWaiting, Rearm
    <3> QED BY <1>1, <2>1, <2>2, <3>1 DEF Stage, Tested, Offered
  <2> QED BY <2>3, <2>4
<1>6. CASE DataArrive
  <2>1. /\ iopc = "arrive" /\ heap' = [heap EXCEPT ![fileptr].data = @ \o rx]
        /\ IF Len(heap'[fileptr].data) >= heap[fileptr].size
             THEN iopc' = "post" /\ iomsg' = "COMPLETE"
             ELSE iopc' \in {"reading", "ended"}
        /\ UNCHANGED <<c2s, s2c, rx, mq, fileptr>>
    BY <1>6, ArrivedHeap, StageFits DEF DataArrive, Rearm, netVars
  <2>2. Sending
    BY <2>1 DEF Stage, Idle, Offered, Tested, Announced, Ready, Complete, Answered
  <2>3. /\ mq = <<>> /\ mpc = "receive"
        /\ UnitsFrom(rx, Len(Got)) /\ UnitsFrom(c2s, Len(Got) + Len(rx))
        /\ csent = Len(Got) + Len(rx) + Len(c2s)
    BY <2>1, <2>2 DEF Sending
  <2>4. /\ fileptr \in Objs /\ cfile \in Files /\ UnitsFrom(Got, 0) /\ csent <= Size[cfile]
        /\ Got \in Seq(Tokens) /\ Len(Got) \in Nat /\ Len(rx) \in Nat /\ Len(c2s) \in Nat
        /\ Size[cfile] \in Nat
    BY <1>0, <2>2 DEF Sending, Receives, Got, HeapOK
  <2>5. UnitsFrom(Got \o rx, 0) /\ Len(Got \o rx) = Len(Got) + Len(rx)
    BY <1>0, <2>3, <2>4, UnitsConcat
  <2>6. Got' = Got \o rx /\ Receives'
    BY <1>0, <1>1, <2>1, <2>2, <2>4 DEF Sending, Receives, Got, HeapOK
  <2>7. UnitsFrom(Got, 0)' /\ Len(Got') = Len(Got) + Len(rx)
    BY <1>1, <2>5, <2>6 DEF UnitsFrom
  <2>8. CASE Len(Got') >= Size[cfile]
    <3>1. iopc' = "post" /\ iomsg' = "COMPLETE"
      BY <2>1, <2>2, <2>8 DEF Sending, Receives, Got
    <3>2. csent = Size[cfile] /\ Len(c2s) = 0 /\ Len(Got') = Size[cfile]
      BY <2>3, <2>4, <2>7, <2>8
    <3>3. c2s = <<>>
      BY <1>0, <3>2
    <3> QED BY <1>1, <2>1, <2>2, <2>3, <2>6, <2>7, <3>1, <3>2, <3>3 DEF Stage, Sending, Complete
  <2>9. CASE ~(Len(Got') >= Size[cfile])
    <3>1. iopc' \in {"reading", "ended"}
      BY <2>1, <2>2, <2>9 DEF Sending, Receives, Got
    <3>2. UnitsFrom(c2s, Len(Got))' /\ csent' = Len(Got') + Len(c2s')
      BY <1>1, <2>1, <2>3, <2>4, <2>7 DEF UnitsFrom
    <3> QED BY <1>1, <2>1, <2>2, <2>3, <2>6, <2>7, <3>1, <3>2 DEF Stage, Sending
  <2> QED BY <2>8, <2>9
<1>7. CASE Post
  <2>1. /\ iopc = "post" /\ mq' = Append(mq, iomsg)
        /\ iopc' \in {"reading", "ended"}
        /\ UNCHANGED <<c2s, s2c, iomsg, rx, fileptr, line, heap>>
        /\ mq # <<"CLOSE">>
    BY <1>7, <1>b DEF Post, Rearm, netVars
  <2>2. mq # <<"RECEIVE", "CLOSE">> /\ mq # <<"COMPLETE", "CLOSE">>
    <3>1. \A x : mq = <<x, "CLOSE">> => 2 \in DOMAIN mq /\ mq[2] = "CLOSE"
      OBVIOUS
    <3> QED BY <2>1, <3>1 DEF CloseInv, CloseIsLast
  <2>3. /\ mq = <<>> => mq' = <<iomsg>>
        /\ mq = <<"RECEIVE">> /\ iomsg = "CLOSE" => mq' = <<"RECEIVE", "CLOSE">>
        /\ mq = <<"COMPLETE">> /\ iomsg = "CLOSE" => mq' = <<"COMPLETE", "CLOSE">>
    BY <2>1, QueueFacts
  <2>4. CASE Idle \/ Offered
    BY <1>1, <2>1, <2>3, <2>4 DEF Stage, Idle, Offered
  <2>5. CASE Announced
    BY <1>1, <2>1, <2>2, <2>3, <2>5 DEF Stage, Announced
  <2>6. CASE Ready
    BY <1>1, <2>1, <2>3, <2>6 DEF Stage, Ready, Receives, Got
  <2>7. CASE Sending
    BY <1>1, <2>1, <2>3, <2>7 DEF Stage, Sending, Receives, Got, UnitsFrom
  <2>8. CASE Complete
    BY <1>1, <1>a, <2>1, <2>2, <2>3, <2>8 DEF Stage, Complete, Receives, Got, UnitsFrom
  <2>9. CASE Answered
    BY <1>1, <1>a, <2>1, <2>3, <2>9 DEF Stage, Answered
  <2> QED BY <2>1, <2>4, <2>5, <2>6, <2>7, <2>8, <2>9 DEF Stage, Tested
<1> QED BY <1>2, <1>3, <1>4, <1>5, <1>6, <1>7 DEF IoThread

\* The message thread.
LEMMA MsgStages ==
  ASSUME TypeInv, QueuedWhole, Stage, [Next]_vars, MsgThread
  PROVE  Stage'
<1>0. /\ HeapOK /\ fileptr \in Objs \cup {NoObj}
      /\ \A f \in Files : Size[f] \in Nat
  BY SizeAssumption DEF TypeInv, TypeOK, ReceiverOK
<1>1. UNCHANGED <<cpc, cfile, csent, c2s, iopc, iomsg, rx>>
  <2>1. MsgOnly
    BY DEF MsgThread, Dispatch, Lookup, ReadLine, ReceiveInfo, NoMemory, ReceiveBeat,
       ReceiveWrong, ReceiveComplete, CompleteStatus, FailureStatus, Notify, Rewait, NetworkClose
  <2> QED BY <2>1 DEF MsgOnly, clientVars, ioVars
<1>a. Accounted => Accounted'
  BY <1>1, AccountedStays
<1> USE DEF QuietIo, NoWork, AtRest, Still
<1>2. CASE Dispatch
  <2>1. /\ mpc = "receive" /\ mq # <<>> /\ mq' = Tail(mq)
        /\ mpc' = CASE Head(mq) = "RECEIVE"  -> "lookup"
                    [] Head(mq) = "COMPLETE" -> "complete"
                    [] Head(mq) = "CLOSE"    -> "close"
        /\ UNCHANGED <<s2c, found, state, fileptr, line, heap>>
    BY <1>2 DEF Dispatch, rcvVars
  <2>2. /\ mq = <<"CLOSE">> => mpc' = "close" /\ mq' = <<>>
        /\ mq = <<"RECEIVE">> => mpc' = "lookup" /\ mq' = <<>>
        /\ mq = <<"COMPLETE">> => mpc' = "complete" /\ mq' = <<>>
        /\ mq = <<"RECEIVE", "CLOSE">> => mpc' = "lookup" /\ mq' = <<"CLOSE">>
        /\ mq = <<"COMPLETE", "CLOSE">> => mpc' = "complete" /\ mq' = <<"CLOSE">>
    <3>1. /\ Tail(<<"CLOSE">>) = <<>> /\ Head(<<"CLOSE">>) = "CLOSE"
          /\ Tail(<<"RECEIVE">>) = <<>> /\ Head(<<"RECEIVE">>) = "RECEIVE"
          /\ Tail(<<"COMPLETE">>) = <<>> /\ Head(<<"COMPLETE">>) = "COMPLETE"
          /\ Tail(<<"RECEIVE", "CLOSE">>) = <<"CLOSE">>
          /\ Head(<<"RECEIVE", "CLOSE">>) = "RECEIVE"
          /\ Tail(<<"COMPLETE", "CLOSE">>) = <<"CLOSE">>
          /\ Head(<<"COMPLETE", "CLOSE">>) = "COMPLETE"
      BY QueueFacts
    <3> QED BY <2>1, <3>1
  <2>3. CASE Idle \/ Offered
    BY <1>1, <2>1, <2>2, <2>3 DEF Stage, Idle, Offered
  <2>4. CASE Announced
    BY <1>1, <2>1, <2>2, <2>4 DEF Stage, Announced
  <2>5. CASE Ready
    BY <1>1, <2>1, <2>2, <2>5 DEF Stage, Ready, Receives, Got
  <2>6. CASE Sending
    BY <1>1, <2>1, <2>2, <2>6 DEF Stage, Sending, Receives, Got, UnitsFrom
  <2>7. CASE Complete
    BY <1>1, <2>1, <2>2, <2>7 DEF Stage, Complete, Receives, Got, UnitsFrom
  <2>8. CASE Answered
    BY <1>1, <1>a, <2>1, <2>2, <2>8 DEF Stage, Answered
  <2> QED BY <2>1, <2>3, <2>4, <2>5, <2>6, <2>7, <2>8 DEF Stage, Tested
<1>3. CASE Lookup
  <2>1. /\ mpc = "lookup" /\ found' = FirstLine(rx) /\ mpc' = "read"
        /\ UNCHANGED <<s2c, mq, state, fileptr, line, heap>>
    BY <1>3 DEF Lookup, rcvVars
  <2>2. Announced /\ rx = <<Info(cfile)>>
    BY <2>1 DEF Stage, Idle, Offered, Tested, Announced, Ready, Sending, Complete, Answered
  <2>3. found' = 1
    BY <2>1, <2>2, InfoLine DEF Announced
  <2> QED BY <1>1, <2>1, <2>2, <2>3 DEF Stage, Announced
<1>4. CASE ReadLine
  <2>1. /\ mpc = "read" /\ mpc' = "resolve"
        /\ line' = IF found = 0 THEN line
                   ELSE SubSeq(rx, 1, IF found < Len(rx) THEN found ELSE Len(rx))
        /\ UNCHANGED <<s2c, mq, state, fileptr, heap>>
    BY <1>4 DEF ReadLine
  <2>2. Announced /\ rx = <<Info(cfile)>> /\ found = 1
    BY <2>1 DEF Stage, Idle, Offered, Tested, Announced, Ready, Sending, Complete, Answered
  <2>3. Len(rx) = 1 /\ rx \in Seq(Tokens)
    BY <2>2, QueuesDiffer DEF TypeInv, TypeOK, IoOK
  <2>4. line' = SubSeq(rx, 1, Len(rx))
    BY <2>1, <2>2, <2>3
  <2>5. line' = <<Info(cfile)>>
    BY <2>2, <2>3, <2>4, SubSeqFull
  <2> QED BY <1>1, <2>1, <2>2, <2>5 DEF Stage, Announced
<1>5. ASSUME mpc = "resolve"
      PROVE  Announced /\ line = <<Info(cfile)>> /\ Still /\ cfile \in Files
  BY <1>5 DEF Stage, Idle, Offered, Tested, Announced, Ready, Sending, Complete, Answered
<1>6. ASSUME NEW f \in Files, ReceiveInfo(f) PROVE Stage'
  <2>1. /\ Announced /\ line = <<Info(cfile)>> /\ Still /\ cfile \in Files
        /\ mpc' = "notify" /\ state' = "READY" /\ UNCHANGED <<s2c, mq>>
    BY <1>5, <1>6 DEF ReceiveInfo
  <2>2. cfile = f
    BY <1>6, <2>1, InfoLine DEF ReceiveInfo, Announces
  <2>3. fileptr' \in Objs
    BY <1>6, ReceiveInfoObject
  <2>4. ~NeedsObject(f) => fileptr' = fileptr /\ heap[fileptr].size = Size[f]
    <3> DEFINE Places == {i \in DOMAIN pending : pending[i] = fileptr}
    <3>1. Cardinality(Places) \in Nat
      <4>1. DOMAIN pending = 1 .. Len(pending) /\ Len(pending) \in Nat
        BY DEF TypeInv, TypeOK, WriterOK
      <4>2. IsFiniteSet(DOMAIN pending)
        BY <4>1, FS_Interval
      <4> QED BY <4>2, FS_Subset, FS_CardinalityType
    <3>2. UseCount \in Nat
      BY <3>1 DEF UseCount
    <3> QED BY <1>6, <3>2 DEF ReceiveInfo, NeedsObject
  <2>5. /\ heap'[fileptr'].file = f /\ heap'[fileptr'].data = <<>>
        /\ heap'[fileptr'].size = Size[f]
    BY <1>0, <1>6, <2>3, <2>4 DEF ReceiveInfo, HeapOK
  <2> QED BY <1>1, <2>1, <2>2, <2>3, <2>5 DEF Stage, Announced, Ready, Receives, Got
<1>7. ASSUME NEW f \in Files, NoMemory(f) PROVE Stage'
  <2>1. UNCHANGED <<cpc, cfile, csent, c2s, s2c, rx, iopc, iomsg, mq, mpc, found, state,
                    fileptr, line, heap>>
    BY <1>1, <1>7 DEF NoMemory, rcvVars
  <2> QED BY <1>a, <2>1, Unmoved
<1>8. CASE ReceiveBeat \/ ReceiveWrong
  <2>1. Announces(cfile) /\ line # <<Heartbeat>> /\ cfile \in Files
    BY <1>5, <1>8, InfoLine DEF ReceiveBeat, ReceiveWrong, Announces
  <2> QED BY <1>8, <2>1 DEF ReceiveBeat, ReceiveWrong
<1>9. ASSUME mpc = "complete"
      PROVE  /\ Complete /\ state = "READY" /\ Still
             /\ heap[fileptr].size = Len(heap[fileptr].data)
  <2>1. Complete
    BY <1>9 DEF Stage, Idle, Offered, Tested, Announced, Ready, Sending, Answered
  <2> QED BY <1>9, <2>1 DEF Complete, Receives, Got
<1>10. CASE ReceiveComplete
  <2>1. Complete /\ state = "READY" /\ Still
    BY <1>9, <1>10 DEF ReceiveComplete
  <2>2. mpc' = "done" /\ UNCHANGED <<s2c, mq, state, fileptr, heap>>
    BY <1>10 DEF ReceiveComplete, rcvVars
  <2>3. Accounted'
    <3>1. heap[fileptr].file = cfile /\ fileptr \in Objs
      BY <2>1 DEF Complete, Receives
    <3>2. CASE refused' = refused \cup {heap[fileptr].file}
      BY <1>1, <3>1, <3>2 DEF Accounted
    <3>3. CASE pending' = Append(pending, fileptr)
      <4>1. Len(pending') \in DOMAIN pending' /\ pending'[Len(pending')] = fileptr
        <5>1. pending \in Seq(Objs) /\ Len(pending) \in Nat
          BY DEF TypeInv, TypeOK, WriterOK
        <5>2. /\ pending' \in Seq(Objs) /\ Len(pending') = Len(pending) + 1
              /\ pending'[Len(pending')] = fileptr
          BY <3>1, <3>3, <5>1, Appended
        <5> QED BY <5>1, <5>2, LenProperties
      <4> QED BY <1>1, <2>2, <3>1, <4>1 DEF Accounted, IsKept
    <3> QED BY <1>10, <3>2, <3>3 DEF ReceiveComplete, Writer!Accept
  <2> QED BY <1>1, <2>1, <2>2, <2>3 DEF Stage, Complete, Receives, Got, UnitsFrom
<1>11. CASE CompleteStatus
  <2>1. /\ mpc = "done" /\ state' = "COMPLETE" /\ mpc' = "notify"
        /\ UNCHANGED <<s2c, mq, fileptr, heap>>
    BY <1>11 DEF CompleteStatus
  <2>2. Complete /\ Still /\ Accounted
    BY <2>1 DEF Stage, Idle, Offered, Tested, Announced, Ready, Sending, Complete, Answered
  <2> QED BY <1>1, <1>a, <2>1, <2>2 DEF Stage, Complete, Receives, Got, UnitsFrom
<1>12. CASE FailureStatus
  BY <1>9, <1>12 DEF FailureStatus
<1>13. CASE Notify
  <2>1. /\ mpc = "notify" /\ UNCHANGED <<mq, found, state, fileptr, line, heap>>
        /\ \/ /\ s2c' = Append(s2c, state)
              /\ mpc' = IF state = "READY" THEN "receive" ELSE "rewait"
           \/ UNCHANGED <<s2c, mpc>>
    BY <1>13 DEF Notify, rcvVars
  <2>2. CASE UNCHANGED <<s2c, mpc>>
    BY <1>1, <1>a, <2>1, <2>2, Unmoved
  <2>3. CASE /\ s2c' = Append(s2c, state)
             /\ mpc' = IF state = "READY" THEN "receive" ELSE "rewait"
    <3>1. CASE Ready
      <4>1. state = "READY" /\ s2c = <<>>
        BY <2>1, <3>1 DEF Ready
      <4>2. s2c' = <<"READY">> /\ mpc' = "receive"
        BY <2>3, <4>1, QueueFacts
      <4> QED BY <1>1, <2>1, <3>1, <4>2 DEF Stage, Ready, Receives, Got
    <3>2. CASE Complete
      <4>1. state = "COMPLETE" /\ s2c = <<>> /\ Still /\ Accounted
        BY <2>1, <3>2 DEF Complete
      <4>2. s2c' = <<"COMPLETE">> /\ mpc' = "rewait"
        BY <2>3, <4>1, QueueFacts
      <4> QED BY <1>1, <1>a, <2>1, <3>2, <4>1, <4>2 DEF Stage, Complete, Answered
    <3> QED BY <2>1, <3>1, <3>2 DEF Stage, Idle, Offered, Tested, Announced, Sending, Answered
  <2> QED BY <2>1, <2>2, <2>3
<1>14. CASE Rewait
  <2>1. mpc = "rewait" /\ state' = "WAITING" /\ mpc' = "receive" /\ UNCHANGED <<s2c, mq>>
    BY <1>14 DEF Rewait
  <2>2. Idle \/ Offered \/ Tested \/ Answered
    BY <2>1 DEF Stage, Announced, Ready, Sending, Complete
  <2> QED BY <1>1, <1>a, <2>1, <2>2 DEF Stage, Idle, Offered, Tested, Answered
<1>15. CASE NetworkClose
  <2>1. mpc = "close" /\ mpc' = "receive" /\ UNCHANGED <<s2c, mq, state, fileptr, heap>>
    BY <1>15 DEF NetworkClose
  <2>2. Idle \/ Offered \/ Tested \/ Ready \/ Sending \/ Answered
    BY <2>1 DEF Stage, Announced, Complete
  <2>3. CASE Idle \/ Offered \/ Tested \/ Answered
    BY <1>1, <1>a, <2>1, <2>3 DEF Stage, Idle, Offered, Tested, Answered
  <2>4. CASE Ready \/ Sending
    BY <1>1, <2>1, <2>4 DEF Stage, Ready, Sending, Receives, Got, UnitsFrom
  <2> QED BY <2>2, <2>3, <2>4
<1> QED
  BY <1>2, <1>3, <1>4, <1>6, <1>7, <1>8, <1>10, <1>11, <1>12, <1>13, <1>14, <1>15 DEF MsgThread

\* What the writer has queued and written are whole files.
LEMMA StoreNext ==
  ASSUME TypeInv, QueuedWhole, Stage, StoreInv, [Next]_vars
  PROVE  StoreInv'
<1> DEFINE Entries == [file : Files \cup {NoFile}, data : Seq(Tokens)]
<1>0. pending \in Seq(Objs) /\ disk \in Seq(Entries)
  BY DEF TypeInv, TypeOK, WriterOK
<1>1. ASSUME NEW o \in Objs, o \in Owned, IsQueued(o) PROVE IsQueued(o)'
  BY <1>1, StageIntact DEF Intact, IsQueued
<1>2. \A i \in DOMAIN pending : \A o : o = pending[i] => o \in Objs /\ IsQueued(o) /\ IsQueued(o)'
  BY <1>1, PendingOwned DEF StoreInv
<1>3. ASSUME \A i \in DOMAIN pending' : \E o : pending'[i] = o /\ IsQueued(o)'
      PROVE  \A i \in DOMAIN pending' : IsQueued(pending[i])'
  BY <1>3 DEF IsQueued, Written
<1>4. CASE UNCHANGED <<pending, disk>>
  <2>1. \A i \in DOMAIN pending' : IsQueued(pending[i])'
    BY <1>2, <1>3, <1>4
  <2> QED BY <1>4, <2>1 DEF StoreInv
<1>5. CASE ReceiveComplete /\ pending' = Append(pending, fileptr) /\ UNCHANGED <<disk, heap>>
  <2>1. Complete
    BY <1>5 DEF ReceiveComplete, Stage, Idle, Offered, Tested, Announced, Ready, Sending,
       Answered, AtRest
  <2>2. fileptr \in Objs /\ IsQueued(fileptr)
    BY <2>1, WholeIsContent DEF Complete, Receives, TypeInv, TypeOK
  <2>3. \A o : o = fileptr => IsQueued(o)'
    BY <1>5, <2>2 DEF IsQueued, Written
  <2>4. \A i \in DOMAIN pending' : \/ pending'[i] = fileptr
                                   \/ i \in DOMAIN pending /\ pending'[i] = pending[i]
    BY <1>0, <1>5, <2>2, Appended
  <2>5. \A i \in DOMAIN pending' : IsQueued(pending[i])'
    BY <1>2, <1>3, <2>3, <2>4
  <2> QED BY <1>5, <2>5 DEF StoreInv
<1>6. CASE SaveFirst /\ WriterOnly
  <2>1. PICK o : o = Head(pending)
    OBVIOUS
  <2>2. PICK e : e = [file |-> heap[o].file, data |-> Written(o)]
    OBVIOUS
  <2>3. pending # <<>> /\ pending' = Tail(pending) /\ disk' = Append(disk, e)
    BY <1>6, <2>1, <2>2 DEF SaveFirst, Writer!Store, Written
  <2>4. o \in Objs /\ IsQueued(o)
    <3>1. 1 \in DOMAIN pending /\ pending[1] = o
      BY <1>0, <2>1, <2>3, Dequeued
    <3> QED BY <1>2, <3>1
  <2>5. e \in Entries /\ e.file \in Files /\ e.data = Content(e.file)
    BY <2>2, <2>4, WrittenType DEF IsQueued, TypeInv, TypeOK
  <2>6. \A i \in DOMAIN disk' : disk'[i] = e \/ (i \in DOMAIN disk /\ disk'[i] = disk[i])
    BY <1>0, <2>3, <2>5, Appended
  <2>7. \A i \in DOMAIN disk' : disk'[i].file \in Files /\ disk'[i].data = Content(disk'[i].file)
    BY <2>5, <2>6 DEF StoreInv
  <2>8. \A i \in DOMAIN pending' : i + 1 \in DOMAIN pending /\ pending'[i] = pending[i + 1]
    BY <1>0, <2>3, Dequeued
  <2>9. \A i \in DOMAIN pending' : IsQueued(pending[i])'
    BY <1>2, <1>3, <2>8
  <2> QED BY <2>7, <2>9 DEF StoreInv
<1> QED BY <1>4, <1>5, <1>6, QueueSteps

\* What the client was told is true.
LEMMA ToldNext ==
  ASSUME TypeInv, QueuedWhole, Stage, ToldInv, [Next]_vars
  PROVE  ToldInv'
<1>1. told' = told \/ (told' = told \cup {cfile} /\ Accounted)
  <2>1. CASE ClientReceive
    <3>1. CASE told' = told
      BY <3>1
    <3>2. CASE told' # told
      <4>1. cpc = "confirm" /\ told' = told \cup {cfile} /\ s2c # <<>>
        BY <2>1, <3>2 DEF ClientReceive
      <4>2. Answered
        BY <4>1 DEF Stage, Idle, Offered, Tested, Announced, Ready, Sending, Complete
      <4> QED BY <4>1, <4>2 DEF Answered
    <3> QED BY <3>1, <3>2
  <2>2. CASE Client /\ ~ClientReceive
    BY <2>2 DEF Client, Offer, SendUnit, SendSurplus, AllSent, Beat, Disconnect
  <2>3. CASE IoThread
    BY <2>3 DEF IoThread, ReadSome, ReadError, TestReady, TestWaiting, DataArrive, Post, IoOnly,
       clientVars
  <2>4. CASE MsgThread
    <3>1. MsgOnly
      BY <2>4 DEF MsgThread, Dispatch, Lookup, ReadLine, ReceiveInfo, NoMemory, ReceiveBeat,
         ReceiveWrong, ReceiveComplete, CompleteStatus, FailureStatus, Notify, Rewait, NetworkClose
    <3> QED BY <3>1 DEF MsgOnly, clientVars
  <2>5. CASE SaveFirst \/ Release \/ WriterPhase
    BY <2>5 DEF SaveFirst, Release, WriterPhase, WriterOnly, clientVars
  <2>6. CASE UNCHANGED vars
    BY <2>6 DEF vars, clientVars
  <2> QED BY <2>1, <2>2, <2>3, <2>4, <2>5, <2>6 DEF Next
<1>2. \A f \in told' : f \in refused \/ IsKept(f)
  BY <1>1 DEF ToldInv, Accounted
<1>3. \A f : IsKept(f) => IsKept(f)'
  BY KeptStays
<1> QED BY <1>2, <1>3, RefusedGrows DEF ToldInv

\* filedata has room for all that arrives.
LEMMA NoOverrunNext ==
  ASSUME TypeInv, Stage, ~overrun, [Next]_vars
  PROVE  ~overrun'
<1>1. CASE DataArrive
  BY <1>1, ArrivedHeap, StageFits
<1>2. CASE Client
  <2>1. ClientOnly
    BY <1>2 DEF Client, Offer, SendUnit, SendSurplus, AllSent, ClientReceive, Beat, Disconnect
  <2> QED BY <2>1 DEF ClientOnly
<1>3. CASE IoThread /\ ~DataArrive
  BY <1>3 DEF IoThread, ReadSome, ReadError, TestReady, TestWaiting, Post
<1>4. CASE MsgThread
  BY <1>4 DEF MsgThread, Dispatch, Lookup, ReadLine, ReceiveInfo, NoMemory, ReceiveBeat,
     ReceiveWrong, ReceiveComplete, CompleteStatus, FailureStatus, Notify, Rewait, NetworkClose,
     MsgOnly
<1>5. CASE SaveFirst \/ Release \/ WriterPhase
  BY <1>5 DEF SaveFirst, Release, WriterPhase, WriterOnly
<1>6. CASE UNCHANGED vars
  BY <1>6 DEF vars
<1> QED BY <1>1, <1>2, <1>3, <1>4, <1>5, <1>6 DEF Next

\* The client does not change.
LEMMA SameClient == ASSUME [Next]_vars PROVE client' = client
<1>1. CASE Client
  <2>1. ClientOnly
    BY <1>1 DEF Client, Offer, SendUnit, SendSurplus, AllSent, ClientReceive, Beat, Disconnect
  <2> QED BY <2>1 DEF ClientOnly
<1>2. CASE IoThread
  <2>1. IoOnly
    BY <1>2 DEF IoThread, ReadSome, ReadError, TestReady, TestWaiting, DataArrive, Post
  <2> QED BY <2>1 DEF IoOnly, clientVars
<1>3. CASE MsgThread
  <2>1. MsgOnly
    BY <1>3 DEF MsgThread, Dispatch, Lookup, ReadLine, ReceiveInfo, NoMemory, ReceiveBeat,
       ReceiveWrong, ReceiveComplete, CompleteStatus, FailureStatus, Notify, Rewait, NetworkClose
  <2> QED BY <2>1 DEF MsgOnly, clientVars
<1>4. CASE SaveFirst \/ Release \/ WriterPhase
  BY <1>4 DEF SaveFirst, Release, WriterPhase, WriterOnly, clientVars
<1>5. CASE UNCHANGED vars
  BY <1>5 DEF vars, clientVars
<1> QED BY <1>1, <1>2, <1>3, <1>4, <1>5 DEF Next

-----------------------------------------------------------------------------
(* The theorems. *)

\* The client gets the statuses of the protocol in the protocol's order: READY
\* for the file it announced, COMPLETE or FAILURE once it has sent it all.
StatusExpected ==
  (Orderly /\ s2c # <<>> /\ cpc # "gone") =>
    /\ Len(s2c) = 1
    /\ Head(s2c) = "READY" => cpc = "await"
    /\ Head(s2c) # "READY" =>
         cpc \in {"send", "confirm"} /\ csent >= Size[cfile]

NothingWrong == Orderly => ~overrun /\ state # "FAILURE"
AllInv == TypeInv /\ CloseInv /\ QueuedWhole /\ TransferInv

\* The invariant holds at the beginning and every step keeps it.
LEMMA AllInvHolds == Spec => []AllInv
<1>1. Init => AllInv
  <2> SUFFICES ASSUME Init PROVE AllInv
    OBVIOUS
  <2>1. TypeInv /\ CloseInv
    BY InitTypes DEF Init, CloseInv, CloseIsLast, CloseTaken, ClosedForGood
  <2>2. QueuedWhole
    BY ObjsAssumption DEF Init, QueuedWhole, Owned, Writer!StoreInit
  <2>3. Stage
    BY DEF Init, Stage, Idle, Still, QuietIo, NoWork, AtRest
  <2>4. StoreInv /\ ToldInv /\ ~overrun
    BY DEF Init, StoreInv, ToldInv, Writer!StoreInit
  <2> QED BY <2>1, <2>2, <2>3, <2>4 DEF AllInv, TransferInv
<1>2. AllInv /\ [Next]_vars => AllInv'
  <2> SUFFICES ASSUME AllInv, [Next]_vars PROVE AllInv'
    OBVIOUS
  <2>1. TypeInv /\ CloseInv /\ QueuedWhole
    BY DEF AllInv
  <2>2. TypeInv' /\ CloseInv' /\ QueuedWhole'
    BY <2>1, NextTypes, CloseNext, QueuedNext
  <2>3. ASSUME Orderly' PROVE (Stage /\ StoreInv /\ ToldInv /\ ~overrun)'
    <3>1. Orderly /\ Stage /\ StoreInv /\ ToldInv /\ ~overrun
      BY <2>3, SameClient DEF Orderly, AllInv, TransferInv
    <3>2. Stage'
      BY <2>1, <3>1, ClientStages, IoStages, MsgStages, WriterStages DEF Next
    <3> QED BY <2>1, <3>1, <3>2, StoreNext, ToldNext, NoOverrunNext
  <2> QED BY <2>2, <2>3 DEF AllInv, TransferInv
<1> QED BY <1>1, <1>2, PTL DEF Spec

\* Every file an orderly client sends that reaches the disk reaches it whole and in
\* order, however the client, the two threads and the writer interleave and
\* whenever the client leaves.
THEOREM SavedFilesAreWhole == Spec => []SavedIsSent
<1>1. AllInv => SavedIsSent
  BY DEF AllInv, TransferInv, StoreInv, SavedIsSent
<1> QED BY <1>1, AllInvHolds, PTL

\* COMPLETE is said of a file that is queued whole or on disk, or that NewFile has
\* refused.
THEOREM ToldFilesAreKept == Spec => []ToldIsKept
<1>1. AllInv => ToldIsKept
  BY DEF AllInv, TransferInv, StoreInv, ToldInv, ToldIsKept, IsKept, IsQueued
<1> QED BY <1>1, AllInvHolds, PTL

\* The statuses come in the order of the protocol, and COMPLETE never before the
\* client has sent the last unit.
THEOREM StatusesInOrder == Spec => []StatusExpected
<1>1. AllInv => StatusExpected
  <2> SUFFICES ASSUME AllInv, Orderly, s2c # <<>>, cpc # "gone"
               PROVE  /\ Len(s2c) = 1
                      /\ Head(s2c) = "READY" => cpc = "await"
                      /\ Head(s2c) # "READY" =>
                           cpc \in {"send", "confirm"} /\ csent >= Size[cfile]
    BY DEF StatusExpected
  <2>1. /\ cfile \in Files
        /\ \/ s2c = <<"READY">> /\ cpc = "await"
           \/ s2c = <<"COMPLETE">> /\ cpc \in {"send", "confirm"} /\ csent = Size[cfile]
    BY DEF AllInv, TransferInv, Stage, Idle, Offered, Tested, Announced, Ready, Sending, Complete,
       Answered
  <2>2. Size[cfile] \in Nat
    BY <2>1, SizeAssumption
  <2> QED BY <2>1, <2>2, QueuesDiffer, QueueFacts
<1> QED BY <1>1, AllInvHolds, PTL

\* An orderly client never makes DataArrive write beyond filedata, and is never
\* told FAILURE.
THEOREM OrderlyIsServed == Spec => []NothingWrong
<1>1. AllInv => NothingWrong
  BY DEF NothingWrong, AllInv, TransferInv, Stage, Idle, Offered, Tested, Announced, Ready,
     Sending, Complete, Answered, Still, AtRest
<1> QED BY <1>1, AllInvHolds, PTL


-----------------------------------------------------------------------------
(* The refinement.  To an orderly client the server is a FileTransfer.     *)

\* The client's file has been taken, and the answer is on its way or was given.
Settled ==
  \/ Complete /\ mpc \in {"done", "notify"}
  \/ Answered

\* A file is offered before it is taken, and taken once.
OfferedOnce ==
  /\ cfile \notin todo
  /\ \A f \in todo : ~IsTaken(f)
  /\ cfile \in Files /\ IsTaken(cfile) => Settled

OnceInv == Orderly => OfferedOnce

\* An entry behind the second sequence is behind both.
LEMMA AppendBehind ==
  ASSUME NEW S, NEW s \in Seq(S), NEW t \in Seq(S), NEW e \in S
  PROVE  s \o Append(t, e) = Append(s \o t, e)
<1>1. <<e>> \in Seq(S)
  OBVIOUS
<1>2. Append(t, e) = t \o <<e>>
  BY AppendIsConcat
<1>3. s \o t \in Seq(S)
  BY ConcatProperties
<1>4. Append(s \o t, e) = (s \o t) \o <<e>>
  BY <1>3, AppendIsConcat
<1> QED
  BY <1>1, <1>2, <1>4, ConcatAssociative

\* The head of the second sequence may as well be the end of the first.
LEMMA HeadMoves ==
  ASSUME NEW S, NEW s \in Seq(S), NEW t \in Seq(S), t # <<>>
  PROVE  Append(s, Head(t)) \o Tail(t) = s \o t
<1>1. PICK h \in S : h = Head(t)
  BY HeadTailProperties
<1>2. PICK r \in Seq(S) : r = Tail(t)
  BY HeadTailProperties
<1>3. <<h>> \in Seq(S) /\ Len(<<h>>) = 1 /\ <<h>>[1] = h
  OBVIOUS
<1>4. <<h>> \o r = t
  <2>1. Len(r) = Len(t) - 1 /\ \A i \in 1 .. Len(r) : r[i] = t[i + 1]
    BY <1>2, HeadTailProperties
  <2>2. /\ <<h>> \o r \in Seq(S) /\ Len(<<h>> \o r) = 1 + Len(r)
        /\ \A i \in 1 .. 1 + Len(r) : (<<h>> \o r)[i] = IF i <= 1 THEN <<h>>[i] ELSE r[i - 1]
    BY <1>3, ConcatProperties
  <2>3. Len(t) \in Nat /\ Len(r) \in Nat /\ h = t[1]
    BY <1>1
  <2>4. \A i \in 1 .. Len(t) : (<<h>> \o r)[i] = t[i]
    <3> TAKE i \in 1 .. Len(t)
    <3>1. CASE i = 1
      BY <3>1, <2>1, <2>2, <2>3, <1>3
    <3>2. CASE i # 1
      <4>1. i - 1 \in 1 .. Len(r) /\ i \in 1 .. 1 + Len(r) /\ ~(i <= 1) /\ (i - 1) + 1 = i
        BY <3>2, <2>1, <2>3
      <4> QED
        BY <4>1, <2>1, <2>2
    <3> QED
      BY <3>1, <3>2
  <2>5. Len(<<h>> \o r) = Len(t)
    BY <2>1, <2>2, <2>3
  <2> QED
    BY <2>2, <2>4, <2>5, SeqEqual
<1>5. Append(s, h) = s \o <<h>>
  BY AppendIsConcat
<1> QED
  BY <1>1, <1>2, <1>3, <1>4, <1>5, ConcatAssociative

\* Only the client's own steps move the client.
LEMMA OthersLeaveClient ==
  ASSUME [Next]_vars, ~Client
  PROVE  UNCHANGED <<cpc, cfile, csent, todo, told>>
<1>1. CASE IoThread
  <2>1. IoOnly
    BY <1>1 DEF IoThread, ReadSome, ReadError, TestReady, TestWaiting, DataArrive, Post
  <2> QED BY <2>1 DEF IoOnly, clientVars
<1>2. CASE MsgThread
  <2>1. MsgOnly
    BY <1>2 DEF MsgThread, Dispatch, Lookup, ReadLine, ReceiveInfo, NoMemory, ReceiveBeat,
       ReceiveWrong, ReceiveComplete, CompleteStatus, FailureStatus, Notify, Rewait, NetworkClose
  <2> QED BY <2>1 DEF MsgOnly, clientVars
<1>3. CASE SaveFirst \/ Release \/ WriterPhase
  BY <1>3 DEF SaveFirst, Release, WriterPhase, WriterOnly, clientVars
<1>4. CASE UNCHANGED vars
  BY <1>4 DEF vars, clientVars
<1> QED BY <1>1, <1>2, <1>3, <1>4 DEF Next

\* refused changes only when NewFile refuses a file.
LEMMA RefusedSteps ==
  ASSUME [Next]_vars
  PROVE  \/ refused' = refused
         \/ ReceiveComplete /\ refused' = refused \cup {heap[fileptr].file} /\ UNCHANGED pending
<1>1. CASE Client
  <2>1. ClientOnly
    BY <1>1 DEF Client, Offer, SendUnit, SendSurplus, AllSent, ClientReceive, Beat, Disconnect
  <2> QED BY <2>1 DEF ClientOnly
<1>2. CASE IoThread
  BY <1>2 DEF IoThread, ReadSome, ReadError, TestReady, TestWaiting, DataArrive, Post, IoOnly
<1>3. CASE MsgThread
  <2>1. CASE ReceiveComplete
    BY <2>1 DEF ReceiveComplete, storeVars
  <2>2. CASE ~ReceiveComplete
    BY <1>3, <2>2 DEF MsgThread, Dispatch, Lookup, ReadLine, ReceiveInfo, NoMemory, ReceiveBeat,
       ReceiveWrong, CompleteStatus, FailureStatus, Notify, Rewait, NetworkClose
  <2> QED BY <2>1, <2>2
<1>4. CASE SaveFirst \/ Release \/ WriterPhase
  BY <1>4 DEF SaveFirst, Release, WriterPhase, WriterOnly
<1>5. CASE UNCHANGED vars
  BY <1>5 DEF vars
<1> QED BY <1>1, <1>2, <1>3, <1>4, <1>5 DEF Next

\* The file that is completed is the client's.
LEMMA CompletedIsOffered ==
  ASSUME TypeInv, Stage, ReceiveComplete
  PROVE  /\ Complete /\ state = "READY" /\ mpc = "complete" /\ cfile \in Files
         /\ fileptr \in Objs /\ heap[fileptr].file = cfile /\ Written(fileptr) = Content(cfile)
<1>1. mpc = "complete"
  BY DEF ReceiveComplete
<1>2. Complete /\ state = "READY"
  BY <1>1 DEF Stage, Idle, Offered, Tested, Announced, Ready, Sending, Complete, Answered, AtRest
<1>3. fileptr \in Objs /\ heap[fileptr].file = cfile /\ cfile \in Files
  BY <1>2 DEF Complete, Receives
<1>4. IsQueued(fileptr)
  BY <1>2, WholeIsContent DEF Complete, TypeInv, TypeOK
<1> QED BY <1>1, <1>2, <1>3, <1>4 DEF IsQueued

\* What was taken stays so.
LEMMA TakenStays ==
  ASSUME TypeInv, QueuedWhole, [Next]_vars, NEW f, IsTaken(f)
  PROVE  IsTaken(f)'
BY KeptStays, RefusedGrows DEF IsTaken

\* A file is taken by ReceiveComplete, when the client is at it.
LEMMA TakenGrows ==
  ASSUME TypeInv, QueuedWhole, Stage, [Next]_vars, NEW f, IsTaken(f)'
  PROVE  IsTaken(f) \/ (ReceiveComplete /\ f = cfile)
<1>1. ReceiveComplete => heap[fileptr].file = cfile /\ fileptr \in Objs
  BY CompletedIsOffered
<1>2. CASE f \in refused'
  BY <1>1, <1>2, RefusedSteps DEF IsTaken
<1>3. CASE IsKept(f)'
  <2>0. pending \in Seq(Objs) /\ disk \in Seq([file : Files \cup {NoFile}, data : Seq(Tokens)])
    BY DEF TypeInv, TypeOK, WriterOK
  <2>1. CASE UNCHANGED <<pending, disk>>
    <3>1. \A i \in DOMAIN pending : heap'[pending[i]].file = heap[pending[i]].file
      BY PendingOwned, QueuedNext DEF NamesStay
    <3> QED BY <1>3, <2>1, <3>1 DEF IsKept, IsTaken
  <2>2. CASE ReceiveComplete /\ pending' = Append(pending, fileptr) /\ UNCHANGED <<disk, heap>>
    <3>1. \A i \in DOMAIN pending' : \/ pending'[i] = fileptr
                                     \/ i \in DOMAIN pending /\ pending'[i] = pending[i]
      BY <1>1, <2>0, <2>2, Appended
    <3> QED BY <1>1, <1>3, <2>2, <3>1 DEF IsKept, IsTaken
  <2>3. CASE SaveFirst /\ WriterOnly
    <3>1. PICK e : e = [file |-> heap[Head(pending)].file, data |-> Written(Head(pending))]
      OBVIOUS
    <3>2. pending # <<>> /\ pending' = Tail(pending) /\ disk' = Append(disk, e) /\ heap' = heap
      BY <2>3, <3>1 DEF SaveFirst, Writer!Store, WriterOnly
    <3>3. /\ 1 \in DOMAIN pending /\ Head(pending) = pending[1] /\ pending[1] \in Objs
          /\ \A i \in DOMAIN pending' : i + 1 \in DOMAIN pending /\ pending'[i] = pending[i + 1]
      BY <2>0, <3>2, Dequeued
    <3>4. e \in [file : Files \cup {NoFile}, data : Seq(Tokens)] /\ e.file = heap[pending[1]].file
      BY <3>1, <3>3, WrittenType DEF TypeInv, TypeOK, HeapOK
    <3>5. \A i \in DOMAIN disk' : disk'[i] = e \/ (i \in DOMAIN disk /\ disk'[i] = disk[i])
      BY <2>0, <3>2, <3>4, Appended
    <3> QED BY <1>3, <3>2, <3>3, <3>4, <3>5 DEF IsKept, IsTaken
  <2> QED BY <2>1, <2>2, <2>3, QueueSteps
<1> QED BY <1>2, <1>3 DEF IsTaken

\* A function applied to the entries of a sequence.
LEMMA MapSeq ==
  ASSUME NEW S, NEW T, NEW F \in [S -> T], NEW s \in Seq(S), NEW m,
         m = [i \in DOMAIN s |-> F[s[i]]]
  PROVE  m \in Seq(T) /\ Len(m) = Len(s) /\ \A i \in 1 .. Len(s) : m[i] = F[s[i]]
<1>1. Len(s) \in Nat /\ DOMAIN s = 1 .. Len(s) /\ \A i \in 1 .. Len(s) : s[i] \in S
  BY LenProperties, ElementOfSeq
<1>2. m \in [1 .. Len(s) -> T]
  BY <1>1
<1> QED
  BY <1>1, <1>2

\* Of a sequence that is one longer.
LEMMA MapAppend ==
  ASSUME NEW S, NEW T, NEW F \in [S -> T], NEW s \in Seq(S), NEW x \in S,
         NEW r, r = Append(s, x),
         NEW m, m = [i \in DOMAIN s |-> F[s[i]]],
         NEW n, n = [i \in DOMAIN r |-> F[r[i]]]
  PROVE  n = Append(m, F[x])
<1>1. /\ r \in Seq(S) /\ Len(r) = Len(s) + 1 /\ Len(s) \in Nat
      /\ r[Len(s) + 1] = x /\ \A i \in 1 .. Len(s) : r[i] = s[i]
  BY AppendProperties, LenProperties
<1>2. /\ m \in Seq(T) /\ Len(m) = Len(s)
      /\ \A i \in 1 .. Len(s) : m[i] = F[s[i]]
  <2>1. DOMAIN s = 1 .. Len(s) /\ \A i \in 1 .. Len(s) : s[i] \in S
    BY LenProperties, ElementOfSeq
  <2>2. m \in [1 .. Len(s) -> T] /\ \A i \in 1 .. Len(s) : m[i] = F[s[i]]
    BY <2>1
  <2> QED BY <1>1, <2>2
<1>3. /\ n \in Seq(T) /\ Len(n) = Len(s) + 1
      /\ \A i \in 1 .. Len(s) + 1 : n[i] = F[r[i]]
  BY <1>1, MapSeq
<1>4. PICK y \in T : y = F[x]
  OBVIOUS
<1>5. PICK a : a = Append(m, y)
  OBVIOUS
<1>6. /\ a \in Seq(T) /\ Len(a) = Len(s) + 1
      /\ a[Len(s) + 1] = y /\ \A i \in 1 .. Len(s) : a[i] = m[i]
  BY <1>2, <1>5, AppendProperties
<1>7. ASSUME NEW i \in 1 .. Len(n) PROVE n[i] = a[i]
  <2>1. (i \in 1 .. Len(s) \/ i = Len(s) + 1) /\ i \in 1 .. Len(s) + 1
    BY <1>1, <1>3
  <2>2. CASE i \in 1 .. Len(s)
    <3>1. n[i] = F[r[i]]
      BY <1>3, <2>1
    <3>2. r[i] = s[i] /\ m[i] = F[s[i]] /\ a[i] = m[i]
      BY <1>1, <1>2, <1>6, <2>2
    <3> QED BY <3>1, <3>2
  <2>3. CASE i = Len(s) + 1
    BY <1>1, <1>3, <1>4, <1>6, <2>1, <2>3
  <2> QED BY <2>1, <2>2, <2>3
<1>8. n = a
  BY <1>3, <1>6, <1>7, SeqEqual
<1> QED
  BY <1>4, <1>5, <1>8

\* Of one that is one shorter.
LEMMA MapTail ==
  ASSUME NEW S, NEW T, NEW F \in [S -> T], NEW s \in Seq(S), s # <<>>,
         NEW r, r = Tail(s),
         NEW m, m = [i \in DOMAIN s |-> F[s[i]]],
         NEW n, n = [i \in DOMAIN r |-> F[r[i]]]
  PROVE  m # <<>> /\ Head(m) = F[Head(s)] /\ n = Tail(m)
<1>1. /\ r \in Seq(S) /\ Len(r) = Len(s) - 1 /\ Len(s) \in Nat /\ Len(s) >= 1
      /\ Head(s) = s[1] /\ \A i \in 1 .. Len(r) : r[i] = s[i + 1]
  BY HeadTailProperties, LenProperties, EmptySeq
<1>2. /\ m \in Seq(T) /\ Len(m) = Len(s)
      /\ \A i \in 1 .. Len(s) : m[i] = F[s[i]]
  BY MapSeq
<1>3. /\ n \in Seq(T) /\ Len(n) = Len(r)
      /\ \A i \in 1 .. Len(r) : n[i] = F[r[i]]
  BY <1>1, MapSeq
<1>4. m # <<>>
  BY <1>1, <1>2, EmptySeq
<1>5. Head(m) = F[Head(s)]
  <2>1. Head(m) = m[1] /\ 1 \in 1 .. Len(s)
    BY <1>1, <1>2, <1>4, HeadTailProperties
  <2> QED BY <1>1, <1>2, <2>1
<1>6. PICK t : t = Tail(m)
  OBVIOUS
<1>7. /\ t \in Seq(T) /\ Len(t) = Len(s) - 1 /\ \A i \in 1 .. Len(t) : t[i] = m[i + 1]
  BY <1>2, <1>4, <1>6, HeadTailProperties
<1>8. ASSUME NEW i \in 1 .. Len(n) PROVE n[i] = t[i]
  <2>1. i \in 1 .. Len(r) /\ i \in 1 .. Len(t) /\ i + 1 \in 1 .. Len(s)
    BY <1>1, <1>3, <1>7
  <2> QED BY <1>1, <1>2, <1>3, <1>7, <2>1
<1>9. n = t
  BY <1>1, <1>3, <1>7, <1>8, SeqEqual
<1> QED
  BY <1>4, <1>5, <1>6, <1>9

\* What the writer took, in order, changes only when it takes a file, and then by the
\* whole of the client's file: the move from the queue to the disk cannot be told.
LEMMA SavedSteps ==
  ASSUME TypeInv, QueuedWhole, Stage, [Next]_vars
  PROVE  \/ ~ReceiveComplete /\ UNCHANGED <<Saved, refused>>
         \/ ReceiveComplete /\ Saved' = Saved /\ refused' = refused \cup {cfile}
         \/ /\ ReceiveComplete /\ refused' = refused
            /\ Saved' = Append(Saved, [file |-> cfile, data |-> Content(cfile)])
<1> DEFINE Entries == [file : Files \cup {NoFile}, data : Seq(Tokens)]
<1>0. /\ pending \in Seq(Objs) /\ disk \in Seq(Entries) /\ HeapOK
      /\ pending' \in Seq(Objs) /\ HeapOK'
  BY NextTypes DEF TypeInv, TypeOK, WriterOK
<1>1. PICK H : H = [o \in Objs |-> Entry(o)]
  OBVIOUS
<1>2. PICK G : G = [o \in Objs |-> Entry(o)']
  OBVIOUS
<1>3. H \in [Objs -> Entries]
  <2>1. ASSUME NEW o \in Objs PROVE Entry(o) \in Entries
    BY <1>0, WrittenType DEF Entry, HeapOK
  <2> QED BY <1>1, <2>1
<1> HIDE DEF Entries
<1>4. PICK Q : Q = Queued
  OBVIOUS
<1>5. PICK R : R = Queued'
  OBVIOUS
<1>6. Q = [i \in DOMAIN pending |-> H[pending[i]]]
  <2>1. \A i \in DOMAIN pending : pending[i] \in Objs
    BY <1>0
  <2> QED BY <1>1, <1>4, <2>1 DEF Queued
<1>7. R = [i \in DOMAIN pending' |-> G[pending'[i]]]
  <2>1. \A i \in DOMAIN pending' : pending'[i] \in Objs
    BY <1>0
  <2> QED BY <1>2, <1>5, <2>1 DEF Queued, Entry, Written
<1>8. heap' = heap => G = H
  BY <1>1, <1>2 DEF Entry, Written
<1>9. \A o \in Objs : o \in Owned => G[o] = H[o]
  <2>1. ASSUME NEW o \in Objs, o \in Owned PROVE Entry(o)' = Entry(o)
    BY <2>1, StageIntact DEF Intact, Entry
  <2> QED BY <1>1, <1>2, <2>1
<1>10. Q \in Seq(Entries)
  <2>1. DOMAIN pending = 1 .. Len(pending) /\ Len(pending) \in Nat
        /\ \A i \in 1 .. Len(pending) : pending[i] \in Objs
    BY <1>0, LenProperties, ElementOfSeq
  <2>2. Q \in [1 .. Len(pending) -> Entries]
    BY <1>3, <1>6, <2>1
  <2> QED BY <2>1, <2>2
<1>11. Saved = disk \o Q /\ Saved' = disk' \o R
  BY <1>4, <1>5 DEF Saved
<1>12. CASE UNCHANGED <<pending, disk>>
  <2>1. \A i \in DOMAIN pending : G[pending[i]] = H[pending[i]]
    BY <1>9, PendingOwned
  <2>2. R = Q
    BY <1>6, <1>7, <1>12, <2>1
  <2>3. Saved' = Saved
    BY <1>11, <1>12, <2>2
  <2>4. CASE ReceiveComplete
    <3>1. fileptr \in Objs /\ heap[fileptr].file = cfile
      BY <2>4, CompletedIsOffered
    <3>2. Append(pending, fileptr) # pending
      <4>1. Len(Append(pending, fileptr)) = Len(pending) + 1 /\ Len(pending) \in Nat
        BY <1>0, <3>1, AppendProperties, LenProperties
      <4>2. Len(Append(pending, fileptr)) # Len(pending)
        BY <4>1
      <4> QED BY <4>2
    <3>3. refused' = refused \cup {cfile}
      BY <1>12, <2>4, <3>1, <3>2 DEF ReceiveComplete, Writer!Accept
    <3> QED BY <2>3, <2>4, <3>3
  <2> QED BY <2>3, <2>4, RefusedSteps
<1>13. CASE ReceiveComplete /\ pending' = Append(pending, fileptr) /\ UNCHANGED <<disk, heap>>
  <2>1. /\ fileptr \in Objs /\ heap[fileptr].file = cfile
        /\ Written(fileptr) = Content(cfile)
    BY <1>13, CompletedIsOffered
  <2>2. H[fileptr] = [file |-> cfile, data |-> Content(cfile)] /\ G = H
    BY <1>1, <1>8, <1>13, <2>1 DEF Entry
  <2>3. R = Append(Q, H[fileptr])
    BY <1>0, <1>3, <1>6, <1>7, <1>13, <2>1, <2>2, MapAppend
  <2>4. PICK e \in Entries : e = H[fileptr]
    BY <1>3, <2>1
  <2>5. disk \o Append(Q, e) = Append(disk \o Q, e)
    BY <1>0, <1>10, <2>4, AppendBehind
  <2>6. Saved' = Append(Saved, [file |-> cfile, data |-> Content(cfile)])
    BY <1>11, <1>13, <2>2, <2>3, <2>4, <2>5
  <2>7. pending' # pending
    <3>1. Len(pending') = Len(pending) + 1 /\ Len(pending) \in Nat
      BY <1>0, <1>13, <2>1, AppendProperties, LenProperties
    <3>2. Len(pending') # Len(pending)
      BY <3>1
    <3> QED BY <3>2
  <2> QED BY <1>13, <2>6, <2>7, RefusedSteps
<1>14. CASE SaveFirst /\ WriterOnly
  <2>1. /\ pending # <<>> /\ pending' = Tail(pending) /\ heap' = heap /\ refused' = refused
        /\ disk' = Append(disk, Entry(Head(pending)))
    BY <1>14 DEF SaveFirst, Writer!Store, WriterOnly, Entry
  <2>2. Head(pending) \in Objs
    BY <1>0, <2>1, HeadTailProperties
  <2>3. Entry(Head(pending)) = H[Head(pending)] /\ G = H
    BY <1>1, <1>8, <2>1, <2>2
  <2>4. Q # <<>> /\ Head(Q) = H[Head(pending)] /\ R = Tail(Q)
    BY <1>0, <1>3, <1>6, <1>7, <2>1, <2>3, MapTail
  <2>5. disk' \o R = disk \o Q
    BY <1>0, <1>10, <2>1, <2>3, <2>4, HeadMoves
  <2>6. ~ReceiveComplete
    BY <1>14 DEF WriterOnly, msgVars, ReceiveComplete
  <2> QED BY <1>11, <2>1, <2>5, <2>6
<1> QED BY <1>12, <1>13, <1>14, QueueSteps

\* A step that leaves the file and its status alone leaves it settled.
LEMMA SettledKept ==
  ASSUME Settled, Accounted', Still',
         UNCHANGED <<cfile, csent, c2s, s2c, state, fileptr, heap, mpc>>,
         cpc' = cpc \/ cpc' = "gone" \/ (cpc = "send" /\ cpc' = "confirm")
  PROVE  Settled'
<1>1. CASE Complete /\ mpc \in {"done", "notify"}
  BY <1>1 DEF Settled, Complete, Receives, Got, UnitsFrom
<1>2. CASE Answered
  <2>1. AtRest'
    BY <1>2 DEF Answered, AtRest
  <2> QED BY <1>2, <2>1 DEF Settled, Answered
<1> QED BY <1>1, <1>2 DEF Settled

\* A settled file stays settled until the client goes on to the next.
LEMMA SettledNext ==
  ASSUME TypeInv, CloseInv, QueuedWhole, Orderly, Settled, [Next]_vars, cfile' = cfile
  PROVE  Settled'
<1>1. /\ cfile \in Files /\ csent = Size[cfile] /\ c2s = <<>> /\ Still
      /\ cpc \in {"send", "confirm", "gone"}
      /\ mpc \in {"done", "notify", "receive", "close", "rewait"}
      /\ mpc = "done" => Complete /\ state = "READY" /\ s2c = <<>>
      /\ mpc = "notify" => Complete /\ state = "COMPLETE" /\ s2c = <<>>
      /\ mpc \notin {"done", "notify"} => Answered
  BY DEF Settled, Complete, Answered, AtRest
<1>2. Accounted'
  <2>1. Accounted
    BY DEF Settled, Complete, Answered
  <2> QED BY <2>1, AccountedStays
<1>3. Size[cfile] \in Nat
  BY <1>1, SizeAssumption
<1>4. CASE Client
  <2>1. UNCHANGED <<rx, iopc, iomsg, mq, mpc, state, fileptr, heap>>
    <3>1. ClientOnly
      BY <1>4 DEF Client, Offer, SendUnit, SendSurplus, AllSent, ClientReceive, Beat, Disconnect
    <3> QED BY <3>1 DEF ClientOnly, ioVars, msgVars, rcvVars
  <2>2. Still'
    BY <1>1, <2>1 DEF Still, QuietIo, NoWork
  <2>3. CASE AllSent \/ Disconnect
    <3>1. /\ UNCHANGED <<csent, c2s, s2c>>
          /\ cpc' = "gone" \/ (cpc = "send" /\ cpc' = "confirm")
      BY <2>3 DEF AllSent, Disconnect, netVars
    <3> QED BY <1>2, <2>1, <2>2, <3>1, SettledKept
  <2>4. CASE ClientReceive
    <3>1. s2c # <<>> /\ s2c' = Tail(s2c) /\ UNCHANGED <<csent, c2s>>
      BY <2>4 DEF ClientReceive
    <3>2. Answered /\ s2c = <<"COMPLETE">>
      BY <1>1, <3>1 DEF Answered
    <3>3. s2c' = <<>> /\ Head(s2c) = "COMPLETE"
      BY <3>1, <3>2, QueueFacts
    <3>4. cpc' = "gone"
      BY <1>1, <2>4, <3>3, BoundsAssumption DEF ClientReceive
    <3>5. AtRest'
      BY <2>1, <3>2 DEF Answered, AtRest
    <3> QED BY <1>1, <1>2, <2>1, <2>2, <3>1, <3>2, <3>3, <3>4, <3>5 DEF Settled, Answered
  <2>5. ~SendUnit
    BY <1>1, <1>3 DEF SendUnit
  <2>6. ~SendSurplus
    <3>1. SendSurplus => csent \in Size[cfile] .. Size[cfile] + 0 - 1
      BY <1>1 DEF SendSurplus, Orderly
    <3> QED BY <1>1, <1>3, <3>1
  <2>7. ~Beat /\ \A f \in Files : ~Offer(f)
    BY <1>1 DEF Beat, Offer
  <2> QED BY <1>4, <2>3, <2>4, <2>5, <2>6, <2>7 DEF Client
<1>5. CASE IoThread
  <2>1. UNCHANGED <<cpc, csent, mpc, state>>
    <3>1. IoOnly
      BY <1>5 DEF IoThread, ReadSome, ReadError, TestReady, TestWaiting, DataArrive, Post
    <3> QED BY <3>1 DEF IoOnly, clientVars, msgVars
  <2>2. iopc \in {"reading", "ended"} \/ (iopc = "post" /\ iomsg = "CLOSE")
    BY <1>1 DEF Still, QuietIo
  <2>3. CASE ReadError
    <3>1. UNCHANGED <<c2s, s2c, fileptr, heap, mq>> /\ iopc' = "post" /\ iomsg' = "CLOSE"
      BY <2>3 DEF ReadError, netVars
    <3>2. Still'
      BY <1>1, <3>1 DEF Still, QuietIo, NoWork
    <3> QED BY <1>2, <2>1, <3>1, <3>2, SettledKept
  <2>4. CASE Post
    <3>1. /\ iopc = "post" /\ iomsg = "CLOSE" /\ mq' = Append(mq, iomsg) /\ iopc' = "ended"
          /\ UNCHANGED <<c2s, s2c, fileptr, heap>>
      BY <2>2, <2>4 DEF Post, netVars
    <3>2. mq # <<"CLOSE">>
      <4>1. mq = <<"CLOSE">> => 1 \in DOMAIN mq /\ mq[1] = "CLOSE"
        OBVIOUS
      <4> QED BY <3>1, <4>1 DEF CloseInv, CloseIsLast
    <3>3. mq' = <<"CLOSE">>
      BY <1>1, <3>1, <3>2, QueueFacts DEF Still, NoWork
    <3>4. Still'
      BY <3>1, <3>3 DEF Still, QuietIo, NoWork
    <3> QED BY <1>2, <2>1, <3>1, <3>4, SettledKept
  <2>5. ~ReadSome
    <3>1. Len(c2s) = 0
      BY <1>1, EmptySeq
    <3>2. ReadSome => \E n \in 1 .. PackUnits : n <= Len(c2s)
      BY DEF ReadSome
    <3> QED BY <3>1, <3>2, BoundsAssumption
  <2>6. ~TestReady /\ ~TestWaiting /\ ~DataArrive
    BY <2>2 DEF TestReady, TestWaiting, DataArrive
  <2> QED BY <1>5, <2>3, <2>4, <2>5, <2>6 DEF IoThread
<1>6. CASE MsgThread
  <2>1. UNCHANGED <<cpc, csent, c2s, iopc, iomsg>>
    <3>1. MsgOnly
      BY <1>6 DEF MsgThread, Dispatch, Lookup, ReadLine, ReceiveInfo, NoMemory, ReceiveBeat,
         ReceiveWrong, ReceiveComplete, CompleteStatus, FailureStatus, Notify, Rewait, NetworkClose
    <3> QED BY <3>1 DEF MsgOnly, clientVars, ioVars
  <2>2. CASE Dispatch
    <3>1. /\ mpc = "receive" /\ mq # <<>> /\ mq' = Tail(mq)
          /\ mpc' = CASE Head(mq) = "RECEIVE"  -> "lookup"
                      [] Head(mq) = "COMPLETE" -> "complete"
                      [] Head(mq) = "CLOSE"    -> "close"
          /\ UNCHANGED <<s2c, state>>
      BY <2>2 DEF Dispatch, rcvVars
    <3>2. mq = <<"CLOSE">> /\ Answered
      BY <1>1, <3>1 DEF Still, NoWork
    <3>3. mpc' = "close" /\ mq' = <<>>
      BY <3>1, <3>2, QueueFacts
    <3>4. Still' /\ AtRest'
      BY <1>1, <2>1, <3>1, <3>2, <3>3 DEF Still, QuietIo, NoWork, AtRest, Answered
    <3> QED BY <1>1, <1>2, <2>1, <3>1, <3>2, <3>4 DEF Settled, Answered
  <2>3. CASE CompleteStatus
    <3>1. /\ mpc = "done" /\ state' = "COMPLETE" /\ mpc' = "notify"
          /\ UNCHANGED <<s2c, mq, fileptr, heap>>
      BY <2>3 DEF CompleteStatus
    <3>2. Complete /\ Still'
      BY <1>1, <2>1, <3>1 DEF Still, QuietIo, NoWork
    <3> QED
      BY <1>2, <2>1, <3>1, <3>2 DEF Settled, Complete, Receives, Got, UnitsFrom
  <2>4. CASE Notify
    <3>1. /\ mpc = "notify" /\ UNCHANGED <<mq, state, fileptr, heap>>
          /\ \/ /\ s2c' = Append(s2c, state)
                /\ mpc' = IF state = "READY" THEN "receive" ELSE "rewait"
             \/ UNCHANGED <<s2c, mpc>>
      BY <2>4 DEF Notify, rcvVars
    <3>2. state = "COMPLETE" /\ s2c = <<>> /\ Still'
      BY <1>1, <2>1, <3>1 DEF Still, QuietIo, NoWork
    <3>3. CASE UNCHANGED <<s2c, mpc>>
      BY <1>2, <2>1, <3>1, <3>2, <3>3, SettledKept
    <3>4. CASE /\ s2c' = Append(s2c, state)
               /\ mpc' = IF state = "READY" THEN "receive" ELSE "rewait"
      <4>1. s2c' = <<"COMPLETE">> /\ mpc' = "rewait"
        BY <3>2, <3>4, QueueFacts
      <4>2. AtRest'
        BY <3>1, <3>2, <4>1 DEF AtRest
      <4> QED BY <1>1, <1>2, <2>1, <3>2, <4>1, <4>2 DEF Settled, Answered
    <3> QED BY <3>1, <3>3, <3>4
  <2>5. CASE Rewait \/ NetworkClose
    <3>1. /\ mpc \in {"rewait", "close"} /\ mpc' = "receive" /\ UNCHANGED <<s2c, mq>>
          /\ state' = "WAITING" \/ (mpc = "close" /\ state' = state)
      BY <2>5 DEF Rewait, NetworkClose
    <3>2. Answered /\ Still' /\ AtRest'
      BY <1>1, <2>1, <3>1 DEF Still, QuietIo, NoWork, AtRest, Answered
    <3> QED BY <1>1, <1>2, <2>1, <3>1, <3>2 DEF Settled, Answered
  <2>6. mpc \in {"lookup", "read", "resolve", "complete"} => FALSE
    BY <1>1
  <2>7. ~(Lookup \/ ReadLine \/ ReceiveBeat \/ ReceiveWrong \/ ReceiveComplete \/ FailureStatus)
        /\ \A f \in Files : ~ReceiveInfo(f) /\ ~NoMemory(f)
    BY <2>6 DEF Lookup, ReadLine, ReceiveInfo, NoMemory, ReceiveBeat, ReceiveWrong,
       ReceiveComplete, FailureStatus
  <2> QED BY <1>6, <2>2, <2>3, <2>4, <2>5, <2>7 DEF MsgThread
<1>7. CASE SaveFirst \/ Release \/ WriterPhase \/ UNCHANGED vars
  <2>1. UNCHANGED <<cpc, csent, c2s, s2c, iopc, iomsg, mq, mpc, state, fileptr, heap>>
    BY <1>7 DEF SaveFirst, Release, WriterPhase, WriterOnly, vars, clientVars, netVars, ioVars,
       msgVars, rcvVars
  <2>2. Still'
    BY <1>1, <2>1 DEF Still, QuietIo, NoWork
  <2> QED BY <1>2, <2>1, <2>2, SettledKept
<1> QED BY <1>4, <1>5, <1>6, <1>7 DEF Next

\* Whether the client's file is taken changes only when it is completed.
LEMMA TakenSame ==
  ASSUME TypeInv, QueuedWhole, Stage, [Next]_vars, cfile' = cfile
  PROVE  /\ IsTaken(cfile) => IsTaken(cfile)'
         /\ IsTaken(cfile)' => IsTaken(cfile) \/ ReceiveComplete
<1>1. PICK f : f = cfile
  OBVIOUS
<1>2. IsTaken(f)' <=> IsTaken(cfile)'
  BY <1>1 DEF IsTaken, IsKept
<1>3. IsTaken(f) => IsTaken(f)'
  BY TakenStays
<1>4. IsTaken(f)' => IsTaken(f) \/ ReceiveComplete
  BY TakenGrows
<1> QED BY <1>1, <1>2, <1>3, <1>4

\* Every step keeps it so that a file is offered before it is taken, and once.
LEMMA OnceNext ==
  ASSUME TypeInv, CloseInv, QueuedWhole, Orderly, Stage, OfferedOnce, [Next]_vars
  PROVE  OfferedOnce'
<1>0. cfile \in Files \cup {NoFile} /\ todo \subseteq Files /\ NoFile \notin Files
  BY BoundsAssumption DEF TypeInv, TypeOK, ClientOK
<1>1. \/ UNCHANGED <<cfile, todo>>
      \/ /\ cfile' \in todo /\ todo' = todo \ {cfile'} /\ ~ReceiveComplete
      \/ cfile' = NoFile /\ todo' = todo
  <2>1. CASE Client
    BY <2>1 DEF Client, Offer, SendUnit, SendSurplus, AllSent, ClientReceive, Beat, Disconnect,
       ReceiveComplete, ClientOnly, msgVars
  <2>2. CASE ~Client
    BY <2>2, OthersLeaveClient
  <2> QED BY <2>1, <2>2
<1>2. ASSUME NEW f \in todo' PROVE ~IsTaken(f)'
  <2>1. f \in todo /\ f # cfile
    BY <1>1, <1>2 DEF OfferedOnce
  <2>2. ~IsTaken(f)
    BY <2>1 DEF OfferedOnce
  <2> QED BY <2>1, <2>2, TakenGrows
<1>3. cfile' \notin todo'
  BY <1>0, <1>1 DEF OfferedOnce
<1>4. ASSUME cfile' \in Files, IsTaken(cfile)' PROVE Settled'
  <2>1. CASE UNCHANGED <<cfile, todo>>
    <3>1. CASE ReceiveComplete
      <4>1. Complete /\ mpc = "complete" /\ fileptr \in Objs
        BY <3>1, CompletedIsOffered
      <4>2. UNCHANGED <<cpc, csent, c2s, s2c, iopc, iomsg, mq, state, fileptr, heap>>
            /\ mpc' = "done"
        BY <3>1 DEF ReceiveComplete, MsgOnly, clientVars, ioVars, rcvVars
      <4>3. Accounted'
        BY <1>4 DEF IsTaken, Accounted
      <4>4. state = "READY" /\ Still'
        BY <3>1, <4>1, <4>2, CompletedIsOffered DEF Complete, Still, QuietIo, NoWork
      <4> QED
        BY <2>1, <4>1, <4>2, <4>3, <4>4 DEF Settled, Complete, Receives, Got, UnitsFrom
    <3>2. CASE ~ReceiveComplete
      <4>1. IsTaken(cfile)
        BY <1>4, <2>1, <3>2, TakenSame
      <4>2. Settled
        BY <1>4, <2>1, <4>1 DEF OfferedOnce
      <4> QED BY <2>1, <4>2, SettledNext
    <3> QED BY <3>1, <3>2
  <2>2. CASE cfile' \in todo /\ ~ReceiveComplete
    <3>1. PICK f : f = cfile'
      OBVIOUS
    <3>2. IsTaken(f)'
      BY <1>4, <3>1 DEF IsTaken, IsKept
    <3>3. IsTaken(f)
      BY <2>2, <3>2, TakenGrows
    <3> QED BY <2>2, <3>1, <3>3 DEF OfferedOnce
  <2> QED BY <1>0, <1>1, <1>4, <2>1, <2>2
<1> QED BY <1>2, <1>3, <1>4 DEF OfferedOnce

\* A step that takes no file, tells the client nothing and moves neither the client nor
\* the receiver from one status to another is none of FileTransfer.
LEMMA Stutters ==
  ASSUME TypeInv, QueuedWhole, Stage, [Next]_vars, ~ReceiveComplete,
         UNCHANGED <<cfile, todo, told, s2c>>, cpc' = "gone" <=> cpc = "gone",
         IsTaken(cfile) => (mpc' \in {"done", "notify"} <=> mpc \in {"done", "notify"}),
         ~IsTaken(cfile) => ((state' = "READY" /\ mpc' # "notify")
                               <=> (state = "READY" /\ mpc # "notify"))
  PROVE  UNCHANGED Transfer!transferVars
<1>1. UNCHANGED <<Saved, refused>>
  BY SavedSteps
<1>2. IsTaken(cfile)' <=> IsTaken(cfile)
  BY TakenSame
<1>3. Progress' = Progress
  <2>1. CASE IsTaken(cfile)
    BY <1>2, <2>1 DEF Progress
  <2>2. CASE ~IsTaken(cfile)
    BY <1>2, <2>2 DEF Progress
  <2> QED BY <2>1, <2>2
<1>4. (cpc # "gone")' = (cpc # "gone")
  OBVIOUS
<1> QED
  BY <1>1, <1>3, <1>4 DEF Transfer!transferVars, Transfer!clientVars, Transfer!keptVars

\* The client's steps.
LEMMA ClientTransfers ==
  ASSUME TypeInv, QueuedWhole, Orderly, Stage, OfferedOnce, OfferedOnce', [Next]_vars, Client
  PROVE  Transfer!TransferNext \/ UNCHANGED Transfer!transferVars
<1> USE DEF Transfer!clientVars, Transfer!keptVars
<1>0. /\ cfile \in Files \cup {NoFile} /\ NoFile \notin Files /\ ~ReceiveComplete
      /\ UNCHANGED <<mpc, state>>
  BY BoundsAssumption DEF TypeInv, TypeOK, ClientOK, Client, Offer, SendUnit, SendSurplus, AllSent,
     ClientReceive, Beat, Disconnect, ReceiveComplete, ClientOnly, msgVars, rcvVars
<1>1. UNCHANGED <<Saved, refused>>
  BY <1>0, SavedSteps
<1>2. cfile' = cfile => (IsTaken(cfile)' <=> IsTaken(cfile))
  BY <1>0, TakenSame
<1>3. ASSUME NEW f \in Files, Offer(f) PROVE Transfer!TransferNext
  <2>1. /\ cpc = "idle" /\ f \in todo /\ cpc' = "await" /\ cfile' = f /\ todo' = todo \ {f}
        /\ UNCHANGED <<told, s2c>>
    BY <1>3 DEF Offer
  <2>2. cfile = NoFile /\ s2c = <<>> /\ state # "READY"
    BY <2>1 DEF Stage, Idle, Offered, Tested, Announced, Ready, Sending, Complete, Answered, AtRest
  <2>3. Progress = "idle"
    BY <2>2 DEF Progress
  <2>4. ~IsTaken(cfile)'
    <3>1. ~IsTaken(f)
      BY <2>1 DEF OfferedOnce
    <3>2. ~IsTaken(f)'
      BY <1>0, <3>1, TakenGrows
    <3>3. IsTaken(cfile)' <=> IsTaken(f)'
      BY <2>1 DEF IsTaken, IsKept
    <3> QED BY <3>2, <3>3
  <2>5. Progress' = "offered"
    <3>1. cfile' # NoFile /\ s2c' # <<"READY">> /\ state' # "READY"
      BY <1>0, <1>3, <2>1, <2>2, QueuesDiffer
    <3> QED BY <2>4, <3>1 DEF Progress
  <2>6. (cpc # "gone") = TRUE /\ (cpc # "gone")' = (cpc # "gone")
    BY <2>1
  <2>7. Transfer!Offer(f)
    BY <1>1, <2>1, <2>3, <2>5, <2>6 DEF Transfer!Offer
  <2> QED BY <1>3, <2>7 DEF Transfer!TransferNext
<1>4. CASE SendUnit \/ AllSent
  <2>1. UNCHANGED <<cfile, todo, told, s2c>> /\ cpc = "send" /\ cpc' \in {"send", "confirm"}
    BY <1>4 DEF SendUnit, AllSent, netVars
  <2> QED BY <1>0, <2>1, Stutters
<1>5. CASE SendSurplus
  <2>1. cpc = "send" /\ csent \in Size[cfile] .. Size[cfile] + 0 - 1 /\ cfile \in Files
    BY <1>5 DEF SendSurplus, Orderly, TypeInv, PointersInv, SendsFile
  <2>2. Size[cfile] \in Nat
    BY <2>1, SizeAssumption
  <2> QED BY <2>1, <2>2
<1>6. CASE ClientReceive
  <2>1. cpc # "gone" /\ s2c # <<>> /\ s2c' = Tail(s2c) /\ todo' = todo
    BY <1>6 DEF ClientReceive
  <2>2. (Ready /\ s2c = <<"READY">>) \/ (Answered /\ s2c = <<"COMPLETE">>)
    BY <2>1 DEF Stage, Idle, Offered, Tested, Announced, Ready, Sending, Complete, Answered
  <2>3. (cpc # "gone") = TRUE
    BY <2>1
  <2>4. <<"READY">> # <<"COMPLETE">> /\ <<>> # <<"READY">>
    OBVIOUS
  <2>5. CASE Ready /\ s2c = <<"READY">>
    <3>1. /\ cpc' = "send" /\ UNCHANGED <<cfile, told>> /\ s2c' = <<>>
          /\ cfile \in Files /\ state = "READY" /\ mpc \in {"receive", "close"}
      BY <1>6, <2>1, <2>5, QueueFacts, QueuesDiffer DEF ClientReceive, Ready
    <3>2. ~IsTaken(cfile)
      <4>1. ~Settled
        BY <2>4, <2>5 DEF Settled, Complete, Answered
      <4> QED BY <3>1, <4>1 DEF OfferedOnce
    <3>3. cfile # NoFile
      BY <1>0, <3>1
    <3>4. Progress = "granted"
      BY <2>5, <3>2, <3>3 DEF Progress
    <3>5. Progress' = "sending"
      <4>1. ~IsTaken(cfile)' /\ cfile' # NoFile /\ s2c' # <<"READY">>
        BY <1>2, <2>4, <3>1, <3>2, <3>3
      <4>2. state' = "READY" /\ mpc' # "notify"
        BY <1>0, <3>1
      <4> QED BY <4>1, <4>2 DEF Progress
    <3>6. (cpc # "gone")' = (cpc # "gone")
      BY <2>3, <3>1
    <3>7. Transfer!Begin
      BY <1>1, <2>1, <2>3, <3>1, <3>4, <3>5, <3>6 DEF Transfer!Begin
    <3> QED BY <3>7 DEF Transfer!TransferNext
  <2>6. CASE Answered /\ s2c = <<"COMPLETE">>
    <3>1. s2c' = <<>> /\ Head(s2c) = "COMPLETE" /\ cpc \in {"send", "confirm"}
      BY <2>1, <2>4, <2>6, QueueFacts, QueuesDiffer DEF Answered
    <3>2. /\ cfile \in Files /\ cfile # NoFile /\ IsTaken(cfile) /\ mpc \notin {"done", "notify"}
      BY <1>0, <2>6 DEF Answered, Accounted, IsTaken, AtRest
    <3>3. Progress = "answered"
      BY <3>2 DEF Progress
    <3>4. CASE cpc = "confirm"
      <4>1. cpc' = "idle" /\ cfile' = NoFile /\ told' = told \cup {cfile}
        BY <1>6, <3>1, <3>4 DEF ClientReceive
      <4>2. Progress' = "idle"
        BY <4>1 DEF Progress
      <4>3. (cpc # "gone")' = (cpc # "gone")
        BY <2>3, <4>1
      <4>4. Transfer!Finish
        BY <1>1, <2>1, <2>3, <2>6, <3>1, <3>3, <4>1, <4>2, <4>3 DEF Transfer!Finish
      <4> QED BY <4>4 DEF Transfer!TransferNext
    <3>5. CASE cpc = "send"
      <4>1. cpc' = "gone" /\ UNCHANGED <<cfile, told>>
        BY <1>6, <3>1, <3>5 DEF ClientReceive
      <4>2. IsTaken(cfile)' /\ cfile' # NoFile /\ mpc' \notin {"done", "notify"}
        BY <1>0, <1>2, <3>2, <4>1
      <4>3. Progress' = "answered"
        BY <4>2 DEF Progress
      <4>4. (cpc # "gone")' = FALSE
        BY <4>1
      <4>5. Transfer!HangUp
        BY <1>1, <2>1, <2>3, <2>6, <3>1, <3>3, <4>1, <4>3, <4>4 DEF Transfer!HangUp
      <4> QED BY <4>5 DEF Transfer!TransferNext
    <3> QED BY <3>1, <3>4, <3>5
  <2> QED BY <2>2, <2>5, <2>6
<1>7. CASE Beat
  BY <1>7 DEF Beat, Orderly, TypeInv, TypeOK, ClientOK
<1>8. CASE Disconnect
  <2>1. cpc' = "gone" /\ UNCHANGED <<cfile, todo, told, s2c>>
    BY <1>8 DEF Disconnect
  <2>2. CASE cpc = "gone"
    BY <1>0, <2>1, <2>2, Stutters
  <2>3. CASE cpc # "gone"
    <3>1. IsTaken(cfile)' <=> IsTaken(cfile)
      BY <1>2, <2>1
    <3>2. Progress' = Progress
      BY <1>0, <2>1, <3>1 DEF Progress
    <3>3. (cpc # "gone") = TRUE /\ (cpc # "gone")' = FALSE
      BY <2>1, <2>3
    <3>4. Transfer!Leave
      BY <1>1, <2>1, <3>2, <3>3 DEF Transfer!Leave
    <3> QED BY <3>4 DEF Transfer!TransferNext
  <2> QED BY <2>2, <2>3
<1> QED BY <1>3, <1>4, <1>5, <1>6, <1>7, <1>8 DEF Client

\* The message thread's steps.
LEMMA MsgTransfers ==
  ASSUME TypeInv, QueuedWhole, Stage, Stage', OfferedOnce, [Next]_vars, MsgThread
  PROVE  Transfer!TransferNext \/ UNCHANGED Transfer!transferVars
<1> USE DEF Transfer!clientVars, Transfer!keptVars
<1>0. NoFile \notin Files /\ UNCHANGED <<cpc, cfile, todo, told>>
  <2>1. MsgOnly
    BY DEF MsgThread, Dispatch, Lookup, ReadLine, ReceiveInfo, NoMemory, ReceiveBeat, ReceiveWrong,
       ReceiveComplete, CompleteStatus, FailureStatus, Notify, Rewait, NetworkClose
  <2> QED BY <2>1, BoundsAssumption DEF MsgOnly, clientVars
<1>1. (cpc # "gone")' = (cpc # "gone")
  BY <1>0
<1>2. ~ReceiveComplete => UNCHANGED <<Saved, refused>> /\ (IsTaken(cfile)' <=> IsTaken(cfile))
  BY <1>0, SavedSteps, TakenSame
<1>3. CASE Dispatch \/ Lookup \/ ReadLine \/ NetworkClose
  <2>1. /\ UNCHANGED <<s2c, state>> /\ mpc \in {"receive", "lookup", "read", "close"}
        /\ mpc' \in {"lookup", "complete", "close", "read", "resolve", "receive"}
    <3>1. CASE Dispatch
      <4>1. mq \in Seq({"RECEIVE", "COMPLETE", "CLOSE"}) /\ mq # <<>>
        BY <3>1 DEF Dispatch, TypeInv, TypeOK, ReceiverOK
      <4>2. Head(mq) \in {"RECEIVE", "COMPLETE", "CLOSE"}
        BY <4>1, HeadTailProperties
      <4> QED BY <3>1, <4>2 DEF Dispatch, rcvVars
    <3>2. CASE Lookup \/ ReadLine \/ NetworkClose
      BY <3>2 DEF Lookup, ReadLine, NetworkClose, rcvVars
    <3> QED BY <1>3, <3>1, <3>2
  <2>2. ~ReceiveComplete
    BY <2>1 DEF ReceiveComplete
  <2> QED BY <1>0, <2>1, <2>2, Stutters
<1>4. ASSUME NEW f \in Files, ReceiveInfo(f) PROVE UNCHANGED Transfer!transferVars
  <2>1. /\ mpc = "resolve" /\ mpc' = "notify" /\ s2c' = s2c
    BY <1>4 DEF ReceiveInfo
  <2>2. Announced /\ state = "WAITING" /\ cfile \in Files
    BY <2>1 DEF Stage, Idle, Offered, Tested, Announced, Ready, Sending, Complete, Answered, AtRest
  <2>3. ~IsTaken(cfile)
    <3>1. ~Settled
      BY <2>1 DEF Settled, Answered, AtRest
    <3> QED BY <2>2, <3>1 DEF OfferedOnce
  <2>4. ~ReceiveComplete
    BY <2>1 DEF ReceiveComplete
  <2> QED BY <1>0, <2>1, <2>2, <2>3, <2>4, Stutters
<1>5. ASSUME NEW f \in Files, NoMemory(f) PROVE UNCHANGED Transfer!transferVars
  <2>1. UNCHANGED <<s2c, mpc, state>> /\ mpc = "resolve"
    BY <1>5 DEF NoMemory, rcvVars
  <2>2. ~ReceiveComplete
    BY <2>1 DEF ReceiveComplete
  <2> QED BY <1>0, <2>1, <2>2, Stutters
<1>6. CASE ReceiveBeat \/ ReceiveWrong
  <2>1. mpc = "resolve"
    BY <1>6 DEF ReceiveBeat, ReceiveWrong
  <2>2. line = <<Info(cfile)>> /\ cfile \in Files
    BY <2>1 DEF Stage, Idle, Offered, Tested, Announced, Ready, Sending, Complete, Answered, AtRest
  <2> QED BY <1>6, <2>2, InfoLine DEF ReceiveBeat, ReceiveWrong, Announces
<1>7. CASE ReceiveComplete
  <2>1. Complete /\ state = "READY" /\ mpc = "complete" /\ cfile \in Files
    BY <1>7, CompletedIsOffered
  <2>2. s2c = <<>> /\ s2c' = s2c /\ mpc' = "done"
    BY <1>7, <2>1 DEF ReceiveComplete, Complete
  <2>3. ~IsTaken(cfile)
    <3>1. ~Settled
      BY <2>1 DEF Settled, Answered, AtRest
    <3> QED BY <2>1, <3>1 DEF OfferedOnce
  <2>4. Progress = "sending"
    <3>1. cfile # NoFile /\ s2c # <<"READY">>
      BY <1>0, <2>1, <2>2, QueuesDiffer
    <3> QED BY <2>1, <2>3, <3>1 DEF Progress
  <2>5. IsTaken(cfile)'
    <3>1. Accounted'
      BY <2>2 DEF Stage, Idle, Offered, Tested, Announced, Ready, Sending, Complete, Answered, AtRest
    <3> QED BY <3>1 DEF Accounted, IsTaken
  <2>6. Progress' = "taken"
    <3>1. cfile' # NoFile
      BY <1>0, <2>1
    <3> QED BY <2>2, <2>5, <3>1 DEF Progress
  <2>7. [f \in Files |-> Content(f)][cfile] = Content(cfile)
    BY <2>1
  <2>8. CASE Saved' = Saved /\ refused' = refused \cup {cfile}
    <3>1. Transfer!Take
      BY <1>0, <1>1, <2>2, <2>4, <2>6, <2>8 DEF Transfer!Take
    <3> QED BY <3>1 DEF Transfer!TransferNext
  <2>9. CASE /\ refused' = refused
             /\ Saved' = Append(Saved, [file |-> cfile, data |-> Content(cfile)])
    <3>1. Transfer!Take
      BY <1>0, <1>1, <2>2, <2>4, <2>6, <2>7, <2>9 DEF Transfer!Take
    <3> QED BY <3>1 DEF Transfer!TransferNext
  <2> QED BY <1>7, <2>8, <2>9, SavedSteps
<1>8. CASE CompleteStatus
  <2>1. mpc = "done" /\ mpc' = "notify" /\ s2c' = s2c
    BY <1>8 DEF CompleteStatus
  <2>2. IsTaken(cfile)
    BY <2>1 DEF Stage, Idle, Offered, Tested, Announced, Ready, Sending, Complete, Answered, AtRest,
       Accounted, IsTaken
  <2>3. ~ReceiveComplete
    BY <2>1 DEF ReceiveComplete
  <2> QED BY <1>0, <2>1, <2>2, <2>3, Stutters
<1>9. CASE FailureStatus
  <2>1. mpc = "complete" /\ heap[fileptr].size # Len(heap[fileptr].data)
    BY <1>9 DEF FailureStatus
  <2> QED BY <2>1 DEF Stage, Idle, Offered, Tested, Announced, Ready, Sending, Complete, Answered,
     AtRest, Receives, Got
<1>10. CASE Notify
  <2>1. /\ mpc = "notify" /\ state' = state
        /\ \/ /\ s2c' = Append(s2c, state)
              /\ mpc' = IF state = "READY" THEN "receive" ELSE "rewait"
           \/ UNCHANGED <<s2c, mpc>>
    BY <1>10 DEF Notify, rcvVars
  <2>2. ~ReceiveComplete
    BY <2>1 DEF ReceiveComplete
  <2>3. CASE UNCHANGED <<s2c, mpc>>
    BY <1>0, <2>1, <2>2, <2>3, Stutters
  <2>4. CASE /\ s2c' = Append(s2c, state)
             /\ mpc' = IF state = "READY" THEN "receive" ELSE "rewait"
    <3>1. /\ cfile \in Files /\ s2c = <<>>
          /\ \/ Ready /\ state = "READY"
             \/ Complete /\ state = "COMPLETE" /\ Accounted
      BY <2>1 DEF Stage, Idle, Offered, Tested, Announced, Ready, Sending, Complete, Answered, AtRest
    <3>2. cfile # NoFile /\ cfile' # NoFile /\ s2c # <<"READY">>
      BY <1>0, <3>1, QueuesDiffer
    <3>3. CASE state = "READY"
      <4>1. ~IsTaken(cfile)
        <5>1. ~Settled
          BY <2>1, <3>3 DEF Settled, Complete, Answered, AtRest
        <5> QED BY <3>1, <5>1 DEF OfferedOnce
      <4>2. s2c' = <<"READY">> /\ ~IsTaken(cfile)'
        BY <1>2, <2>2, <2>4, <3>1, <3>3, <4>1, QueueFacts
      <4>3. Progress = "offered"
        BY <2>1, <3>2, <4>1 DEF Progress
      <4>4. Progress' = "granted"
        BY <3>2, <4>2 DEF Progress
      <4>5. Transfer!Grant
        BY <1>0, <1>1, <1>2, <2>2, <4>2, <4>3, <4>4 DEF Transfer!Grant
      <4> QED BY <4>5 DEF Transfer!TransferNext
    <3>4. CASE state = "COMPLETE" /\ Accounted
      <4>1. IsTaken(cfile)
        BY <3>4 DEF Accounted, IsTaken
      <4>2. s2c' = <<"COMPLETE">> /\ mpc' = "rewait" /\ IsTaken(cfile)'
        BY <1>2, <2>2, <2>4, <3>1, <3>4, <4>1, QueueFacts
      <4>3. Progress = "taken"
        BY <2>1, <3>2, <4>1 DEF Progress
      <4>4. Progress' = "answered"
        BY <3>2, <4>2 DEF Progress
      <4>5. Transfer!Answer
        BY <1>0, <1>1, <1>2, <2>2, <4>2, <4>3, <4>4 DEF Transfer!Answer
      <4> QED BY <4>5 DEF Transfer!TransferNext
    <3> QED BY <3>1, <3>3, <3>4
  <2> QED BY <2>1, <2>3, <2>4
<1>11. CASE Rewait
  <2>1. mpc = "rewait" /\ mpc' = "receive" /\ s2c' = s2c /\ state' = "WAITING"
    BY <1>11 DEF Rewait
  <2>2. state # "READY"
    BY <2>1 DEF Stage, Idle, Offered, Tested, Announced, Ready, Sending, Complete, Answered, AtRest
  <2>3. ~ReceiveComplete
    BY <2>1 DEF ReceiveComplete
  <2> QED BY <1>0, <2>1, <2>2, <2>3, Stutters
<1> QED
  BY <1>3, <1>4, <1>5, <1>6, <1>7, <1>8, <1>9, <1>10, <1>11 DEF MsgThread

\* Every step of the file server is one of FileTransfer, or none.
LEMMA StepTransfers ==
  ASSUME TypeInv, QueuedWhole, Orderly, Stage, Stage', OfferedOnce, OfferedOnce', [Next]_vars
  PROVE  Transfer!TransferNext \/ UNCHANGED Transfer!transferVars
<1>1. CASE Client
  BY <1>1, ClientTransfers
<1>2. CASE MsgThread
  BY <1>2, MsgTransfers
<1>3. CASE IoThread \/ SaveFirst \/ Release \/ WriterPhase \/ UNCHANGED vars
  <2>1. UNCHANGED <<cpc, cfile, todo, told, s2c, mpc, state>>
    <3>1. CASE IoThread
      <4>1. IoOnly
        BY <3>1 DEF IoThread, ReadSome, ReadError, TestReady, TestWaiting, DataArrive, Post
      <4>2. UNCHANGED s2c
        BY <3>1 DEF IoThread, ReadSome, ReadError, TestReady, TestWaiting, DataArrive, Post, netVars
      <4> QED BY <4>1, <4>2 DEF IoOnly, clientVars, msgVars
    <3>2. CASE SaveFirst \/ Release \/ WriterPhase \/ UNCHANGED vars
      BY <3>2 DEF SaveFirst, Release, WriterPhase, WriterOnly, vars, clientVars, netVars, msgVars,
         rcvVars
    <3> QED BY <1>3, <3>1, <3>2
  <2>2. ~ReceiveComplete
    BY <2>1 DEF ReceiveComplete
  <2> QED BY <2>1, <2>2, Stutters
<1> QED BY <1>1, <1>2, <1>3 DEF Next

\* FileReceiver implements FileTransfer for an orderly client: whatever the threads and
\* the writer do in between, each of its files is taken once and whole, in the order in
\* which they were sent, before COMPLETE is said of it, and stays taken.
THEOREM OrderlyTransfers == Spec => ImplementsTransfer
<1>1. Init => OnceInv
  BY BoundsAssumption, QueuesDiffer
     DEF Init, OnceInv, OfferedOnce, IsTaken, IsKept, Writer!StoreInit
<1>2. AllInv /\ OnceInv /\ [Next]_vars => OnceInv'
  <2> SUFFICES ASSUME AllInv, OnceInv, [Next]_vars, Orderly' PROVE OfferedOnce'
    BY DEF OnceInv
  <2>1. Orderly
    BY SameClient DEF Orderly
  <2> QED BY <2>1, OnceNext DEF AllInv, TransferInv, OnceInv
<1>3. Init => Transfer!TransferInit
  <2> SUFFICES ASSUME Init PROVE Transfer!TransferInit
    OBVIOUS
  <2>1. Progress = "idle" /\ refused = {} /\ s2c = <<>> /\ told = {} /\ cfile = NoFile
    BY DEF Init, Progress
  <2>2. todo \subseteq Files /\ (cpc # "gone") = TRUE
    BY BoundsAssumption DEF Init
  <2>3. Saved = <<>>
    <3>1. disk = <<>> /\ pending = <<>>
      BY DEF Init, Writer!StoreInit
    <3>2. Queued = <<>>
      BY <3>1 DEF Queued
    <3> QED BY <3>1, <3>2, ConcatEmptySeq DEF Saved
  <2> QED BY <2>1, <2>2, <2>3 DEF Transfer!TransferInit
<1>4. AllInv /\ AllInv' /\ OnceInv /\ OnceInv' /\ [Next]_vars
      => [Orderly => [Transfer!TransferNext]_(Transfer!transferVars)]_vars
  <2> SUFFICES ASSUME AllInv, AllInv', OnceInv, OnceInv', [Next]_vars, Orderly
               PROVE  Transfer!TransferNext \/ UNCHANGED Transfer!transferVars
    OBVIOUS
  <2>1. Orderly'
    BY SameClient DEF Orderly
  <2>2. TypeInv /\ QueuedWhole /\ Stage /\ Stage' /\ OfferedOnce /\ OfferedOnce'
    BY <2>1 DEF AllInv, TransferInv, OnceInv
  <2> QED BY <2>2, StepTransfers
<1> QED
  BY <1>1, <1>2, <1>3, <1>4, AllInvHolds, PTL DEF Spec, ImplementsTransfer

\* So an orderly client has what FileTransfer specifies.
THEOREM OrderlyIsTransfer == Spec /\ Orderly => Transfer!TransferSpec
<1>1. Orderly /\ [Next]_vars => Orderly'
  BY SameClient DEF Orderly
<1>2. UNCHANGED vars => UNCHANGED Transfer!transferVars
  <2> SUFFICES ASSUME UNCHANGED vars PROVE UNCHANGED Transfer!transferVars
    OBVIOUS
  <2>1. UNCHANGED <<cpc, cfile, todo, told, s2c, mpc, state, pending, disk, heap, refused>>
    BY DEF vars, clientVars, netVars, msgVars, rcvVars, writerVars, storeVars
  <2>2. \A f : IsTaken(f)' <=> IsTaken(f)
    BY <2>1 DEF IsTaken, IsKept
  <2>3. Progress' = Progress
    BY <2>1, <2>2 DEF Progress
  <2>4. Saved' = Saved
    BY <2>1 DEF Saved, Queued, Entry, Written
  <2> QED
    BY <2>1, <2>3, <2>4 DEF Transfer!transferVars, Transfer!clientVars, Transfer!keptVars
<1>3. /\ Orderly /\ [Next]_vars
      /\ [Orderly => [Transfer!TransferNext]_(Transfer!transferVars)]_vars
      => [Transfer!TransferNext]_(Transfer!transferVars)
  BY <1>2
<1> QED
  BY <1>1, <1>3, OrderlyTransfers, PTL DEF Spec, ImplementsTransfer, Transfer!TransferSpec
================================================================================
