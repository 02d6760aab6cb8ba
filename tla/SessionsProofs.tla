----------------------------- MODULE SessionsProofs -----------------------------
(***************************************************************************)
(* Proofs about Sessions, for any connections: its variables keep their    *)
(* types, and a file received whole is handed over before its receiver is  *)
(* erased, unless the receiver was erased while its client was still being *)
(* accepted, or the client sends heartbeats.                               *)
(*                                                                         *)
(* The argument of the second: QUIT overtakes what is queued, so a         *)
(* receiver must not be told to stop while COMPLETE waits in its queue.    *)
(* thread_idle stops one whose client was reset or whose socket is closed. *)
(* The client is reset by CLOSE, which the I/O thread posts last and which *)
(* therefore stands behind COMPLETE; the socket is closed by the message   *)
(* thread over a fileinfo in two pieces, and then no content follows.      *)
(* Without heartbeats there is one RECEIVE for a whole line, so none is    *)
(* left to close the connection once content comes.                        *)
(***************************************************************************)
EXTENDS Sessions, SequenceTheorems, TLAPS

In(m, q) == \E i \in 1..Len(q) : q[i] = m

\* Every CLOSE in the queue stands behind a COMPLETE.
CompleteFirst(q) ==
  \A i \in 1..Len(q) : q[i] = "CLOSE" => \E j \in 1..Len(q) : j < i /\ q[j] = "COMPLETE"

AtMostOnce(m, q) ==
  \A i, j \in 1..Len(q) : q[i] = m /\ q[j] = m => i = j

\* The client being accepted is not read yet, nor in the table.
AcceptorInv ==
  /\ accpc = "accept" => acc = NoConn
  /\ accpc # "accept" => acc \in Conns /\ net[acc] # "none"
  /\ accpc \in {"lock", "couple"} => rcv[acc] = "none"
  /\ accpc = "push" => rcv[acc] = "live" /\ acc \notin table
  /\ accpc \in {"lock", "couple", "push", "start"} => io[acc] = "none"

\* What thread_idle looks at is in the table, and what is in the table lives.
SweepInv ==
  /\ \A c \in table : rcv[c] = "live"
  /\ visit \subseteq table
  /\ idlepc \in {"sleep", "lock", "ended"} => visit = {}
  /\ idlepc = "open" => cur \in table /\ cur \notin visit
  /\ idlepc = "join" => cur \in Conns
  /\ agent \in {"autofree", "clear"} => idlepc = "ended"

\* The life of a receiver and of the client it holds.
LifeInv(c) ==
  /\ net[c] = "none" => rcv[c] = "none" /\ io[c] = "none"
  /\ rcv[c] = "none" => mq[c] = <<>> /\ msg[c] = "none" /\ file[c] = "idle"
  /\ rcv[c] = "gone" => msg[c] = "exited"
  /\ In("QUIT", mq[c]) => rcv[c] \in {"quit", "gone"}
  /\ In("CLOSE", mq[c]) \/ msg[c] = "close" => io[c] = "ended"
  /\ rcv[c] \in {"live", "quit"} /\ ~tcp[c] => io[c] = "ended"
  /\ sock[c] => tcp[c] \/ acc = c

\* A file that came whole waits in front of CLOSE, with its client still there.
HandOver(c) ==
  /\ file[c] = "whole" => /\ In("COMPLETE", mq[c])
                          /\ CompleteFirst(mq[c])
                          /\ msg[c] # "close"
                          /\ tcp[c] /\ sock[c]
  /\ In("RECEIVE", mq[c]) => file[c] \in {"head", "tail", "info"}
  /\ file[c] = "info" => AtMostOnce("RECEIVE", mq[c])
  /\ In("COMPLETE", mq[c]) => file[c] = "whole" /\ AtMostOnce("COMPLETE", mq[c])

\* Nothing more comes to a receiver that thread_idle stopped.
StoppedInv(c) ==
  agent = "serving" /\ rcv[c] = "quit" /\ msg[c] # "exited" /\ c \notin fresh
    => ~sock[c] /\ (c \in beating \/ file[c] # "whole")

ConnInv(c) ==
  /\ LifeInv(c)
  /\ msg[c] = "exited" \/ c \in beating \/ HandOver(c)
  /\ StoppedInv(c)

HandedInv ==
  /\ AcceptorInv
  /\ SweepInv
  /\ \A c \in Conns : ConnInv(c)
  /\ WholeFileIsHandedOver


-----------------------------------------------------------------------------
(* Queues. *)

\* Posting puts a message behind the others.
LEMMA InAppend ==
  ASSUME NEW q \in Seq(Messages), NEW m \in Messages
  PROVE  /\ Append(q, m) \in Seq(Messages)
         /\ \A x : In(x, Append(q, m)) <=> In(x, q) \/ x = m
         /\ CompleteFirst(q) /\ m # "CLOSE" => CompleteFirst(Append(q, m))
         /\ CompleteFirst(q) /\ In("COMPLETE", q) => CompleteFirst(Append(q, m))
         /\ \A x : m # x /\ AtMostOnce(x, q) => AtMostOnce(x, Append(q, m))
         /\ \A x : ~In(x, q) => AtMostOnce(x, Append(q, m))
<1>1. PICK r \in Seq(Messages) : r = Append(q, m)
  BY AppendProperties
<1>2. /\ Len(q) \in Nat /\ Len(r) = Len(q) + 1
      /\ \A i \in 1..Len(q) : r[i] = q[i]
      /\ r[Len(q) + 1] = m
  BY <1>1, AppendProperties, LenProperties
<1>3. /\ \A i \in 1..Len(r) : i \in 1..Len(q) \/ i = Len(q) + 1
      /\ \A i \in 1..Len(q) : i \in 1..Len(r) /\ i < Len(q) + 1
      /\ Len(q) + 1 \in 1..Len(r)
  BY <1>2
<1>4. \A x : In(x, r) <=> In(x, q) \/ x = m
  BY <1>2, <1>3 DEF In
<1>5. CompleteFirst(q) /\ m # "CLOSE" => CompleteFirst(r)
  BY <1>2, <1>3 DEF CompleteFirst
<1>6. CompleteFirst(q) /\ In("COMPLETE", q) => CompleteFirst(r)
  BY <1>2, <1>3 DEF CompleteFirst, In
<1>7. /\ \A x : m # x /\ AtMostOnce(x, q) => AtMostOnce(x, r)
      /\ \A x : ~In(x, q) => AtMostOnce(x, r)
  BY <1>2, <1>3 DEF AtMostOnce, In
<1> QED
  BY <1>1, <1>4, <1>5, <1>6, <1>7

\* Taking a message leaves the order of the others.
LEMMA InTail ==
  ASSUME NEW q \in Seq(Messages), q # <<>>
  PROVE  /\ Tail(q) \in Seq(Messages)
         /\ \A x : In(x, q) <=> x = Head(q) \/ In(x, Tail(q))
         /\ CompleteFirst(q) /\ Head(q) # "COMPLETE" => CompleteFirst(Tail(q))
         /\ CompleteFirst(q) => Head(q) # "CLOSE"
         /\ \A x : AtMostOnce(x, q) => AtMostOnce(x, Tail(q))
         /\ \A x : AtMostOnce(x, q) /\ Head(q) = x => ~In(x, Tail(q))
<1>1. PICK r \in Seq(Messages) : r = Tail(q)
  BY HeadTailProperties
<1>2. /\ Len(q) \in Nat /\ Len(q) >= 1 /\ Len(r) = Len(q) - 1
      /\ \A i \in 1..Len(r) : r[i] = q[i + 1]
      /\ Head(q) = q[1]
  BY <1>1, HeadTailProperties, LenProperties, EmptySeq
<1>3. /\ 1 \in 1..Len(q)
      /\ \A i \in 1..Len(q) : i = 1 \/ (i - 1 \in 1..Len(r) /\ i = (i - 1) + 1)
      /\ \A i \in 1..Len(r) : i + 1 \in 1..Len(q) /\ i + 1 # 1
  BY <1>2
<1>4. \A i \in 1..Len(q) : i = 1 \/ r[i - 1] = q[i]
  BY <1>2, <1>3
<1>5. \A x : In(x, q) <=> x = Head(q) \/ In(x, r)
  BY <1>2, <1>3, <1>4 DEF In
<1>6. CompleteFirst(q) => Head(q) # "CLOSE"
  BY <1>2, <1>3 DEF CompleteFirst
<1>7. CompleteFirst(q) /\ Head(q) # "COMPLETE" => CompleteFirst(r)
  <2> SUFFICES ASSUME CompleteFirst(q), Head(q) # "COMPLETE",
                      NEW i \in 1..Len(r), r[i] = "CLOSE"
               PROVE  \E j \in 1..Len(r) : j < i /\ r[j] = "COMPLETE"
    BY DEF CompleteFirst
  <2>1. i + 1 \in 1..Len(q) /\ q[i + 1] = "CLOSE"
    BY <1>2, <1>3
  <2>2. PICK k \in 1..Len(q) : k < i + 1 /\ q[k] = "COMPLETE"
    BY <2>1 DEF CompleteFirst
  <2>3. k # 1
    BY <1>2, <2>2
  <2>4. k - 1 \in 1..Len(r) /\ r[k - 1] = "COMPLETE"
    BY <1>3, <1>4, <2>2, <2>3
  <2>5. k - 1 < i
    BY <1>2, <2>2
  <2> QED
    BY <2>4, <2>5
<1>8. \A x : AtMostOnce(x, q) => AtMostOnce(x, r)
  <2> SUFFICES ASSUME NEW x, AtMostOnce(x, q), NEW i \in 1..Len(r), NEW j \in 1..Len(r),
                      r[i] = x, r[j] = x
               PROVE  i = j
    BY DEF AtMostOnce
  <2>1. i + 1 = j + 1
    BY <1>2, <1>3 DEF AtMostOnce
  <2> QED
    BY <1>2, <2>1
<1>9. \A x : AtMostOnce(x, q) /\ Head(q) = x => ~In(x, r)
  BY <1>2, <1>3 DEF AtMostOnce, In
<1> QED
  BY <1>1, <1>5, <1>6, <1>7, <1>8, <1>9

\* QUIT is put in front of the others.
LEMMA InSend ==
  ASSUME NEW q \in Seq(Messages)
  PROVE  /\ <<"QUIT">> \o q \in Seq(Messages)
         /\ \A x : In(x, <<"QUIT">> \o q) <=> In(x, q) \/ x = "QUIT"
         /\ CompleteFirst(q) => CompleteFirst(<<"QUIT">> \o q)
         /\ \A x \in {"RECEIVE", "COMPLETE"} :
              AtMostOnce(x, q) => AtMostOnce(x, <<"QUIT">> \o q)
<1>1. <<"QUIT">> \in Seq(Messages) /\ Len(<<"QUIT">>) = 1 /\ <<"QUIT">>[1] = "QUIT"
  BY DEF Messages
<1>2. PICK r \in Seq(Messages) : r = <<"QUIT">> \o q
  BY <1>1, ConcatProperties
<1>3. /\ Len(q) \in Nat /\ Len(r) = 1 + Len(q)
      /\ \A i \in 1..Len(r) : r[i] = IF i <= 1 THEN <<"QUIT">>[i] ELSE q[i - 1]
  BY <1>1, <1>2, ConcatProperties, LenProperties
<1>4. /\ 1 \in 1..Len(r) /\ r[1] = "QUIT"
      /\ \A i \in 1..Len(r) : i = 1 \/ (i - 1 \in 1..Len(q) /\ r[i] = q[i - 1])
      /\ \A i \in 1..Len(q) : i + 1 \in 1..Len(r) /\ r[i + 1] = q[i]
  BY <1>1, <1>3
<1>5. \A x : In(x, r) <=> In(x, q) \/ x = "QUIT"
  BY <1>4 DEF In
<1>6. CompleteFirst(q) => CompleteFirst(r)
  <2> SUFFICES ASSUME CompleteFirst(q), NEW i \in 1..Len(r), r[i] = "CLOSE"
               PROVE  \E j \in 1..Len(r) : j < i /\ r[j] = "COMPLETE"
    BY DEF CompleteFirst
  <2>1. i - 1 \in 1..Len(q) /\ q[i - 1] = "CLOSE"
    BY <1>4
  <2>2. PICK k \in 1..Len(q) : k < i - 1 /\ q[k] = "COMPLETE"
    BY <2>1 DEF CompleteFirst
  <2>3. k + 1 < i
    BY <1>3, <2>2
  <2> QED
    BY <1>4, <2>2, <2>3
<1>7. \A x \in {"RECEIVE", "COMPLETE"} : AtMostOnce(x, q) => AtMostOnce(x, r)
  <2> SUFFICES ASSUME NEW x \in {"RECEIVE", "COMPLETE"}, AtMostOnce(x, q),
                      NEW i \in 1..Len(r), NEW j \in 1..Len(r), r[i] = x, r[j] = x
               PROVE  i = j
    BY DEF AtMostOnce
  <2>1. /\ i - 1 \in 1..Len(q) /\ q[i - 1] = x
        /\ j - 1 \in 1..Len(q) /\ q[j - 1] = x
    BY <1>4
  <2>2. i - 1 = j - 1
    BY <2>1 DEF AtMostOnce
  <2> QED
    BY <1>3, <2>2
<1> QED
  BY <1>2, <1>5, <1>6, <1>7


-----------------------------------------------------------------------------
(* Types. *)

TypeInv ==
  /\ TypeOK
  /\ accpc # "accept" => acc \in Conns
  /\ idlepc \in {"open", "join"} => cur \in Conns

\* A function that is changed at one place keeps its range.
LEMMA ExceptType ==
  ASSUME NEW S, NEW T, NEW f \in [S -> T], NEW x, NEW y \in T
  PROVE  [f EXCEPT ![x] = y] \in [S -> T]
OBVIOUS

\* The types hold at the beginning.
LEMMA TypeInit == Init => TypeInv
<1> SUFFICES ASSUME Init PROVE TypeInv
  OBVIOUS
<1>1. mq \in [Conns -> Seq(Messages)] /\ file \in [Conns -> Waiting \cup Ready]
  BY EmptySeq DEF Init, Waiting
<1>2. beating \subseteq Conns
  BY ConnsAssumption DEF Init
<1> QED
  BY <1>1, <1>2 DEF Init, TypeInv, TypeOK

\* A queue stays a queue of messages.
LEMMA QueueTypes ==
  ASSUME TypeOK, NEW c \in Conns
  PROVE  /\ \A m \in Messages : PostMessage(c, m) => mq' \in [Conns -> Seq(Messages)]
         /\ SendMessage(c, "QUIT") => mq' \in [Conns -> Seq(Messages)]
         /\ mq[c] # <<>> /\ mq' = [mq EXCEPT ![c] = Tail(@)]
              => mq' \in [Conns -> Seq(Messages)]
<1>1. mq[c] \in Seq(Messages)
  BY DEF TypeOK
<1>2. \A m \in Messages : Append(mq[c], m) \in Seq(Messages)
  BY <1>1, AppendProperties
<1>3. <<"QUIT">> \o mq[c] \in Seq(Messages)
  BY <1>1, InSend
<1>4. mq[c] # <<>> => Tail(mq[c]) \in Seq(Messages)
  BY <1>1, InTail
<1> QED
  BY <1>2, <1>3, <1>4 DEF TypeOK, PostMessage, SendMessage

\* Every step keeps the types.
LEMMA TypeNext ==
  ASSUME TypeInv, [Next]_vars
  PROVE  TypeInv'
<1> USE DEF TypeInv, agentVars
<1>1. ASSUME NEW c \in Conns, Accept(c) \/ Leave(c)
      PROVE  TypeInv'
  <2>1. net' \in [Conns -> {"none", "open", "left"}] /\ sock' \in [Conns -> BOOLEAN]
    BY <1>1, ExceptType DEF Accept, Leave, TypeOK
  <2>2. UNCHANGED <<beating, lock, table, tcp, io, rcv, queueVars, idleVars, agentVars,
                    crashed>>
    BY <1>1 DEF Accept, Leave
  <2>3. acc' \in Conns \cup {NoConn} /\ (accpc' # "accept" => acc' \in Conns)
        /\ accpc' \in {"accept", "lock", "couple", "push", "start", "return"}
    BY <1>1 DEF Accept, Leave, TypeOK, acceptVars
  <2> QED
    BY <2>1, <2>2, <2>3 DEF TypeOK, queueVars, idleVars, agentVars
<1>2. ASSUME NEW c \in Conns, Receive(c)
      PROVE  TypeInv'
  <2>1. mq' \in [Conns -> Seq(Messages)]
    BY <1>2, QueueTypes DEF Receive, TypeOK, Messages
  <2> QED
    <3>1. file' \in [Conns -> Waiting \cup Ready]
      <4>1. NextLine(c) \cup NextContent(c) \subseteq Waiting \cup Ready
        BY DEF NextLine, NextContent, Waiting, Ready
      <4>2. file \in [Conns -> Waiting \cup Ready]
        BY DEF TypeOK
      <4>3. PICK r \in Waiting \cup Ready : file' \in {file, [file EXCEPT ![c] = r]}
        <5>1. CASE file' = file
          BY <5>1 DEF Waiting
        <5>2. CASE \E r \in NextLine(c) \cup NextContent(c) : file' = [file EXCEPT ![c] = r]
          BY <4>1, <5>2
        <5> QED
          BY <1>2, <5>1, <5>2 DEF Receive
      <4> QED
        BY <4>2, <4>3, ExceptType
    <3>2. crashed' \in BOOLEAN
      BY <1>2 DEF Receive, TypeOK
    <3>3. UNCHANGED <<beating, lock, table, acceptVars, connVars, rcv, msg, lost, idleVars,
                      agentVars>>
      BY <1>2 DEF Receive
    <3> QED
      BY <2>1, <3>1, <3>2, <3>3 DEF TypeOK, acceptVars, connVars, idleVars, agentVars
<1>3. ASSUME NEW c \in Conns, ReceiveError(c)
      PROVE  TypeInv'
  <2>1. mq' \in [Conns -> Seq(Messages)]
    BY <1>3, QueueTypes DEF ReceiveError, TypeOK, Messages
  <2>2. io' \in [Conns -> {"none", "reading", "ended"}] /\ crashed' \in BOOLEAN
    BY <1>3, ExceptType DEF ReceiveError, TypeOK
  <2>3. UNCHANGED <<beating, lock, table, acceptVars, net, tcp, sock, rcv, msg, file, lost,
                    idleVars, agentVars>>
    BY <1>3 DEF ReceiveError
  <2> QED
    BY <2>1, <2>2, <2>3 DEF TypeOK, acceptVars, idleVars
<1>4. ASSUME NEW c \in Conns, MsgThread(c)
      PROVE  TypeInv'
  <2>1. mq' \in [Conns -> Seq(Messages)]
    <3>1. CASE OnQuit(c)
      BY <3>1, EmptySeq DEF OnQuit, TypeOK
    <3>2. CASE ResetClient(c)
      BY <3>2 DEF ResetClient, TypeOK
    <3> QED
      BY <1>4, <3>1, <3>2, QueueTypes DEF MsgThread, OnReceive, OnComplete, OnClose
  <2>2. UNCHANGED <<beating, lock, table, acceptVars, net, io, rcv, idleVars, agentVars>>
    BY <1>4 DEF MsgThread, OnReceive, OnComplete, OnClose, ResetClient, OnQuit, connVars
  <2>3. /\ tcp' \in [Conns -> BOOLEAN] /\ sock' \in [Conns -> BOOLEAN]
        /\ msg' \in [Conns -> {"none", "wait", "close", "exited"}]
        /\ file' \in [Conns -> Waiting \cup Ready]
        /\ lost' \subseteq Conns
    <3>1. CASE OnReceive(c) \/ OnComplete(c)
      <4>1. file' \in [Conns -> Waiting \cup Ready]
        BY <3>1, ExceptType DEF OnReceive, OnFileInfo, OnFileStat, OnWrong, OnComplete,
           Waiting, Ready, TypeOK
      <4>2. sock' \in [Conns -> BOOLEAN]
        BY <3>1, ExceptType DEF OnReceive, OnFileInfo, OnFileStat, OnWrong, OnComplete,
           connVars, TypeOK
      <4> QED
        BY <3>1, <4>1, <4>2 DEF OnReceive, OnComplete, connVars, TypeOK
    <3>2. CASE OnClose(c) \/ OnQuit(c)
      BY <3>2, ExceptType DEF OnClose, OnQuit, connVars, TypeOK
    <3>3. CASE ResetClient(c)
      <4>1. (sock[c] /\ acc = c) \in BOOLEAN
        OBVIOUS
      <4> QED
        BY <3>3, <4>1, ExceptType DEF ResetClient, TypeOK
    <3> QED
      BY <1>4, <3>1, <3>2, <3>3 DEF MsgThread
  <2>4. crashed' \in BOOLEAN
    BY <1>4 DEF MsgThread, OnReceive, OnFileInfo, OnFileStat, OnWrong, Write, OnComplete,
       OnClose, ResetClient, OnQuit, TypeOK
  <2> QED
    BY <2>1, <2>2, <2>3, <2>4 DEF TypeOK, acceptVars, idleVars
<1>5. ASSUME Acceptor
      PROVE  TypeInv'
  <2>1. /\ rcv' \in [Conns -> {"none", "live", "quit", "gone"}]
        /\ msg' \in [Conns -> {"none", "wait", "close", "exited"}]
        /\ tcp' \in [Conns -> BOOLEAN]
    BY <1>5, ExceptType DEF Acceptor, LockTable, Couple, CoupleThrows, CoupleFails,
       PushReceiver, StartRead, Return, queueVars, connVars, TypeOK
  <2>2. /\ sock' \in [Conns -> BOOLEAN]
        /\ io' \in [Conns -> {"none", "reading", "ended"}]
    BY <1>5, ExceptType DEF Acceptor, LockTable, Couple, CoupleThrows, CoupleFails,
       PushReceiver, StartRead, Return, connVars, TypeOK
  <2>3. /\ lock' \in {"free", "acceptor", "idle"}
        /\ table' \subseteq Conns
        /\ accpc' \in {"accept", "lock", "couple", "push", "start", "return"}
        /\ acc' \in Conns \cup {NoConn} /\ (accpc' # "accept" => acc' \in Conns)
    BY <1>5 DEF Acceptor, LockTable, Couple, CoupleThrows, CoupleFails,
       PushReceiver, StartRead, Return, acceptVars, TypeOK
  <2>4. crashed' \in BOOLEAN
    BY <1>5 DEF Acceptor, LockTable, Couple, CoupleThrows, CoupleFails,
       PushReceiver, StartRead, Return, TypeOK
  <2>5. UNCHANGED <<beating, net, mq, file, lost, idleVars, agentVars>>
    BY <1>5 DEF Acceptor, LockTable, Couple, CoupleThrows, CoupleFails,
       PushReceiver, StartRead, Return, connVars, queueVars
  <2> QED
    BY <2>1, <2>2, <2>3, <2>4, <2>5 DEF TypeOK, idleVars, agentVars
<1>6. ASSUME NEW c \in Conns, StopQueue(c)
      PROVE  /\ mq' \in [Conns -> Seq(Messages)]
             /\ rcv' \in [Conns -> {"none", "live", "quit", "gone"}]
             /\ table' \subseteq Conns
  BY <1>6, QueueTypes DEF StopQueue, TypeOK
<1>7. ASSUME NEW c, Destroy(c)
      PROVE  /\ rcv' \in [Conns -> {"none", "live", "quit", "gone"}]
             /\ tcp' \in [Conns -> BOOLEAN] /\ sock' \in [Conns -> BOOLEAN]
             /\ io' \in [Conns -> {"none", "reading", "ended"}]
  BY <1>7 DEF Destroy, TypeOK
<1>8. ASSUME NEW c \in Conns, TestUnique(c)
      PROVE  TypeInv'
  <2>1. /\ mq' \in [Conns -> Seq(Messages)]
        /\ rcv' \in [Conns -> {"none", "live", "quit", "gone"}]
        /\ table' \subseteq Conns /\ fresh' \subseteq Conns
    BY <1>6, <1>8 DEF TestUnique, TypeOK
  <2>2. cur' = c /\ visit' \subseteq visit /\ idlepc' \in {"open", "join"}
    BY <1>8 DEF TestUnique
  <2>3. UNCHANGED <<beating, lock, acceptVars, connVars, msg, file, lost, agentVars,
                    crashed>>
    BY <1>8 DEF TestUnique
  <2> QED
    BY <2>1, <2>2, <2>3 DEF TypeOK, acceptVars, connVars
<1>9. ASSUME TestOpen
      PROVE  TypeInv'
  <2>1. /\ mq' \in [Conns -> Seq(Messages)]
        /\ rcv' \in [Conns -> {"none", "live", "quit", "gone"}]
        /\ table' \subseteq Conns
    <3>1. cur \in Conns
      BY <1>9 DEF TestOpen
    <3> QED
      BY <1>6, <1>9, <3>1 DEF TestOpen, TypeOK
  <2>2. crashed' \in BOOLEAN
    BY <1>9 DEF TestOpen, TypeOK
  <2>3. /\ idlepc' \in {"open", "unique", "join"} /\ idlepc = "open"
        /\ UNCHANGED <<beating, lock, acceptVars, connVars, msg, file, lost, cur, visit,
                       fresh, agentVars>>
    BY <1>9 DEF TestOpen
  <2> QED
    BY <2>1, <2>2, <2>3 DEF TypeOK, acceptVars, connVars
<1>10. ASSUME JoinIdle
       PROVE  TypeInv'
  <2>1. /\ idlepc' = "unique"
        /\ UNCHANGED <<beating, lock, table, acceptVars, net, queueVars, cur, visit, fresh,
                       agentVars, crashed>>
    BY <1>10 DEF JoinIdle
  <2>2. Destroy(cur)
    BY <1>10 DEF JoinIdle
  <2> QED
    BY <1>7, <2>1, <2>2 DEF TypeOK, acceptVars, queueVars
<1>11. ASSUME SleepEnds \/ LockIdle \/ SweepEnds
       PROVE  TypeInv'
  BY <1>11 DEF SleepEnds, LockIdle, SweepEnds, TypeOK, acceptVars, connVars, queueVars
<1>12. ASSUME Interrupt \/ Interrupted \/ FreeEnds \/ FreeInterrupted \/ Cleared
       PROVE  TypeInv'
  <2>1. /\ agent' \in {"serving", "interrupt", "autofree", "clear", "stopped"}
        /\ freepc' \in {"any", "sleep", "busy", "ended"}
        /\ idlepc' \in {idlepc, "ended"}
    BY <1>12 DEF Interrupt, Interrupted, FreeEnds, FreeInterrupted, Cleared, TypeOK, idleVars
  <2>2. crashed' \in BOOLEAN
    BY <1>12 DEF Interrupt, Interrupted, FreeEnds, FreeInterrupted, Cleared, TypeOK
  <2>3. UNCHANGED <<beating, lock, table, acceptVars, connVars, rcv, queueVars, cur, visit,
                    fresh>>
    BY <1>12 DEF Interrupt, Interrupted, FreeEnds, FreeInterrupted, Cleared, idleVars
  <2> QED
    BY <2>1, <2>2, <2>3 DEF TypeOK, acceptVars, connVars, queueVars
<1>13. ASSUME NEW c \in Conns, ClearOne(c)
       PROVE  TypeInv'
  <2>1. UNCHANGED <<beating, lock, acceptVars, connVars, msg, file, lost, idleVars,
                    agentVars, crashed>>
    BY <1>13 DEF ClearOne
  <2> QED
    BY <1>6, <1>13, <2>1 DEF ClearOne, TypeOK, acceptVars, connVars, idleVars, agentVars
<1>14. ASSUME NEW c \in Conns, JoinMain(c)
       PROVE  TypeInv'
  <2>1. UNCHANGED <<beating, lock, table, acceptVars, net, queueVars, idleVars, agentVars,
                    crashed>>
    BY <1>14 DEF JoinMain
  <2> QED
    BY <1>7, <1>14, <2>1 DEF JoinMain, TypeOK, acceptVars, queueVars, idleVars, agentVars
<1>15. ASSUME UNCHANGED vars
       PROVE  TypeInv'
  BY <1>15 DEF vars, TypeOK, acceptVars, connVars, queueVars, idleVars, agentVars
<1> QED
  BY <1>1, <1>2, <1>3, <1>4, <1>5, <1>8, <1>9, <1>10, <1>11, <1>12, <1>13, <1>14, <1>15
     DEF Next, IoThread, Idle, Stopping

\* The table, the threads' places and the queues always hold what their types
\* say, and the acceptor and thread_idle only work on connections.
THEOREM TypeCorrect == Spec => []TypeOK
<1>1. Spec => []TypeInv
  BY TypeInit, TypeNext, PTL DEF Spec
<1>2. TypeInv => TypeOK
  BY DEF TypeInv
<1> QED
  BY <1>1, <1>2, PTL

-----------------------------------------------------------------------------
(* The inductive invariant behind WholeFileIsHandedOver. *)

\* At the beginning there are no connections.
LEMMA HandedInit == Init => HandedInv
<1> SUFFICES ASSUME Init PROVE HandedInv
  OBVIOUS
<1>1. ASSUME NEW c \in Conns
      PROVE  /\ rcv[c] = "none" /\ mq[c] = <<>> /\ msg[c] = "none" /\ file[c] = "idle"
             /\ ~sock[c] /\ io[c] = "none"
  BY DEF Init
<1>2. \A m : ~In(m, <<>>)
  BY DEF In
<1>3. \A c \in Conns : ConnInv(c)
  BY <1>1, <1>2 DEF ConnInv, LifeInv, HandOver, StoppedInv
<1> QED
  BY <1>3 DEF Init, HandedInv, AcceptorInv, SweepInv, WholeFileIsHandedOver

\* The invariant of a connection speaks of that connection only, but for the
\* acceptor's hold on its client, the sweep's record and the agent.
LEMMA ConnSame ==
  ASSUME NEW c \in Conns, ConnInv(c),
         rcv'[c] = rcv[c], tcp'[c] = tcp[c], sock'[c] = sock[c], io'[c] = io[c],
         msg'[c] = msg[c], mq'[c] = mq[c], file'[c] = file[c],
         net'[c] = "none" => net[c] = "none", beating' = beating,
         acc = c => acc' = c, fresh \subseteq fresh',
         agent' = "serving" => agent = "serving"
  PROVE  ConnInv(c)'
<1>1. LifeInv(c)'
  BY DEF ConnInv, LifeInv
<1>2. (msg[c] = "exited" \/ c \in beating \/ HandOver(c))'
  BY DEF ConnInv, HandOver
<1>3. StoppedInv(c)'
  BY DEF ConnInv, StoppedInv
<1> QED
  BY <1>1, <1>2, <1>3 DEF ConnInv

\* A closed socket means that no whole file waits.
LEMMA ClosedIsIdle ==
  ASSUME NEW c \in Conns, ConnInv(c), ~sock[c]
  PROVE  msg[c] = "exited" \/ c \in beating \/ file[c] # "whole"
BY DEF ConnInv, HandOver

\* A receiver may be stopped when nothing can come any more, when its client was
\* still being accepted, or when the service ends.
LEMMA StopKeeps ==
  ASSUME TypeOK, NEW c \in Conns, ConnInv(c), StopQueue(c), rcv[c] = "live",
         UNCHANGED <<beating, net, acc, tcp, sock, io, msg, file, agent>>, fresh \subseteq fresh',
         ~sock[c] \/ c \in fresh' \/ agent # "serving"
  PROVE  ConnInv(c)'
<1>1. mq[c] \in Seq(Messages) /\ mq'[c] = <<"QUIT">> \o mq[c]
  BY DEF StopQueue, SendMessage, TypeOK
<1>2. rcv'[c] = "quit"
  BY DEF StopQueue, TypeOK
<1>3. /\ \A x : In(x, mq'[c]) <=> In(x, mq[c]) \/ x = "QUIT"
      /\ CompleteFirst(mq[c]) => CompleteFirst(mq'[c])
      /\ \A x \in {"RECEIVE", "COMPLETE"} : AtMostOnce(x, mq[c]) => AtMostOnce(x, mq'[c])
  BY <1>1, InSend
<1>4. LifeInv(c)'
  BY <1>2, <1>3 DEF ConnInv, LifeInv
<1>5. (msg[c] = "exited" \/ c \in beating \/ HandOver(c))'
  BY <1>3 DEF ConnInv, HandOver
<1>6. StoppedInv(c)'
  BY ClosedIsIdle DEF StoppedInv
<1> QED
  BY <1>4, <1>5, <1>6 DEF ConnInv

\* The destructor, once its thread has ended, closes what is left of the connection.
LEMMA DestroyKeeps ==
  ASSUME TypeOK, NEW c \in Conns, ConnInv(c), Destroy(c),
         UNCHANGED <<beating, net, acc, msg, mq, file, agent, fresh>>
  PROVE  ConnInv(c)'
<1>1. /\ rcv'[c] = "gone" /\ msg[c] = "exited" /\ tcp'[c] = FALSE
      /\ acc # c => sock'[c] = FALSE
      /\ io'[c] \in {io[c], "ended"}
  BY DEF Destroy, TypeOK
<1>2. LifeInv(c)'
  BY <1>1 DEF ConnInv, LifeInv
<1> QED
  BY <1>1, <1>2 DEF ConnInv, StoppedInv

-----------------------------------------------------------------------------


\* One lemma per thread: its steps keep the invariant.
LEMMA ClientKeeps ==
  ASSUME TypeInv, HandedInv, NEW c \in Conns, Accept(c) \/ Leave(c)
  PROVE  HandedInv'
<1> USE ConnsAssumption DEF TypeInv
<1>1. CASE Accept(c)
  <2>1. /\ UNCHANGED <<beating, lock, table, tcp, io, rcv, msg, mq, file, lost, idlepc, cur,
                       visit, fresh, agent, crashed>>
        /\ accpc = "accept" /\ accpc' = "lock" /\ acc' = c /\ net[c] = "none"
    BY <1>1 DEF Accept, queueVars, idleVars, agentVars
  <2>2. /\ net'[c] = "open" /\ sock'[c] = TRUE
        /\ \A d \in Conns \ {c} : net'[d] = net[d] /\ sock'[d] = sock[d]
    BY <1>1 DEF Accept, TypeOK
  <2>3. acc = NoConn
    BY <2>1 DEF HandedInv, AcceptorInv
  <2>4. ConnInv(c)
    BY DEF HandedInv
  <2>5. rcv[c] = "none" /\ io[c] = "none"
    BY <2>1, <2>4 DEF ConnInv, LifeInv
  <2>6. ConnInv(c)'
    BY <2>1, <2>2, <2>4, <2>5 DEF ConnInv, LifeInv, HandOver, StoppedInv
  <2>7. ASSUME NEW d \in Conns \ {c}
        PROVE  ConnInv(d)'
    BY <2>1, <2>2, <2>3, ConnSame DEF HandedInv
  <2>8. AcceptorInv'
    BY <2>1, <2>2, <2>5 DEF AcceptorInv
  <2>9. SweepInv' /\ WholeFileIsHandedOver'
    BY <2>1 DEF HandedInv, SweepInv, WholeFileIsHandedOver
  <2> QED
    BY <2>6, <2>7, <2>8, <2>9 DEF HandedInv
<1>2. CASE Leave(c)
  <2>1. /\ UNCHANGED <<beating, lock, table, accpc, acc, tcp, sock, io, rcv, msg, mq, file,
                       lost, idlepc, cur, visit, fresh, agent, crashed>>
        /\ \A d \in Conns : net'[d] = "none" => net[d] = "none"
    BY <1>2 DEF Leave, TypeOK, acceptVars, queueVars, idleVars, agentVars
  <2>2. \A d \in Conns : ConnInv(d)'
    BY <2>1, ConnSame DEF HandedInv
  <2>3. AcceptorInv' /\ SweepInv' /\ WholeFileIsHandedOver'
    BY <2>1 DEF HandedInv, AcceptorInv, SweepInv, WholeFileIsHandedOver
  <2> QED
    BY <2>2, <2>3 DEF HandedInv
<1> QED
  BY <1>1, <1>2

\* The acceptor changes the connection it accepts, and puts it into the table last.
LEMMA AcceptorKeeps ==
  ASSUME TypeInv, HandedInv, Acceptor
  PROVE  HandedInv'
<1> USE ConnsAssumption DEF TypeInv
<1>1. acc \in Conns
  BY DEF Acceptor, LockTable, Couple, CoupleThrows, CoupleFails, PushReceiver, StartRead,
         Return
<1>2. ConnInv(acc) /\ net[acc] # "none"
  BY <1>1 DEF HandedInv, AcceptorInv, Acceptor, LockTable, Couple, CoupleThrows,
     CoupleFails, PushReceiver, StartRead, Return
<1>3. UNCHANGED <<beating, net, mq, file, lost, idlepc, cur, visit, fresh, agent>>
  BY DEF Acceptor, LockTable, Couple, CoupleThrows, CoupleFails, PushReceiver, StartRead,
         Return, connVars, queueVars, idleVars, agentVars
<1>4. WholeFileIsHandedOver'
  BY <1>3 DEF HandedInv, WholeFileIsHandedOver
<1>5. CASE LockTable \/ CoupleThrows \/ CoupleFails
  <2>1. /\ UNCHANGED <<table, acc, tcp, sock, io, rcv, msg>>
        /\ \/ accpc = "lock" /\ accpc' = "couple"
           \/ accpc = "couple" /\ accpc' \in {accpc, "start"}
    BY <1>5 DEF LockTable, CoupleThrows, CoupleFails, acceptVars, connVars, queueVars
  <2>2. \A c \in Conns : ConnInv(c)'
    BY <1>3, <2>1, ConnSame DEF HandedInv
  <2>3. AcceptorInv'
    BY <1>1, <1>2, <1>3, <2>1 DEF HandedInv, AcceptorInv
  <2>4. SweepInv'
    BY <1>3, <2>1 DEF HandedInv, SweepInv
  <2> QED
    BY <1>4, <2>2, <2>3, <2>4 DEF HandedInv
<1>6. CASE Couple
  <2>1. UNCHANGED <<table, acc, sock, io>> /\ accpc = "couple" /\ accpc' = "push"
    BY <1>6 DEF Couple
  <2>2. /\ rcv'[acc] = "live" /\ msg'[acc] = "wait" /\ tcp'[acc] = TRUE
        /\ \A c \in Conns \ {acc} : /\ rcv'[c] = rcv[c] /\ msg'[c] = msg[c]
                                    /\ tcp'[c] = tcp[c]
    BY <1>1, <1>6 DEF Couple, TypeOK
  <2>3. rcv[acc] = "none"
    BY <2>1 DEF HandedInv, AcceptorInv
  <2>4. mq'[acc] = <<>> /\ file'[acc] = "idle"
    BY <1>2, <1>3, <2>3 DEF ConnInv, LifeInv
  <2>5. \A m : ~In(m, <<>>)
    BY DEF In
  <2>6. ConnInv(acc)'
    BY <1>2, <1>3, <2>1, <2>2, <2>4, <2>5 DEF ConnInv, LifeInv, HandOver, StoppedInv
  <2>7. ASSUME NEW c \in Conns \ {acc}
        PROVE  ConnInv(c)'
    BY <1>3, <2>1, <2>2, ConnSame DEF HandedInv
  <2>8. AcceptorInv'
    BY <1>1, <1>2, <1>3, <2>1, <2>2, <2>3 DEF HandedInv, AcceptorInv, SweepInv
  <2>9. SweepInv'
    BY <1>3, <2>1, <2>2, <2>3 DEF HandedInv, SweepInv, TypeOK
  <2> QED
    BY <1>4, <2>1, <2>6, <2>7, <2>8, <2>9 DEF HandedInv
<1>7. CASE PushReceiver
  <2>1. /\ UNCHANGED <<acc, tcp, sock, io, rcv, msg>>
        /\ table' = table \cup {acc} /\ accpc = "push" /\ accpc' = "start"
    BY <1>7 DEF PushReceiver, connVars, queueVars
  <2>2. \A c \in Conns : ConnInv(c)'
    BY <1>3, <2>1, ConnSame DEF HandedInv
  <2>3. AcceptorInv'
    BY <1>1, <1>2, <1>3, <2>1 DEF HandedInv, AcceptorInv
  <2>4. SweepInv'
    BY <1>3, <2>1 DEF HandedInv, SweepInv, AcceptorInv
  <2> QED
    BY <1>4, <2>2, <2>3, <2>4 DEF HandedInv
<1>8. CASE StartRead
  <2>1. UNCHANGED <<table, acc, tcp, sock, rcv, msg>> /\ accpc = "start" /\ accpc' = "return"
    BY <1>8 DEF StartRead, queueVars
  <2>2. /\ io'[acc] = "reading"
        /\ \A c \in Conns \ {acc} : io'[c] = io[c]
    BY <1>1, <1>8 DEF StartRead, TypeOK
  <2>3. io[acc] = "none"
    BY <2>1 DEF HandedInv, AcceptorInv
  <2>4. LifeInv(acc)'
    BY <1>2, <1>3, <2>1, <2>2, <2>3 DEF ConnInv, LifeInv
  <2>5. ConnInv(acc)'
    BY <1>2, <1>3, <2>1, <2>4 DEF ConnInv, HandOver, StoppedInv
  <2>6. ASSUME NEW c \in Conns \ {acc}
        PROVE  ConnInv(c)'
    BY <1>3, <2>1, <2>2, ConnSame DEF HandedInv
  <2>7. AcceptorInv'
    BY <1>1, <1>2, <1>3, <2>1 DEF AcceptorInv
  <2>8. SweepInv'
    BY <1>3, <2>1 DEF HandedInv, SweepInv
  <2> QED
    BY <1>4, <2>1, <2>5, <2>6, <2>7, <2>8 DEF HandedInv
<1>9. CASE Return
  <2> PICK d \in Conns : d = acc
    BY <1>1
  <2>1. UNCHANGED <<table, tcp, rcv, msg>> /\ acc' = NoConn /\ accpc' = "accept"
    BY <1>9 DEF Return, queueVars
  <2>2. /\ \/ tcp[d] /\ sock'[d] = sock[d] /\ io'[d] = io[d]
           \/ ~tcp[d] /\ sock'[d] = FALSE /\ io'[d] = "ended"
        /\ \A c \in Conns \ {d} : sock'[c] = sock[c] /\ io'[c] = io[c]
    BY <1>9 DEF Return, TypeOK
  <2>3. LifeInv(d)'
    BY <1>2, <1>3, <2>1, <2>2 DEF ConnInv, LifeInv
  <2>4. (msg[d] = "exited" \/ d \in beating \/ HandOver(d))'
    BY <1>2, <1>3, <2>1, <2>2 DEF ConnInv, HandOver
  <2>5. StoppedInv(d)'
    BY <1>2, <1>3, <2>1, <2>2 DEF ConnInv, StoppedInv
  <2>6. ASSUME NEW c \in Conns \ {d}
        PROVE  ConnInv(c)'
    BY <1>3, <2>1, <2>2, ConnSame DEF HandedInv
  <2>7. AcceptorInv'
    BY <2>1 DEF AcceptorInv
  <2>8. SweepInv'
    BY <1>3, <2>1 DEF HandedInv, SweepInv
  <2> QED
    BY <1>4, <2>3, <2>4, <2>5, <2>6, <2>7, <2>8 DEF HandedInv, ConnInv
<1> QED
  BY <1>5, <1>6, <1>7, <1>8, <1>9 DEF Acceptor

\* A connection's own threads leave the acceptor and the sweep alone.
LEMMA OthersSame ==
  ASSUME HandedInv, NEW c \in Conns, ConnInv(c)',
         UNCHANGED <<beating, net, table, accpc, acc, rcv, lost, idlepc, cur, visit, fresh,
                     agent>>,
         \A d \in Conns \ {c} : /\ tcp'[d] = tcp[d] /\ sock'[d] = sock[d] /\ io'[d] = io[d]
                                /\ msg'[d] = msg[d] /\ mq'[d] = mq[d] /\ file'[d] = file[d],
         io[c] = "none" => io'[c] = "none"
  PROVE  HandedInv'
<1>1. ASSUME NEW d \in Conns \ {c}
      PROVE  ConnInv(d)'
  BY ConnSame DEF HandedInv
<1>2. AcceptorInv' /\ SweepInv' /\ WholeFileIsHandedOver'
  BY DEF HandedInv, AcceptorInv, SweepInv, WholeFileIsHandedOver
<1> QED
  BY <1>1, <1>2 DEF HandedInv

\* The I/O thread posts CLOSE last, behind a COMPLETE it has posted before.
LEMMA IoKeeps ==
  ASSUME TypeInv, HandedInv, NEW c \in Conns, IoThread(c)
  PROVE  HandedInv'
<1> USE DEF TypeInv, agentVars
<1>1. ConnInv(c) /\ mq[c] \in Seq(Messages)
  BY DEF HandedInv, TypeOK
<1>2. CASE Receive(c)
  <2>1. /\ UNCHANGED <<beating, net, table, accpc, acc, tcp, sock, io, rcv, msg, lost,
                       idlepc, cur, visit, fresh, agent>>
        /\ io[c] = "reading" /\ sock[c]
    BY <1>2 DEF Receive, acceptVars, connVars, idleVars, agentVars
  <2>2. ~In("CLOSE", mq[c]) /\ msg[c] # "close" /\ (rcv[c] \in {"live", "quit"} => tcp[c])
    BY <1>1, <2>1 DEF ConnInv, LifeInv
  <2>3. \A d \in Conns \ {c} : mq'[d] = mq[d] /\ file'[d] = file[d]
    BY <1>2 DEF Receive, PostMessage, TypeOK
  <2>4. CASE rcv[c] = "gone"
    <3>1. UNCHANGED <<mq, file>>
      BY <1>2, <2>4 DEF Receive
    <3>2. ConnInv(c)'
      BY <1>1, <2>1, <3>1, ConnSame
    <3> QED
      BY <2>1, <2>3, <3>2, OthersSame
  <2>5. CASE rcv[c] \in {"live", "quit"}
    <3>1. StoppedInv(c)'
      BY <1>1, <2>1 DEF ConnInv, StoppedInv
    <3>2. PICK r \in NextLine(c) \cup NextContent(c) :
            /\ file'[c] = r
            /\ \/ r \in Waiting /\ mq'[c] = Append(mq[c], "RECEIVE")
               \/ r = "whole" /\ mq'[c] = Append(mq[c], "COMPLETE")
               \/ r = "content" /\ mq'[c] = mq[c]
      <4>1. PICK r \in NextLine(c) \cup NextContent(c) :
              /\ file' = [file EXCEPT ![c] = r]
              /\ \/ r \in Waiting /\ PostMessage(c, "RECEIVE")
                 \/ r = "whole" /\ PostMessage(c, "COMPLETE")
                 \/ r = "content" /\ UNCHANGED mq
        BY <1>2, <2>5 DEF Receive
      <4>2. file'[c] = r
        BY <4>1 DEF TypeOK
      <4>3. \A m : PostMessage(c, m) => mq'[c] = Append(mq[c], m)
        BY DEF PostMessage, TypeOK
      <4> QED
        BY <4>1, <4>2, <4>3
    <3>3. \A m \in {"RECEIVE", "COMPLETE"} :
            /\ \A x : In(x, Append(mq[c], m)) <=> In(x, mq[c]) \/ x = m
            /\ \A x : m # x /\ AtMostOnce(x, mq[c]) => AtMostOnce(x, Append(mq[c], m))
            /\ \A x : ~In(x, mq[c]) => AtMostOnce(x, Append(mq[c], m))
      BY <1>1, InAppend DEF Messages
    <3>4. LifeInv(c)'
      BY <1>1, <2>1, <2>5, <3>2, <3>3 DEF ConnInv, LifeInv
    <3>5. CompleteFirst(mq'[c])
      <4>1. ~In("CLOSE", mq'[c])
        BY <2>2, <3>2, <3>3
      <4> QED
        BY <4>1 DEF CompleteFirst, In
    <3>6. ASSUME msg[c] # "exited", c \notin beating
          PROVE  HandOver(c)'
      <4>1. HandOver(c)
        BY <1>1, <3>6 DEF ConnInv
      <4>2. CASE r \in Waiting
        <5>1. file[c] \in {"idle", "head"} /\ r \in {"head", "tail", "info"}
          BY <3>2, <3>6, <4>2 DEF NextLine, NextContent, Waiting
        <5>2. ~In("COMPLETE", mq[c])
          BY <4>1, <5>1 DEF HandOver
        <5>3. r = "info" => ~In("RECEIVE", mq[c])
          BY <3>2, <4>1, <5>1 DEF HandOver, NextLine, NextContent
        <5>4. mq'[c] = Append(mq[c], "RECEIVE")
          BY <3>2, <4>2 DEF Waiting
        <5> QED
          BY <3>2, <3>3, <5>1, <5>2, <5>3, <5>4 DEF HandOver
      <4>3. CASE r \in {"content", "whole"}
        <5>1. file[c] \in {"ready", "content"}
          BY <3>2, <4>3 DEF NextLine, NextContent
        <5>2. ~In("COMPLETE", mq[c]) /\ ~In("RECEIVE", mq[c])
          BY <4>1, <5>1 DEF HandOver
        <5>3. mq'[c] = IF r = "whole" THEN Append(mq[c], "COMPLETE") ELSE mq[c]
          BY <3>2, <4>3 DEF Waiting
        <5> QED
          BY <2>1, <2>2, <2>5, <3>2, <3>3, <3>5, <4>3, <5>2, <5>3 DEF HandOver
      <4> QED
        BY <3>2, <4>2, <4>3 DEF NextLine, NextContent, Waiting
    <3> QED
      BY <2>1, <2>3, <3>1, <3>4, <3>6, OthersSame DEF ConnInv
  <2> QED
    BY <1>2, <2>4, <2>5 DEF Receive
<1>3. CASE ReceiveError(c)
  <2>1. /\ UNCHANGED <<beating, net, table, accpc, acc, tcp, sock, rcv, msg, file, lost,
                       idlepc, cur, visit, fresh, agent>>
        /\ io[c] = "reading"
    BY <1>3 DEF ReceiveError, acceptVars, idleVars, agentVars
  <2>2. /\ io'[c] = "ended"
        /\ \A d \in Conns \ {c} : io'[d] = io[d] /\ mq'[d] = mq[d]
        /\ mq'[c] \in {mq[c], Append(mq[c], "CLOSE")}
    BY <1>3 DEF ReceiveError, PostMessage, TypeOK
  <2>3. /\ In("QUIT", mq'[c]) => In("QUIT", mq[c])
        /\ In("COMPLETE", mq[c]) => In("COMPLETE", mq'[c])
        /\ In("COMPLETE", mq'[c]) => In("COMPLETE", mq[c])
        /\ In("RECEIVE", mq'[c]) => In("RECEIVE", mq[c])
        /\ In("COMPLETE", mq[c]) /\ CompleteFirst(mq[c]) => CompleteFirst(mq'[c])
        /\ \A x : x # "CLOSE" /\ AtMostOnce(x, mq[c]) => AtMostOnce(x, mq'[c])
    <3>1. CASE mq'[c] = mq[c]
      BY <3>1
    <3>2. CASE mq'[c] = Append(mq[c], "CLOSE")
      BY <1>1, <3>2, InAppend DEF Messages
    <3> QED
      BY <2>2, <3>1, <3>2
  <2>4. rcv[c] = "none" => mq'[c] = mq[c]
    BY <1>3 DEF ReceiveError
  <2>5. LifeInv(c)'
    BY <1>1, <2>1, <2>2, <2>3, <2>4 DEF ConnInv, LifeInv
  <2>6. (msg[c] = "exited" \/ c \in beating \/ HandOver(c))'
    BY <1>1, <2>1, <2>3 DEF ConnInv, HandOver
  <2>7. StoppedInv(c)'
    BY <1>1, <2>1 DEF ConnInv, StoppedInv
  <2> QED
    BY <2>1, <2>2, <2>5, <2>6, <2>7, OthersSame DEF ConnInv
<1> QED
  BY <1>2, <1>3 DEF IoThread

\* The message thread takes the messages in order; the client is reset by CLOSE.
LEMMA MsgKeeps ==
  ASSUME TypeInv, HandedInv, NEW c \in Conns, MsgThread(c)
  PROVE  HandedInv'
<1> USE DEF TypeInv, agentVars
<1>1. ConnInv(c) /\ mq[c] \in Seq(Messages)
  BY DEF HandedInv, TypeOK
<1>2. /\ UNCHANGED <<beating, net, table, accpc, acc, io, rcv, idlepc, cur, visit, fresh,
                     agent>>
      /\ msg[c] \in {"wait", "close"}
  BY DEF MsgThread, OnReceive, OnComplete, OnClose, ResetClient, OnQuit, acceptVars,
         connVars, idleVars, agentVars
<1>3. rcv[c] \in {"live", "quit"}
  BY <1>1, <1>2 DEF ConnInv, LifeInv, TypeOK
<1>4. \A d \in Conns \ {c} : /\ tcp'[d] = tcp[d] /\ sock'[d] = sock[d]
                             /\ msg'[d] = msg[d] /\ mq'[d] = mq[d] /\ file'[d] = file[d]
  BY DEF MsgThread, OnReceive, OnFileInfo, OnFileStat, OnWrong, OnComplete, OnClose,
         ResetClient, OnQuit, connVars, TypeOK
<1>5. c \in beating \/ HandOver(c)
  BY <1>1, <1>2 DEF ConnInv
<1>6. CASE OnReceive(c)
  <2>1. /\ UNCHANGED <<tcp, msg, lost>> /\ msg[c] = "wait"
        /\ mq[c] # <<>> /\ Head(mq[c]) = "RECEIVE" /\ mq'[c] = Tail(mq[c])
    BY <1>6 DEF OnReceive, TypeOK
  <2>2. \/ file[c] \in {"info", "ready"} /\ file'[c] = "ready" /\ sock'[c] = sock[c]
        \/ file'[c] = file[c] /\ sock'[c] = sock[c] /\ file[c] # "info"
        \/ file'[c] = file[c] /\ sock'[c] = FALSE /\ file[c] # "info"
        \/ file'[c] = file[c] /\ sock'[c] = sock[c] /\ ~tcp[c]
    BY <1>6 DEF OnReceive, OnFileInfo, OnFileStat, OnWrong, TypeOK
  <2>3. /\ \A x : In(x, mq[c]) <=> x = "RECEIVE" \/ In(x, mq'[c])
        /\ \A x : AtMostOnce(x, mq[c]) => AtMostOnce(x, mq'[c])
        /\ AtMostOnce("RECEIVE", mq[c]) => ~In("RECEIVE", mq'[c])
    BY <1>1, <2>1, InTail
  <2>4. LifeInv(c)'
    BY <1>1, <1>2, <1>3, <2>1, <2>2, <2>3 DEF ConnInv, LifeInv
  <2>5. ASSUME c \notin beating
        PROVE  HandOver(c)' /\ file[c] # "whole" /\ file'[c] # "whole"
    <3>1. /\ HandOver(c) /\ file[c] \in {"head", "tail", "info"}
          /\ file[c] = "info" => ~In("RECEIVE", mq'[c])
      BY <1>5, <2>3, <2>5 DEF HandOver
    <3> QED
      BY <2>1, <2>2, <2>3, <3>1 DEF HandOver
  <2>6. StoppedInv(c)'
    BY <1>1, <1>2, <2>1, <2>2, <2>5 DEF ConnInv, StoppedInv
  <2> QED
    BY <1>2, <1>4, <2>1, <2>4, <2>5, <2>6, OthersSame DEF ConnInv
<1>7. CASE OnComplete(c)
  <2>1. /\ UNCHANGED <<tcp, sock, msg, lost>> /\ msg[c] = "wait"
        /\ mq[c] # <<>> /\ Head(mq[c]) = "COMPLETE" /\ mq'[c] = Tail(mq[c])
        /\ file'[c] = "idle"
    BY <1>7 DEF OnComplete, connVars, TypeOK
  <2>2. /\ \A x : In(x, mq[c]) <=> x = "COMPLETE" \/ In(x, mq'[c])
        /\ AtMostOnce("COMPLETE", mq[c]) => ~In("COMPLETE", mq'[c])
    BY <1>1, <2>1, InTail
  <2>3. LifeInv(c)'
    BY <1>1, <1>2, <1>3, <2>1, <2>2 DEF ConnInv, LifeInv
  <2>4. c \in beating \/ HandOver(c)'
    BY <1>5, <2>1, <2>2 DEF HandOver
  <2>5. StoppedInv(c)'
    BY <1>1, <1>2, <2>1 DEF ConnInv, StoppedInv
  <2> QED
    BY <1>2, <1>4, <2>1, <2>3, <2>4, <2>5, OthersSame DEF ConnInv
<1>8. CASE OnClose(c)
  <2>1. /\ UNCHANGED <<tcp, sock, file, lost>> /\ msg[c] = "wait" /\ msg'[c] = "close"
        /\ mq[c] # <<>> /\ Head(mq[c]) = "CLOSE" /\ mq'[c] = Tail(mq[c])
    BY <1>8 DEF OnClose, connVars, TypeOK
  <2>2. /\ \A x : In(x, mq[c]) <=> x = "CLOSE" \/ In(x, mq'[c])
        /\ \A x : AtMostOnce(x, mq[c]) => AtMostOnce(x, mq'[c])
        /\ ~CompleteFirst(mq[c])
    BY <1>1, <2>1, InTail
  <2>3. LifeInv(c)'
    BY <1>1, <1>2, <1>3, <2>1, <2>2 DEF ConnInv, LifeInv
  <2>4. c \in beating \/ HandOver(c)'
    BY <1>5, <2>1, <2>2 DEF HandOver
  <2>5. StoppedInv(c)'
    BY <1>1, <1>2, <2>1 DEF ConnInv, StoppedInv
  <2> QED
    BY <1>2, <1>4, <2>1, <2>3, <2>4, <2>5, OthersSame DEF ConnInv
<1>9. CASE ResetClient(c)
  <2>1. /\ UNCHANGED <<mq, file, lost>> /\ msg[c] = "close" /\ msg'[c] = "wait"
        /\ tcp'[c] = FALSE /\ (sock'[c] => acc = c) /\ (sock'[c] => sock[c])
    BY <1>9 DEF ResetClient, TypeOK
  <2>2. io[c] = "ended" /\ (c \in beating \/ file[c] # "whole")
    BY <1>1, <1>5, <2>1 DEF ConnInv, LifeInv, HandOver
  <2>3. LifeInv(c)'
    BY <1>1, <1>2, <1>3, <2>1, <2>2 DEF ConnInv, LifeInv
  <2>4. c \in beating \/ HandOver(c)'
    BY <1>5, <2>1, <2>2 DEF HandOver
  <2>5. StoppedInv(c)'
    BY <1>1, <1>2, <2>1 DEF ConnInv, StoppedInv
  <2> QED
    BY <1>2, <1>4, <2>1, <2>3, <2>4, <2>5, OthersSame DEF ConnInv
<1>10. CASE OnQuit(c)
  <2>1. /\ UNCHANGED <<tcp, sock, file>> /\ msg[c] = "wait" /\ msg'[c] = "exited"
        /\ mq[c] # <<>> /\ Head(mq[c]) = "QUIT" /\ mq'[c] = <<>>
        /\ lost' = IF file[c] = "whole" /\ agent = "serving" THEN lost \cup {c} ELSE lost
    BY <1>10 DEF OnQuit, connVars, TypeOK
  <2>2. In("QUIT", mq[c])
    BY <1>1, <2>1, InTail
  <2>3. rcv[c] = "quit"
    BY <1>1, <1>3, <2>2 DEF ConnInv, LifeInv
  <2>4. WholeFileIsHandedOver'
    BY <1>1, <1>2, <2>1, <2>3 DEF HandedInv, ConnInv, StoppedInv, WholeFileIsHandedOver
  <2>5. \A m : ~In(m, mq'[c])
    BY <2>1 DEF In
  <2>6. ConnInv(c)'
    BY <1>1, <1>2, <2>1, <2>3, <2>5 DEF ConnInv, LifeInv, StoppedInv
  <2>7. ASSUME NEW d \in Conns \ {c}
        PROVE  ConnInv(d)'
    BY <1>2, <1>4, ConnSame DEF HandedInv
  <2>8. AcceptorInv' /\ SweepInv'
    BY <1>2 DEF HandedInv, AcceptorInv, SweepInv
  <2> QED
    BY <2>4, <2>6, <2>7, <2>8 DEF HandedInv
<1> QED
  BY <1>6, <1>7, <1>8, <1>9, <1>10 DEF MsgThread

\* A step that stops one receiver of the table, or none.
LEMMA StopOne ==
  ASSUME TypeInv, HandedInv, NEW c \in table, StopQueue(c),
         UNCHANGED <<beating, net, accpc, acc, tcp, sock, io, msg, file, lost, agent>>,
         fresh \subseteq fresh',
         ~sock[c] \/ c \in fresh' \/ agent # "serving"
  PROVE  /\ \A d \in Conns : ConnInv(d)'
         /\ AcceptorInv' /\ WholeFileIsHandedOver'
         /\ \A d \in table' : rcv'[d] = "live"
<1> USE DEF TypeInv, agentVars
<1>1. c \in Conns /\ rcv[c] = "live"
  BY DEF HandedInv, SweepInv, TypeOK
<1>2. /\ table' = table \ {c} /\ rcv'[c] = "quit"
      /\ \A d \in Conns \ {c} : rcv'[d] = rcv[d] /\ mq'[d] = mq[d]
  BY <1>1 DEF StopQueue, SendMessage, TypeOK
<1>3. ConnInv(c)'
  BY <1>1, StopKeeps DEF HandedInv
<1>4. ASSUME NEW d \in Conns \ {c}
      PROVE  ConnInv(d)'
  BY <1>2, ConnSame DEF HandedInv
<1>5. AcceptorInv'
  BY <1>1, <1>2 DEF HandedInv, AcceptorInv
<1>6. WholeFileIsHandedOver'
  BY DEF HandedInv, WholeFileIsHandedOver
<1>7. \A d \in table' : rcv'[d] = "live"
  BY <1>2 DEF HandedInv, SweepInv, TypeOK
<1> QED
  BY <1>3, <1>4, <1>5, <1>6, <1>7

\* Destroying one receiver leaves the other connections alone.
LEMMA DestroyOne ==
  ASSUME TypeInv, HandedInv, NEW c \in Conns, Destroy(c),
         UNCHANGED <<beating, net, table, accpc, acc, msg, mq, file, lost, fresh, agent>>
  PROVE  /\ \A d \in Conns : ConnInv(d)'
         /\ AcceptorInv' /\ WholeFileIsHandedOver'
         /\ \A d \in table' : rcv'[d] = "live"
<1> USE DEF TypeInv, agentVars
<1>1. /\ rcv[c] = "quit" /\ rcv'[c] = "gone"
      /\ acc = c => io'[c] = io[c]
      /\ \A d \in Conns \ {c} : /\ rcv'[d] = rcv[d] /\ tcp'[d] = tcp[d]
                                /\ sock'[d] = sock[d] /\ io'[d] = io[d]
  BY DEF Destroy, TypeOK
<1>2. ConnInv(c)'
  BY DestroyKeeps DEF HandedInv
<1>3. ASSUME NEW d \in Conns \ {c}
      PROVE  ConnInv(d)'
  BY <1>1, ConnSame DEF HandedInv
<1>4. AcceptorInv'
  BY <1>1 DEF HandedInv, AcceptorInv
<1>5. WholeFileIsHandedOver'
  BY DEF HandedInv, WholeFileIsHandedOver
<1>6. \A d \in table' : rcv'[d] = "live"
  BY <1>1 DEF HandedInv, SweepInv, TypeOK
<1> QED
  BY <1>2, <1>3, <1>4, <1>5, <1>6

\* A step that leaves the connections alone.
LEMMA NoneChanged ==
  ASSUME HandedInv, agent' = "serving" => agent = "serving",
         UNCHANGED <<beating, net, table, accpc, acc, rcv, tcp, sock, io, msg, mq, file,
                     lost, fresh>>
  PROVE  /\ \A d \in Conns : ConnInv(d)'
         /\ AcceptorInv' /\ WholeFileIsHandedOver'
         /\ \A d \in table' : rcv'[d] = "live"
<1>1. \A d \in Conns : ConnInv(d)'
  BY ConnSame DEF HandedInv
<1> QED
  BY <1>1 DEF HandedInv, AcceptorInv, SweepInv, WholeFileIsHandedOver

\* thread_idle stops a receiver only if its client is reset or its socket closed; then
\* no whole file waits in its queue, but for the receiver being accepted.
LEMMA IdleKeeps ==
  ASSUME TypeInv, HandedInv, Idle
  PROVE  HandedInv'
<1> USE DEF TypeInv, agentVars
<1>1. CASE SleepEnds \/ LockIdle \/ SweepEnds
  <2>1. UNCHANGED <<beating, net, table, accpc, acc, rcv, tcp, sock, io, msg, mq, file,
                    lost, fresh, agent>>
    BY <1>1 DEF SleepEnds, LockIdle, SweepEnds, acceptVars, connVars, queueVars
  <2>2. SweepInv'
    BY <1>1, <2>1 DEF SleepEnds, LockIdle, SweepEnds, HandedInv, SweepInv
  <2> QED
    BY <2>1, <2>2, NoneChanged DEF HandedInv
<1>2. ASSUME NEW c \in Conns, TestUnique(c)
      PROVE  HandedInv'
  <2>1. /\ UNCHANGED <<beating, net, accpc, acc, tcp, sock, io, msg, file, lost, agent>>
        /\ c \in table /\ c \in visit /\ cur' = c /\ visit' = visit \ {c}
        /\ idlepc = "unique" /\ idlepc' \in {"open", "join"}
    BY <1>2 DEF TestUnique, HandedInv, SweepInv, acceptVars, connVars
  <2>2. CASE tcp[c] /\ acc # c
    <3>1. UNCHANGED <<table, rcv, mq, fresh>> /\ idlepc' = "open"
      BY <1>2, <2>2 DEF TestUnique
    <3>2. SweepInv'
      BY <2>1, <3>1 DEF HandedInv, SweepInv
    <3> QED
      BY <2>1, <3>1, <3>2, NoneChanged DEF HandedInv
  <2>3. CASE ~(tcp[c] /\ acc # c)
    <3>1. /\ idlepc' = "join" /\ StopQueue(c) /\ fresh \subseteq fresh'
          /\ acc = c => c \in fresh'
      BY <1>2, <2>3 DEF TestUnique
    <3>2. ~sock[c] \/ c \in fresh'
      BY <2>3, <3>1 DEF HandedInv, ConnInv, LifeInv
    <3>3. /\ \A d \in Conns : ConnInv(d)'
          /\ AcceptorInv' /\ WholeFileIsHandedOver'
          /\ \A d \in table' : rcv'[d] = "live"
      BY <2>1, <3>1, <3>2, StopOne
    <3>4. SweepInv'
      BY <2>1, <3>1, <3>3 DEF HandedInv, SweepInv, StopQueue
    <3> QED
      BY <3>3, <3>4 DEF HandedInv
  <2> QED
    BY <2>2, <2>3
<1>3. CASE TestOpen
  <2>1. /\ UNCHANGED <<beating, net, accpc, acc, tcp, sock, io, msg, file, lost, cur, visit,
                       fresh, agent>>
        /\ idlepc = "open" /\ cur \in table /\ cur \notin visit
    BY <1>3 DEF TestOpen, HandedInv, SweepInv, acceptVars, connVars
  <2>2. CASE UNCHANGED <<table, rcv, mq>> /\ idlepc' \in {"open", "unique"}
    <3>1. SweepInv'
      BY <2>1, <2>2 DEF HandedInv, SweepInv
    <3> QED
      BY <2>1, <2>2, <3>1, NoneChanged DEF HandedInv
  <2>3. CASE ~sock[cur] /\ StopQueue(cur) /\ idlepc' = "join"
    <3>1. /\ \A d \in Conns : ConnInv(d)'
          /\ AcceptorInv' /\ WholeFileIsHandedOver'
          /\ \A d \in table' : rcv'[d] = "live"
      BY <2>1, <2>3, StopOne
    <3>2. SweepInv'
      BY <2>1, <2>3, <3>1 DEF HandedInv, SweepInv, StopQueue
    <3> QED
      BY <3>1, <3>2 DEF HandedInv
  <2> QED
    BY <1>3, <2>2, <2>3 DEF TestOpen
<1>4. CASE JoinIdle
  <2>1. /\ UNCHANGED <<beating, net, table, accpc, acc, msg, mq, file, lost, cur, visit,
                       fresh, agent>>
        /\ idlepc = "join" /\ idlepc' = "unique" /\ Destroy(cur)
    BY <1>4 DEF JoinIdle, acceptVars, queueVars
  <2>2. cur \in Conns
    BY <2>1 DEF HandedInv, SweepInv
  <2>3. /\ \A d \in Conns : ConnInv(d)'
        /\ AcceptorInv' /\ WholeFileIsHandedOver'
        /\ \A d \in table' : rcv'[d] = "live"
    BY <2>1, <2>2, DestroyOne
  <2>4. SweepInv'
    BY <2>1, <2>3 DEF HandedInv, SweepInv
  <2> QED
    BY <2>3, <2>4 DEF HandedInv
<1> QED
  BY <1>1, <1>2, <1>3, <1>4 DEF Idle

\* Once the service stops, files that are not handed over are no longer promised.
LEMMA StoppingKeeps ==
  ASSUME TypeInv, HandedInv, Interrupt \/ Stopping
  PROVE  HandedInv'
<1> USE DEF TypeInv, agentVars
<1>1. CASE Interrupt \/ Interrupted \/ FreeInterrupted \/ Cleared
  <2>1. /\ UNCHANGED <<beating, net, table, accpc, acc, rcv, tcp, sock, io, msg, mq, file,
                       lost, cur, visit, fresh>>
        /\ agent' # "serving"
        /\ \/ idlepc = "sleep" /\ idlepc' = "ended"
           \/ /\ idlepc' = idlepc
              /\ agent' \in {"autofree", "clear"} => agent \in {"autofree", "clear"}
    BY <1>1 DEF Interrupt, Interrupted, FreeInterrupted, Cleared, acceptVars, connVars,
                queueVars, idleVars
  <2>2. SweepInv'
    BY <2>1 DEF HandedInv, SweepInv
  <2> QED
    BY <2>1, <2>2, NoneChanged DEF HandedInv
<1>2. ASSUME NEW c \in Conns, ClearOne(c)
      PROVE  HandedInv'
  <2>1. /\ UNCHANGED <<beating, net, accpc, acc, tcp, sock, io, msg, file, lost, idlepc,
                       cur, visit, fresh, agent>>
        /\ agent = "clear" /\ c \in table /\ StopQueue(c)
    BY <1>2 DEF ClearOne, acceptVars, connVars, idleVars, agentVars
  <2>2. /\ \A d \in Conns : ConnInv(d)'
        /\ AcceptorInv' /\ WholeFileIsHandedOver'
        /\ \A d \in table' : rcv'[d] = "live"
    BY <2>1, StopOne
  <2>3. idlepc = "ended" /\ visit = {}
    BY <2>1 DEF HandedInv, SweepInv
  <2>4. SweepInv'
    BY <2>1, <2>2, <2>3 DEF SweepInv
  <2> QED
    BY <2>2, <2>4 DEF HandedInv
<1>3. ASSUME NEW c \in Conns, JoinMain(c)
      PROVE  HandedInv'
  <2>1. /\ UNCHANGED <<beating, net, table, accpc, acc, msg, mq, file, lost, idlepc, cur,
                       visit, fresh, agent>>
        /\ Destroy(c)
    BY <1>3 DEF JoinMain, acceptVars, queueVars, idleVars, agentVars
  <2>2. /\ \A d \in Conns : ConnInv(d)'
        /\ AcceptorInv' /\ WholeFileIsHandedOver'
        /\ \A d \in table' : rcv'[d] = "live"
    BY <2>1, DestroyOne
  <2>3. SweepInv'
    BY <2>1, <2>2 DEF HandedInv, SweepInv
  <2> QED
    BY <2>2, <2>3 DEF HandedInv
<1> QED
  BY <1>1, <1>2, <1>3 DEF Stopping

\* Every step keeps the invariant.
LEMMA HandedNext ==
  ASSUME TypeInv, HandedInv, [Next]_vars
  PROVE  HandedInv'
<1>1. CASE UNCHANGED vars \/ FreeEnds
  <2>1. UNCHANGED <<beating, net, table, accpc, acc, rcv, tcp, sock, io, msg, mq, file,
                    lost, idlepc, cur, visit, fresh, agent>>
    BY <1>1 DEF vars, FreeEnds, acceptVars, connVars, queueVars, idleVars, agentVars
  <2>2. SweepInv'
    BY <2>1 DEF HandedInv, SweepInv
  <2> QED
    BY <2>1, <2>2, NoneChanged DEF HandedInv
<1> QED
  BY <1>1, ClientKeeps, AcceptorKeeps, IoKeeps, MsgKeeps, IdleKeeps, StoppingKeeps DEF Next

\* HandedInv, with the types, is inductive.
LEMMA HandedInvHolds == Spec => [](TypeInv /\ HandedInv)
BY TypeInit, TypeNext, HandedInit, HandedNext, PTL DEF Spec

\* A file that was received whole reaches the writer before its receiver is
\* erased, though QUIT overtakes what is queued and RECEIVE is posted for every
\* read: only a receiver erased while its client was still being accepted, and one
\* whose client sends heartbeats, can lose one.
THEOREM WholeFilesAreHandedOver == Spec => []WholeFileIsHandedOver
<1>1. HandedInv => WholeFileIsHandedOver
  BY DEF HandedInv
<1> QED
  BY <1>1, HandedInvHolds, PTL
================================================================================
