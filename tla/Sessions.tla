------------------------------- MODULE Sessions -------------------------------
(***************************************************************************)
(* The table of connections of TransferAgent and the life of a             *)
(* FileReceiver in it: TransferAgent.cpp (network_accept, thread_idle,     *)
(* StopService, thread_autofree), tcpasio.cpp (handle_accept, ~TCPClient), *)
(* FileReceiver.cpp and MessageQueue.cpp (Start, Stop, the priorities).    *)
(*                                                                         *)
(* Threads: the acceptor (the I/O thread of TCPServer), thread_idle,       *)
(* thread_autofree, the main thread in StopService and, per connection,    *)
(* the I/O thread of its TCPClient and the message thread of its           *)
(* FileReceiver.  A connection brings any number of files.  What is read   *)
(* of one is here only told apart as far as network_receive and            *)
(* on_network_receive do; FileReceiver.tla has its content, and takes      *)
(* apart what are single steps here: a read, the test of state_ and the    *)
(* post, and on_receive_complete with the moment in which COMPLETE is      *)
(* written and state_ not yet WAITING.                                     *)
(*                                                                         *)
(* The clients are those of AsciiProtocol.h: a client sends a fileinfo     *)
(* line, waits for READY, sends what it announced, waits for COMPLETE.     *)
(* Some also send filestat lines between two files, as heartbeats.         *)
(***************************************************************************)
EXTENDS Naturals, Sequences

CONSTANTS Conns,    \* connections clients will make
          Senders,  \* those of clients that send files
          Beaters,  \* the sets of clients there may be that send heartbeats
          MaxAhead, \* bound: messages that wait for a receiver when more is read
          NoConn

ASSUME ConnsAssumption ==
  /\ NoConn \notin Conns
  /\ Senders \subseteq Conns
  /\ Beaters \subseteq SUBSET Conns
  /\ MaxAhead \in Nat

VARIABLES
  net,      \* the client's side: "none", "open", "left" (and all it sent was read)
  beating,  \* the clients that send heartbeats
  lock,     \* mtx_filercv_: "free", or the thread that holds it
  table,    \* filercv_
  accpc,    \* where the acceptor is
  acc,      \* the client handle_accept holds a TcpCPtr to
  rcv,      \* the FileReceiver: "none", "live", "quit" (in Stop), "gone"
  tcp,      \* tcpptr_ is set
  sock,     \* the TCPClient's socket is open
  io,       \* the I/O thread of the TCPClient: "none", "reading", "ended"
  msg,      \* where the message thread is
  mq,       \* mq_
  file,     \* what was last read, and with it state_
  idlepc,   \* where thread_idle is
  cur,      \* the receiver thread_idle looks at
  visit,    \* those it has still to look at
  freepc,   \* where thread_autofree is, "any" until that matters
  agent,    \* where the main thread is in StopService
  crashed,
  fresh,    \* history: erased while handle_accept still held the client
  lost      \* history: whose whole files were dropped, not handed over

acceptVars == <<accpc, acc>>
connVars   == <<net, tcp, sock, io>>
queueVars  == <<msg, mq, file, lost>>
idleVars   == <<idlepc, cur, visit, fresh>>
agentVars  == <<freepc, agent>>
vars == <<beating, lock, table, acceptVars, connVars, rcv, queueVars, idleVars,
          agentVars, crashed>>

Messages == {"RECEIVE", "COMPLETE", "CLOSE", "QUIT"}

\* While state_ is WAITING: nothing yet of the next file or a heartbeat, the fileinfo
\* line or, when TCP splits it, its two parts.
Waiting == {"idle", "head", "tail", "info"}

\* While it is READY: still the line, some of the content, its last byte.
Ready == {"ready", "content", "whole"}

TypeOK ==
  /\ net \in [Conns -> {"none", "open", "left"}]
  /\ lock \in {"free", "acceptor", "idle"}
  /\ table \subseteq Conns
  /\ accpc \in {"accept", "lock", "couple", "push", "start", "return"}
  /\ acc \in Conns \cup {NoConn}
  /\ rcv \in [Conns -> {"none", "live", "quit", "gone"}]
  /\ tcp \in [Conns -> BOOLEAN]
  /\ sock \in [Conns -> BOOLEAN]
  /\ io \in [Conns -> {"none", "reading", "ended"}]
  /\ msg \in [Conns -> {"none", "wait", "close", "exited"}]
  /\ mq \in [Conns -> Seq(Messages)]
  /\ beating \subseteq Conns
  /\ file \in [Conns -> Waiting \cup Ready]
  /\ idlepc \in {"sleep", "lock", "unique", "open", "join", "ended"}
  /\ cur \in Conns \cup {NoConn}
  /\ visit \subseteq Conns
  /\ freepc \in {"any", "sleep", "busy", "ended"}
  /\ agent \in {"serving", "interrupt", "autofree", "clear", "stopped"}
  /\ crashed \in BOOLEAN
  /\ fresh \subseteq Conns
  /\ lost \subseteq Conns

Init ==
  /\ net = [c \in Conns |-> "none"]
  /\ lock = "free" /\ table = {}
  /\ accpc = "accept" /\ acc = NoConn
  /\ rcv = [c \in Conns |-> "none"]
  /\ tcp = [c \in Conns |-> FALSE]
  /\ sock = [c \in Conns |-> FALSE]
  /\ io = [c \in Conns |-> "none"]
  /\ msg = [c \in Conns |-> "none"]
  /\ mq = [c \in Conns |-> <<>>]
  /\ beating \in Beaters
  /\ file = [c \in Conns |-> "idle"]
  /\ idlepc = "sleep" /\ cur = NoConn /\ visit = {}
  /\ freepc = "any" /\ agent = "serving" /\ crashed = FALSE
  /\ fresh = {} /\ lost = {}

-----------------------------------------------------------------------------
(* The acceptor: handle_accept, network_accept, CoupleNetwork. *)

\* A client connects and handle_accept starts with a TcpCPtr of its own.
Accept(c) ==
  /\ accpc = "accept"
  /\ net[c] = "none"
  /\ net' = [net EXCEPT ![c] = "open"]
  /\ sock' = [sock EXCEPT ![c] = TRUE]
  /\ acc' = c
  /\ accpc' = "lock"
  /\ UNCHANGED <<beating, lock, table, tcp, io, rcv, queueVars, idleVars, agentVars,
                 crashed>>

LockTable ==
  /\ accpc = "lock"
  /\ lock = "free"
  /\ lock' = "acceptor"
  /\ accpc' = "couple"
  /\ UNCHANGED <<beating, table, acc, connVars, rcv, queueVars, idleVars, agentVars,
                 crashed>>

\* CoupleNetwork: the message queue is started and tcpptr_ set.
Couple ==
  /\ accpc = "couple"
  /\ rcv' = [rcv EXCEPT ![acc] = "live"]
  /\ msg' = [msg EXCEPT ![acc] = "wait"]
  /\ tcp' = [tcp EXCEPT ![acc] = TRUE]
  /\ accpc' = "push"
  /\ UNCHANGED <<beating, lock, table, acc, net, sock, io, mq, file, lost, idleVars,
                 agentVars, crashed>>

\* remote_endpoint() throws when the client has already left, and nothing in the
\* acceptor catches it.
CoupleThrows ==
  /\ accpc = "couple"
  /\ net[acc] = "left"
  /\ crashed' = TRUE
  /\ UNCHANGED <<beating, lock, table, acceptVars, connVars, rcv, queueVars,
                 idleVars, agentVars>>

\* (mutant of CoupleFails) An early return that leaves the mutex locked.
CoupleFailsLocked ==
  /\ accpc = "couple"
  /\ accpc' = "start"
  /\ UNCHANGED <<beating, lock, table, acc, connVars, rcv, queueVars, idleVars,
                 agentVars, crashed>>

\* Start() could not create the queue: the receiver is dropped.
CoupleFails ==
  /\ accpc = "couple"
  /\ lock' = "free"
  /\ accpc' = "start"
  /\ UNCHANGED <<beating, table, acc, connVars, rcv, queueVars, idleVars, agentVars,
                 crashed>>

PushReceiver ==
  /\ accpc = "push"
  /\ table' = table \cup {acc}
  /\ lock' = "free"
  /\ accpc' = "start"
  /\ UNCHANGED <<beating, acc, connVars, rcv, queueVars, idleVars, agentVars,
                 crashed>>

\* client->start()
StartRead ==
  /\ accpc = "start"
  /\ io' = [io EXCEPT ![acc] = "reading"]
  /\ accpc' = "return"
  /\ UNCHANGED <<beating, lock, table, acc, net, tcp, sock, rcv, queueVars,
                 idleVars, agentVars, crashed>>

\* start_accept(), and the TcpCPtr of this handle_accept is released: with no
\* receiver to own it the TCPClient is destroyed.
Return ==
  /\ accpc = "return"
  /\ IF tcp[acc]
       THEN UNCHANGED <<sock, io>>
       ELSE /\ sock' = [sock EXCEPT ![acc] = FALSE]
            /\ io' = [io EXCEPT ![acc] = "ended"]
  /\ acc' = NoConn
  /\ accpc' = "accept"
  /\ UNCHANGED <<beating, lock, table, net, tcp, rcv, queueVars, idleVars,
                 agentVars, crashed>>

-----------------------------------------------------------------------------
(* A connection: its client, its I/O thread and its message thread. *)

Leave(c) ==
  /\ net[c] = "open"
  /\ net' = [net EXCEPT ![c] = "left"]
  /\ UNCHANGED <<beating, lock, table, acceptVars, tcp, sock, io, rcv, queueVars,
                 idleVars, agentVars, crashed>>

\* MessageQueue: PostMessage sends with priority 1, SendMessage with 10, so QUIT
\* goes before everything that was posted.
PostMessage(c, m) == mq' = [mq EXCEPT ![c] = Append(@, m)]
SendMessage(c, m) == mq' = [mq EXCEPT ![c] = <<m>> \o @]

\* What the next read brings.
NextLine(c) ==
  {l \in Waiting : \/ file[c] = "head" /\ l = "tail"
                   \/ file[c] = "idle" /\ l \in {"head", "info"}
                   \/ file[c] = "idle" /\ l = "idle" /\ c \in beating}

NextContent(c) == {u \in {"content", "whole"} : file[c] \in {"ready", "content"}}

\* network_receive: the I/O thread read something and does what state_ asks for, a
\* RECEIVE for every read while it is WAITING, a COMPLETE at the last byte.  The
\* callback is bound to the receiver by its address alone.
Receive(c) ==
  /\ io[c] = "reading"
  /\ net[c] = "open" /\ c \in Senders
  /\ sock[c]
  /\ Len(mq[c]) < MaxAhead
  /\ \/ /\ rcv[c] = "gone"
        /\ crashed' = TRUE
        /\ UNCHANGED <<mq, file>>
     \/ /\ rcv[c] \in {"live", "quit"}
        /\ \E r \in NextLine(c) \cup NextContent(c) :
             /\ file' = [file EXCEPT ![c] = r]
             /\ \/ r \in Waiting /\ PostMessage(c, "RECEIVE")
                \/ r = "whole" /\ PostMessage(c, "COMPLETE")
                \/ r = "content" /\ UNCHANGED mq
        /\ UNCHANGED crashed
  /\ UNCHANGED <<beating, lock, table, acceptVars, connVars, rcv, msg, lost,
                 idleVars, agentVars>>

\* (mutant of ReceiveError) The I/O thread releases the client itself.
ReceiveErrorResets(c) ==
  /\ io[c] = "reading"
  /\ net[c] = "left" \/ ~sock[c]
  /\ io' = [io EXCEPT ![c] = "ended"]
  /\ tcp' = [tcp EXCEPT ![c] = FALSE]
  /\ crashed' = (rcv[c] = "gone")
  /\ UNCHANGED <<beating, lock, table, acceptVars, net, sock, rcv, queueVars,
                 idleVars, agentVars>>

\* The read ended with an error; nothing follows it.
ReceiveError(c) ==
  /\ io[c] = "reading"
  /\ net[c] = "left" \/ ~sock[c]
  /\ io' = [io EXCEPT ![c] = "ended"]
  /\ IF rcv[c] \in {"live", "quit"} THEN PostMessage(c, "CLOSE") ELSE UNCHANGED mq
  /\ crashed' = (rcv[c] = "gone")
  /\ UNCHANGED <<beating, lock, table, acceptVars, net, tcp, sock, rcv, msg, file,
                 lost, idleVars, agentVars>>

\* tcpptr_->Write of a status: it throws, and nothing catches it, when the socket is
\* closed, and perhaps when the client has left.
Write(c) ==
  crashed' \in (IF ~tcp[c] \/ ~sock[c] THEN {TRUE}
               ELSE IF net[c] = "left" THEN BOOLEAN ELSE {FALSE})

\* on_network_receive resolves what was last read, whatever RECEIVE was posted for: a
\* fileinfo line, and the receiver is READY;
OnFileInfo(c) ==
  /\ file[c] \in {"info", "ready"}
  /\ file' = [file EXCEPT ![c] = "ready"]
  /\ Write(c)
  /\ UNCHANGED sock

\* a heartbeat, which is not dealt with;
OnFileStat(c) ==
  /\ file[c] = "idle"
  /\ UNCHANGED <<file, sock, crashed>>

\* or neither: Close().  Without a newline in it, bufrcv_[-1] was overwritten, which
\* may kill the process.
OnWrong(c) ==
  /\ file[c] \in {"head", "tail", "content", "whole"}
  /\ sock' = [sock EXCEPT ![c] = FALSE]
  /\ crashed' \in (IF file[c] = "tail" THEN {FALSE} ELSE BOOLEAN)
  /\ UNCHANGED file

OnReceive(c) ==
  /\ msg[c] = "wait"
  /\ mq[c] # <<>> /\ Head(mq[c]) = "RECEIVE"
  /\ mq' = [mq EXCEPT ![c] = Tail(@)]
  /\ \/ tcp[c] /\ (OnFileInfo(c) \/ OnFileStat(c) \/ OnWrong(c))
     \/ ~tcp[c] /\ crashed' = TRUE /\ UNCHANGED <<file, sock>>
  /\ UNCHANGED <<beating, lock, table, acceptVars, net, tcp, io, rcv, msg, lost,
                 idleVars, agentVars>>

\* on_receive_complete: the writer has the file, and state_ is WAITING again.
OnComplete(c) ==
  /\ msg[c] = "wait"
  /\ mq[c] # <<>> /\ Head(mq[c]) = "COMPLETE"
  /\ mq' = [mq EXCEPT ![c] = Tail(@)]
  /\ file' = [file EXCEPT ![c] = "idle"]
  /\ Write(c)
  /\ UNCHANGED <<beating, lock, table, acceptVars, connVars, rcv, msg, lost,
                 idleVars, agentVars>>

OnClose(c) ==
  /\ msg[c] = "wait"
  /\ mq[c] # <<>> /\ Head(mq[c]) = "CLOSE"
  /\ mq' = [mq EXCEPT ![c] = Tail(@)]
  /\ msg' = [msg EXCEPT ![c] = "close"]
  /\ UNCHANGED <<beating, lock, table, acceptVars, connVars, rcv, file, lost,
                 idleVars, agentVars, crashed>>

\* (mutant of ResetClient) on_network_close only logs.
ResetClientKeeps(c) ==
  /\ msg[c] = "close"
  /\ msg' = [msg EXCEPT ![c] = "wait"]
  /\ UNCHANGED <<beating, lock, table, acceptVars, connVars, rcv, mq, file, lost,
                 idleVars, agentVars, crashed>>

\* on_network_close: tcpptr_.reset(), which closes the socket of a last owner.
ResetClient(c) ==
  /\ msg[c] = "close"
  /\ msg' = [msg EXCEPT ![c] = "wait"]
  /\ tcp' = [tcp EXCEPT ![c] = FALSE]
  /\ sock' = [sock EXCEPT ![c] = @ /\ acc = c]
  /\ UNCHANGED <<beating, lock, table, acceptVars, net, io, rcv, mq, file, lost,
                 idleVars, agentVars, crashed>>

\* The loop of thread_message ends; what is still queued goes with the queue.
OnQuit(c) ==
  /\ msg[c] = "wait"
  /\ mq[c] # <<>> /\ Head(mq[c]) = "QUIT"
  /\ msg' = [msg EXCEPT ![c] = "exited"]
  /\ mq' = [mq EXCEPT ![c] = <<>>]
  /\ lost' = IF file[c] = "whole" /\ agent = "serving" THEN lost \cup {c} ELSE lost
  /\ UNCHANGED <<beating, lock, table, acceptVars, connVars, rcv, file, idleVars,
                 agentVars, crashed>>

-----------------------------------------------------------------------------
(* ~FileReceiver: Stop() and the release of tcpptr_. *)

StopQueue(c) ==
  /\ rcv' = [rcv EXCEPT ![c] = "quit"]
  /\ SendMessage(c, "QUIT")
  /\ table' = table \ {c}

\* join() has returned.  ~TCPClient closes the socket and joins the I/O thread,
\* unless handle_accept still owns the client.
Destroy(c) ==
  /\ rcv[c] = "quit"
  /\ msg[c] = "exited"
  /\ rcv' = [rcv EXCEPT ![c] = "gone"]
  /\ tcp' = [tcp EXCEPT ![c] = FALSE]
  /\ IF acc = c
       THEN UNCHANGED <<sock, io>>
       ELSE /\ sock' = [sock EXCEPT ![c] = FALSE]
            /\ io' = [io EXCEPT ![c] = "ended"]

-----------------------------------------------------------------------------
(* thread_idle *)

\* A sleep that has been interrupted does not end: see Interrupted.
SleepEnds ==
  /\ idlepc = "sleep"
  /\ agent # "interrupt"
  /\ idlepc' = "lock"
  /\ UNCHANGED <<beating, lock, table, acceptVars, connVars, rcv, queueVars, cur,
                 visit, fresh, agentVars, crashed>>

\* (mutant of LockIdle) The sweep also looks at the client being accepted.
LockIdleAccepted ==
  /\ idlepc = "lock"
  /\ lock = "free"
  /\ lock' = "idle"
  /\ visit' = table \cup {acc}
  /\ idlepc' = "unique"
  /\ UNCHANGED <<beating, table, acceptVars, connVars, rcv, queueVars, cur, fresh,
                 agentVars, crashed>>

LockIdle ==
  /\ idlepc = "lock"
  /\ lock = "free"
  /\ lock' = "idle"
  /\ visit' = table
  /\ idlepc' = "unique"
  /\ UNCHANGED <<beating, table, acceptVars, connVars, rcv, queueVars, cur, fresh,
                 agentVars, crashed>>

\* The first half of IsAlive(): tcpptr_.unique()
TestUnique(c) ==
  /\ idlepc = "unique"
  /\ c \in visit
  /\ cur' = c
  /\ visit' = visit \ {c}
  /\ IF tcp[c] /\ acc # c
       THEN /\ idlepc' = "open"
            /\ UNCHANGED <<table, rcv, mq, fresh>>
       ELSE /\ idlepc' = "join"
            /\ fresh' = IF acc = c THEN fresh \cup {c} ELSE fresh
            /\ StopQueue(c)
  /\ UNCHANGED <<beating, lock, acceptVars, connVars, msg, file, lost, agentVars,
                 crashed>>

\* The second half: tcpptr_->IsOpen().  The message thread may have reset
\* tcpptr_ since.
TestOpen ==
  /\ idlepc = "open"
  /\ IF ~tcp[cur]
       THEN crashed' = TRUE /\ UNCHANGED <<idlepc, table, rcv, mq>>
       ELSE /\ UNCHANGED crashed
            /\ IF sock[cur]
                 THEN idlepc' = "unique" /\ UNCHANGED <<table, rcv, mq>>
                 ELSE idlepc' = "join" /\ StopQueue(cur)
  /\ UNCHANGED <<beating, lock, acceptVars, connVars, msg, file, lost, cur, visit,
                 fresh, agentVars>>

\* The erased receiver's destructor ends.
JoinIdle ==
  /\ idlepc = "join"
  /\ Destroy(cur)
  /\ idlepc' = "unique"
  /\ UNCHANGED <<beating, lock, table, acceptVars, net, queueVars, cur, visit,
                 fresh, agentVars, crashed>>

SweepEnds ==
  /\ idlepc = "unique"
  /\ visit = {}
  /\ lock' = "free"
  /\ cur' = NoConn
  /\ idlepc' = "sleep"
  /\ UNCHANGED <<beating, table, acceptVars, connVars, rcv, queueVars, visit, fresh,
                 agentVars, crashed>>

-----------------------------------------------------------------------------
(* StopService *)

Interrupt ==
  /\ agent = "serving"
  /\ agent' = "interrupt"
  /\ UNCHANGED <<beating, lock, table, acceptVars, connVars, rcv, queueVars,
                 idleVars, freepc, crashed>>

\* (mutant of Interrupted) The sleep is not interruptible.
InterruptedJoining ==
  /\ agent = "interrupt"
  /\ idlepc = "join"
  /\ msg[cur] # "exited"
  /\ crashed' = TRUE
  /\ UNCHANGED <<beating, lock, table, acceptVars, connVars, rcv, queueVars,
                 idleVars, agentVars>>

\* thread_idle meets the interruption in sleep_for and ends, or in the join()
\* inside a destructor, which lets no exception out: the process dies.  Then
\* thread_autofree is interrupted, which may be anywhere.
Interrupted ==
  /\ agent = "interrupt"
  /\ \/ /\ idlepc = "sleep"
        /\ idlepc' = "ended" /\ agent' = "autofree"
        /\ freepc' \in {"sleep", "busy"}
        /\ UNCHANGED crashed
     \/ /\ idlepc = "join"
        /\ msg[cur] # "exited"
        /\ crashed' = TRUE
        /\ UNCHANGED <<idlepc, agentVars>>
  /\ UNCHANGED <<beating, lock, table, acceptVars, connVars, rcv, queueVars, cur,
                 visit, fresh>>

\* thread_autofree ends the check of the disks (Storage.tla) it was interrupted in.
FreeEnds ==
  /\ freepc = "busy"
  /\ freepc' = "sleep"
  /\ UNCHANGED <<beating, lock, table, acceptVars, connVars, rcv, queueVars,
                 idleVars, agent, crashed>>

\* The sleep is all of thread_autofree that can be interrupted, and the main thread
\* joins it.
FreeInterrupted ==
  /\ agent = "autofree"
  /\ freepc = "sleep"
  /\ freepc' = "ended"
  /\ agent' = "clear"
  /\ UNCHANGED <<beating, lock, table, acceptVars, connVars, rcv, queueVars,
                 idleVars, crashed>>

\* filercv_.clear(), one receiver after the other, without the lock.
ClearOne(c) ==
  /\ agent = "clear"
  /\ \A d \in Conns : rcv[d] # "quit"
  /\ c \in table
  /\ StopQueue(c)
  /\ UNCHANGED <<beating, lock, acceptVars, connVars, msg, file, lost, idleVars,
                 agentVars, crashed>>

JoinMain(c) ==
  /\ agent = "clear"
  /\ Destroy(c)
  /\ UNCHANGED <<beating, lock, table, acceptVars, net, queueVars, idleVars,
                 agentVars, crashed>>

Cleared ==
  /\ agent = "clear"
  /\ table = {}
  /\ \A c \in Conns : rcv[c] # "quit"
  /\ agent' = "stopped"
  /\ UNCHANGED <<beating, lock, table, acceptVars, connVars, rcv, queueVars,
                 idleVars, freepc, crashed>>

-----------------------------------------------------------------------------

Acceptor ==
  \/ LockTable
  \/ Couple
  \/ CoupleThrows
  \/ CoupleFails
  \/ PushReceiver
  \/ StartRead
  \/ Return

IoThread(c) == Receive(c) \/ ReceiveError(c)
MsgThread(c) ==
  \/ OnReceive(c)
  \/ OnComplete(c)
  \/ OnClose(c)
  \/ ResetClient(c)
  \/ OnQuit(c)

Idle ==
  \/ SleepEnds
  \/ LockIdle
  \/ \E c \in Conns : TestUnique(c)
  \/ TestOpen
  \/ JoinIdle
  \/ SweepEnds

Stopping ==
  \/ Interrupted
  \/ FreeInterrupted
  \/ \E c \in Conns : ClearOne(c) \/ JoinMain(c)
  \/ Cleared

Next ==
  /\ ~crashed
  /\ \/ \E c \in Conns : Accept(c) \/ Leave(c) \/ IoThread(c) \/ MsgThread(c)
     \/ Acceptor
     \/ Idle
     \/ FreeEnds
     \/ Interrupt
     \/ Stopping

Spec == Init /\ [][Next]_vars

\* Every thread of the server runs, and a check of the disks ends.  No client need
\* connect, send or leave, and nothing stops the service.
Fairness ==
  /\ WF_vars(~crashed /\ Acceptor)
  /\ WF_vars(~crashed /\ Idle)
  /\ WF_vars(~crashed /\ Stopping)
  /\ WF_vars(~crashed /\ FreeEnds)
  /\ \A c \in Conns : WF_vars(~crashed /\ ReceiveError(c))
  /\ \A c \in Conns : WF_vars(~crashed /\ MsgThread(c))

FairSpec == Spec /\ Fairness

-----------------------------------------------------------------------------
(* Properties. *)

\* A file that was received whole reaches the writer, though QUIT overtakes what is
\* queued and a sweep may come at any time: only a receiver erased while its client
\* was still being accepted can lose one, and one whose client sends heartbeats.
\* There a second RECEIVE may close the connection over content while COMPLETE waits
\* behind it, and the sweep then drops a whole file.
WholeFileIsHandedOver == lost \subseteq fresh \cup beating

\* Whoever holds the table's mutex gives it back, though thread_idle joins a
\* message thread under it.
LockIsReleased == lock # "free" ~> (lock = "free" \/ crashed)

\* A client that has left is erased from the table.
LeftIsErased ==
  \A c \in Conns :
    net[c] = "left" /\ c \in table ~> (c \notin table \/ agent # "serving" \/ crashed)

\* StopService returns.
StopEnds == agent = "interrupt" ~> (agent = "stopped" \/ crashed)
================================================================================
