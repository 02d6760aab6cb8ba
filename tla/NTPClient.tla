------------------------------- MODULE NTPClient -------------------------------
(***************************************************************************)
(* src/src/NTPClient.{h,cpp}: the thread that asks an NTP server once a    *)
(* period how far the local clock is off, and sets it.                     *)
(*                                                                         *)
(* Time.  No clock is kept, only differences: what is left of the sleep or *)
(* of select() (left), the age of a message on its way out (out) and back  *)
(* (back), and the error of the local clock (err).  Delays are counted in  *)
(* ticks, err and offset_ in half ticks, so that the mean of two delays is *)
(* a whole number.  Steps of the thread take no time.                      *)
(*                                                                         *)
(* A message carries err as it was when it was sent, which is what T1      *)
(* tells of it: with sending at s and the answer read at r,                *)
(*   T1 = s + e1, T2 = T3 = s + out, T4 = s + out + back + e2.             *)
(* Of an answer to an earlier request e1 and e2 may differ, and their mean *)
(* is taken down to the half tick.                                         *)
(*                                                                         *)
(* Left out: SetHost and SetSyncLimit, which nothing calls; the bytes of   *)
(* the packet that no decision depends on.                                 *)
(***************************************************************************)
EXTENDS Integers, Sequences

CONSTANTS Period,     \* sleep between two cycles (a minute), in ticks
          Timeout,    \* block_time of select (10 seconds), in ticks
          SyncLimit,  \* tSync_, in half ticks
          MaxDelay,   \* bound on out + back, beyond which a message is lost
          MaxLate,    \* bound on the answers that come when none, or another, is read
          Drift       \* bound on |err| that drifting alone reaches

ASSUME TimesAssumption ==
  /\ Period \in Nat \ {0} /\ Timeout \in Nat \ {0}
  /\ SyncLimit \in Nat \ {0}
  /\ MaxDelay \in Nat /\ MaxLate \in Nat /\ Drift \in Nat

VARIABLES
  pc,       \* where thread_body is
  left,     \* what is left of its sleep or its select
  sock,     \* sock_ >= 0
  net,      \* messages on their way, [is, out, back, err, own]
  rbuf,     \* answers in the receive buffer of the socket
  late,     \* how many answers came late
  pack,     \* the answer just read
  offset,   \* offset_
  valid,    \* valid_
  nfail,    \* nfail_
  err,      \* local clock minus true time
  stop,     \* ~NTPClient: "no", "interrupt", "done"
  missed,   \* history: cycles without an answer since the last one
  skipped   \* history: was one of them given up before it could ask?

thread  == <<pc, left>>
link    == <<sock, net, rbuf, late>>
result  == <<offset, valid, nfail>>
hist == <<missed, skipped>>
vars == <<thread, link, pack, result, err, stop, hist>>

FailLimit == 5
Bump(n) == IF n <= FailLimit THEN n + 1 ELSE n      \* bound of the counters
Abs(n) == IF n < 0 THEN -n ELSE n
Kinds(K) == [is : K, out : Nat, back : Nat, err : Int, own : BOOLEAN]
\* A request, and own tells whether it is the last one that was sent.
Request == [is |-> "request", out |-> 0, back |-> 0, err |-> err, own |-> TRUE]
NoAnswer == [is |-> "answer", out |-> 0, back |-> 0, err |-> 0, own |-> FALSE]

TypeOK ==
  /\ pc \in {"sleep", "connect", "send", "select", "compute", "sync"}
  /\ left \in 0 .. (IF Period > Timeout THEN Period ELSE Timeout)
  /\ sock \in BOOLEAN
  /\ \A m \in net : m \in Kinds({"request", "answer"})
  /\ rbuf \in Seq(Kinds({"answer"}))
  /\ late \in Nat
  /\ pack \in Kinds({"answer"})
  /\ offset \in Int
  /\ valid \in BOOLEAN
  /\ nfail \in 0 .. FailLimit + 1
  /\ err \in Int
  /\ stop \in {"no", "interrupt", "done"}
  /\ missed \in 0 .. FailLimit + 1
  /\ skipped \in BOOLEAN

Init ==
  /\ pc = "sleep" /\ left = Period
  /\ sock = FALSE /\ net = {} /\ rbuf = <<>> /\ late = 0
  /\ pack = NoAnswer
  /\ offset = 0 /\ valid = FALSE /\ nfail = 0
  /\ err \in -Drift .. Drift
  /\ stop = "no"
  /\ missed = 0 /\ skipped = FALSE

-----------------------------------------------------------------------------
(* thread_body and get_time. *)

\* Mutant: the rest of the select is slept, too.
GoToSleepLonger == pc' = "sleep" /\ left' = Period + left

GoToSleep == pc' = "sleep" /\ left' = Period

SleepEnds ==
  /\ pc = "sleep" /\ left = 0
  /\ stop = "no"
  /\ pc' = "connect"
  /\ UNCHANGED <<left, link, pack, result, err, stop, hist>>

\* The socket is opened again if an error has closed it.
Connect ==
  /\ pc = "connect"
  /\ sock' = TRUE
  /\ pc' = "send"
  /\ UNCHANGED <<left, net, rbuf, late, pack, result, err, stop, hist>>

\* getaddrinfo or socket failed: "continue", and nothing is counted in nfail_.
ConnectFails ==
  /\ pc = "connect" /\ ~sock
  /\ GoToSleep
  /\ missed' = Bump(missed) /\ skipped' = TRUE
  /\ UNCHANGED <<link, pack, result, err, stop>>

\* construct_packet takes T1, sendto.  The socket stays the same, and with it what
\* is still under way, or has come in, of earlier requests.
OfEarlier(m) == [m EXCEPT !.own = FALSE]
Send ==
  /\ pc = "send"
  /\ net' = {OfEarlier(m) : m \in net} \cup {Request}
  /\ rbuf' = [i \in DOMAIN rbuf |-> OfEarlier(rbuf[i])]
  /\ pc' = "select" /\ left' = Timeout
  /\ UNCHANGED <<sock, late, pack, result, err, stop, hist>>

\* Mutant: the failures are not counted.
CycleFailedUncounted ==
  /\ missed' = Bump(missed)
  /\ GoToSleep
  /\ UNCHANGED <<offset, valid, nfail, pack, err, stop, skipped>>

\* get_time returned 0: the failure is counted, the fifth ends the validity.
CycleFailed ==
  /\ nfail' = Bump(nfail)
  /\ valid' = (valid /\ nfail' < FailLimit)
  /\ missed' = Bump(missed)
  /\ GoToSleep
  /\ UNCHANGED <<offset, pack, err, stop, skipped>>

CloseSocket == sock' = FALSE /\ rbuf' = <<>> /\ net' = {} /\ late' = late

SendFails ==
  /\ pc = "send"
  /\ CloseSocket
  /\ CycleFailed

\* select: mutant, it blocks until there is something to read.
SelectBlocks ==
  /\ pc = "select" /\ left = 0
  /\ rbuf # <<>>
  /\ UNCHANGED link
  /\ CycleFailed

\* select: nothing to read within block_time.
SelectTimesOut ==
  /\ pc = "select" /\ left = 0
  /\ rbuf = <<>>
  /\ UNCHANGED link
  /\ CycleFailed

\* recvfrom takes the oldest datagram of the socket, whatever request it answers.
Receive ==
  /\ pc = "select" /\ rbuf # <<>>
  /\ pack' = Head(rbuf) /\ rbuf' = Tail(rbuf)
  /\ valid' = TRUE /\ nfail' = 0
  /\ missed' = 0 /\ skipped' = FALSE
  /\ pc' = "compute"
  /\ UNCHANGED <<left, sock, net, late, offset, err, stop>>

ReceiveFails ==
  /\ pc = "select" /\ rbuf # <<>>
  /\ CloseSocket
  /\ CycleFailed

\* ((T2 - T1) + (T3 - T4)) * 0.5, with T4 taken when the answer is read.
ComputeOffset ==
  /\ pc = "compute"
  /\ offset' = (2 * (pack.out - pack.back) - pack.err - err) \div 2
  /\ pc' = "sync"
  /\ UNCHANGED <<left, link, pack, valid, nfail, err, stop, hist>>

\* Mutant: the offset is found and the clock is never set.
SynchClockNever ==
  /\ pc = "sync"
  /\ GoToSleep
  /\ pack' = NoAnswer
  /\ UNCHANGED <<link, result, err, stop, hist>>

\* SynchClock, with autoSync_ as TransferAgent sets it.
SynchClock ==
  /\ pc = "sync"
  /\ IF Abs(offset) >= SyncLimit /\ valid
       THEN err' = err + offset /\ valid' = FALSE
       ELSE UNCHANGED <<err, valid>>
  /\ GoToSleep
  /\ pack' = NoAnswer                      \* nothing reads it before the next recvfrom
  /\ UNCHANGED <<link, offset, nfail, stop, hist>>

-----------------------------------------------------------------------------
(* The world: time, the network and the server, the local clock. *)

Older(m) == IF m.is = "request" THEN [m EXCEPT !.out = @ + 1]
                                ELSE [m EXCEPT !.back = @ + 1]

\* A tick passes while the thread waits.  An answer in the buffer goes on
\* ageing: T4 has not been taken.  What is too old to arrive is lost.
Tick ==
  /\ stop # "done"
  /\ pc \in {"sleep", "select"} /\ left > 0
  /\ pc = "select" => rbuf = <<>>
  /\ left' = left - 1
  /\ net' = {Older(m) : m \in {n \in net : n.out + n.back < MaxDelay}}
  /\ rbuf' = [i \in DOMAIN rbuf |-> Older(rbuf[i])]
  /\ UNCHANGED <<pc, sock, late, pack, result, err, stop, hist>>

ServerAnswers ==
  \E m \in net :
    /\ m.is = "request"
    /\ net' = (net \ {m}) \cup {[m EXCEPT !.is = "answer"]}
    /\ UNCHANGED <<thread, sock, rbuf, late, pack, result, err, stop, hist>>

\* In time is what comes to a select that waits for it and finds nothing else.
InTime(m) == m.own /\ pc = "select" /\ rbuf = <<>>

Arrive ==
  \E m \in net :
    /\ m.is = "answer"
    /\ IF InTime(m) THEN late' = late ELSE late < MaxLate /\ late' = late + 1
    /\ net' = net \ {m}
    /\ rbuf' = Append(rbuf, m)
    /\ UNCHANGED <<thread, sock, pack, result, err, stop, hist>>

\* The local clock gains or loses during the sleep.
ClockDrifts ==
  /\ pc = "sleep" /\ left = Period
  /\ \E e \in {err - 1, err + 1} : Abs(e) <= Drift /\ err' = e
  /\ UNCHANGED <<thread, link, pack, result, stop, hist>>

-----------------------------------------------------------------------------
(* ~NTPClient; sleep_for is the only interruption point of the thread. *)

Interrupt ==
  /\ stop = "no"
  /\ stop' = "interrupt"
  /\ UNCHANGED <<thread, link, pack, result, err, hist>>

Joined ==
  /\ stop = "interrupt"
  /\ pc = "sleep"
  /\ stop' = "done"
  /\ CloseSocket
  /\ UNCHANGED <<thread, pack, result, err, hist>>

-----------------------------------------------------------------------------

Thread ==
  \/ SleepEnds
  \/ Connect
  \/ ConnectFails
  \/ Send
  \/ SendFails
  \/ SelectTimesOut
  \/ Receive
  \/ ReceiveFails
  \/ ComputeOffset
  \/ SynchClock

Next ==
  \/ stop # "done" /\ (Thread \/ Tick \/ ServerAnswers \/ Arrive \/ ClockDrifts)
  \/ Interrupt
  \/ Joined

Spec == Init /\ [][Next]_vars

\* The thread runs, time passes and a destruction that has begun goes on.  The
\* network owes nothing.
Fairness ==
  /\ WF_vars(stop # "done" /\ (Thread \/ Tick))
  /\ WF_vars(Joined)

FairSpec == Spec /\ Fairness

-----------------------------------------------------------------------------
(* Properties. *)

\* After a cycle that got the answer to its own request the local clock is within
\* the limit and one way of the round trip of the true time, however wrong it was
\* before: T1 .. T4 belong to one exchange (the formula of NTPClient.h:31-34).  An
\* answer to an earlier request is taken as well and can set the clock wrong, by
\* half of a cycle; the next cycle that gets its own answer puts it right.
AnsweredIsAccurate ==
  [][pc = "sync" /\ pc' = "sleep" /\ pack.own => Abs(err') < SyncLimit + Timeout]_vars

\* An offset of which five cycles in a row failed to get another is no longer valid,
\* and one answer makes it valid again ("the offset is valid for 5 cycles",
\* NTPClient.cpp:129).  The code does not do so if getaddrinfo or socket failed in
\* one of them: those cycles are not counted, and the offset stays valid.
FailuresInvalidate == valid /\ ~skipped => missed < FailLimit

\* ~NTPClient returns, though its thread blocks in select on a server that may
\* never answer.
DestructionEnds == stop = "interrupt" ~> stop = "done"
================================================================================
