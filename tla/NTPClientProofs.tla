---------------------------- MODULE NTPClientProofs ----------------------------
(***************************************************************************)
(* Proofs about NTPClient, for any times: its variables keep their types,  *)
(* five cycles in a row that asked and got no answer end the validity of   *)
(* an offset, and a cycle that got the answer to its own request leaves    *)
(* the clock accurate, whatever else the network brings.                   *)
(*                                                                         *)
(* The argument of the last: while the thread waits, the age of its own    *)
(* request or of the answer to it is the time spent in select, and the     *)
(* clock does not move meanwhile, so that the four times belong to one     *)
(* exchange.  Nothing of the kind holds of what is left of earlier ones.   *)
(***************************************************************************)
EXTENDS NTPClient, SequenceTheorems, TLAPS

Answers == Kinds({"answer"})
Messages == Kinds({"request", "answer"})

\* A message on its way and an answer are told apart by their kind alone.
LEMMA MessageFacts ==
  /\ NoAnswer \in Answers
  /\ Answers \subseteq Messages
  /\ \A m \in Messages : m.is = "answer" => m \in Answers
  /\ \A m \in Messages : m.is = "request" => [m EXCEPT !.is = "answer"] \in Answers
  /\ \A m \in Messages : Older(m) \in Messages /\ Older(m).is = m.is
  /\ \A m \in Answers : Older(m) \in Answers
  /\ \A m \in Messages : OfEarlier(m) \in Messages
  /\ \A m \in Answers : OfEarlier(m) \in Answers
<1> USE DEF Answers, Messages, Kinds
<1>1. NoAnswer \in Answers /\ Answers \subseteq Messages
  BY DEF NoAnswer
<1>2. \A m \in Messages : m.is = "answer" => m \in Answers
  OBVIOUS
<1>3. \A m \in Messages : m.is = "request" => [m EXCEPT !.is = "answer"] \in Answers
  OBVIOUS
<1>4. /\ \A m \in Messages : Older(m) \in Messages /\ Older(m).is = m.is
      /\ \A m \in Answers : Older(m) \in Answers
  BY DEF Older
<1>5. /\ \A m \in Messages : OfEarlier(m) \in Messages
      /\ \A m \in Answers : OfEarlier(m) \in Answers
  BY DEF OfEarlier
<1> QED
  BY <1>1, <1>2, <1>3, <1>4, <1>5

\* A request is a message.
LEMMA RequestIsMessage ==
  ASSUME err \in Int
  PROVE  Request \in Messages
BY DEF Request, Messages, Kinds

\* Changing every answer of a sequence gives a sequence of answers.
LEMMA AnswersKept ==
  ASSUME NEW r \in Seq(Answers), NEW q,
         q = [i \in DOMAIN r |-> Older(r[i])] \/ q = [i \in DOMAIN r |-> OfEarlier(r[i])]
  PROVE  q \in Seq(Answers)
<1>1. /\ Len(r) \in Nat /\ DOMAIN r = 1 .. Len(r)
      /\ \A i \in 1 .. Len(r) : r[i] \in Answers
  BY LenProperties, ElementOfSeq
<1>2. \A i \in 1 .. Len(r) : Older(r[i]) \in Answers /\ OfEarlier(r[i]) \in Answers
  BY <1>1, MessageFacts
<1>3. CASE q = [i \in DOMAIN r |-> Older(r[i])]
  BY <1>1, <1>2, <1>3, IsASeq
<1>4. CASE q = [i \in DOMAIN r |-> OfEarlier(r[i])]
  BY <1>1, <1>2, <1>4, IsASeq
<1> QED
  BY <1>3, <1>4

\* The types hold at the beginning.
LEMMA TypeInit == Init => TypeOK
<1> SUFFICES ASSUME Init PROVE TypeOK
  OBVIOUS
<1>1. rbuf \in Seq(Answers) /\ pack \in Answers
  BY MessageFacts, EmptySeq DEF Init
<1>2. left \in 0 .. (IF Period > Timeout THEN Period ELSE Timeout)
  BY TimesAssumption DEF Init
<1>3. err \in Int
  BY TimesAssumption DEF Init
<1>4. /\ pc \in {"sleep", "connect", "send", "select", "compute", "sync"}
      /\ sock \in BOOLEAN /\ valid \in BOOLEAN /\ skipped \in BOOLEAN
      /\ stop \in {"no", "interrupt", "done"}
  BY DEF Init
<1>5. /\ offset \in Int /\ nfail \in 0 .. FailLimit + 1 /\ missed \in 0 .. FailLimit + 1
      /\ late \in Nat
  BY DEF Init, FailLimit
<1>6. \A m \in net : m \in Messages
  BY DEF Init
<1> QED
  BY <1>1, <1>2, <1>3, <1>4, <1>5, <1>6 DEF TypeOK, Answers, Messages

\* The times the thread waits.
LEMMA LeftFacts ==
  /\ Period \in 0 .. (IF Period > Timeout THEN Period ELSE Timeout)
  /\ Timeout \in 0 .. (IF Period > Timeout THEN Period ELSE Timeout)
BY TimesAssumption

\* The counters stay in their bound.
LEMMA BumpFacts ==
  ASSUME NEW n \in 0 .. FailLimit + 1
  PROVE  /\ Bump(n) \in 0 .. FailLimit + 1
         /\ n < FailLimit => Bump(n) = n + 1
         /\ n >= FailLimit => Bump(n) >= FailLimit
BY DEF Bump, FailLimit

\* Every step keeps the types.
LEMMA TypeNext ==
  ASSUME TypeOK, [Next]_vars
  PROVE  TypeOK'
<1> DEFINE ThreadOK ==
      /\ pc \in {"sleep", "connect", "send", "select", "compute", "sync"}
      /\ left \in 0 .. (IF Period > Timeout THEN Period ELSE Timeout)
<1> DEFINE LinkOK ==
      /\ sock \in BOOLEAN
      /\ \A m \in net : m \in Messages
      /\ rbuf \in Seq(Answers)
      /\ late \in Nat
      /\ pack \in Answers
<1> DEFINE ResultOK ==
      /\ offset \in Int /\ valid \in BOOLEAN
      /\ nfail \in 0 .. FailLimit + 1
      /\ missed \in 0 .. FailLimit + 1 /\ skipped \in BOOLEAN
      /\ err \in Int
      /\ stop \in {"no", "interrupt", "done"}
<1>0. TypeOK <=> ThreadOK /\ LinkOK /\ ResultOK
  BY DEF TypeOK, Answers, Messages
<1>1. TypeOK' <=> ThreadOK' /\ LinkOK' /\ ResultOK'
  BY DEF TypeOK, Answers, Messages
<1>2. ThreadOK'
  BY <1>0, LeftFacts DEF Next, Thread, SleepEnds, Connect, ConnectFails, Send, SendFails,
     SelectTimesOut, Receive, ReceiveFails, ComputeOffset, SynchClock, CycleFailed,
     GoToSleep, Tick, ServerAnswers, Arrive, ClockDrifts, Interrupt, Joined, vars, thread
<1>3. LinkOK'
  <2>0. CASE Connect
    BY <1>0, <2>0 DEF Connect
  <2>1. CASE Send
    <3>1. /\ UNCHANGED <<sock, late, pack>>
          /\ net' = {OfEarlier(m) : m \in net} \cup {Request}
          /\ rbuf' = [i \in DOMAIN rbuf |-> OfEarlier(rbuf[i])]
      BY <2>1 DEF Send
    <3>2. rbuf' \in Seq(Answers)
      BY <1>0, <3>1, AnswersKept
    <3>3. \A m \in net' : m \in Messages
      BY <1>0, <3>1, MessageFacts, RequestIsMessage
    <3> QED
      BY <1>0, <3>1, <3>2, <3>3
  <2>2. CASE CloseSocket /\ pack' = pack
    BY <1>0, <2>2, EmptySeq DEF CloseSocket
  <2>3. CASE Receive
    BY <1>0, <2>3, HeadTailProperties DEF Receive
  <2>4. CASE Tick
    <3>1. /\ UNCHANGED <<sock, late, pack>>
          /\ \A m \in net' : \E n \in net : m = Older(n)
          /\ rbuf' = [i \in DOMAIN rbuf |-> Older(rbuf[i])]
      BY <2>4 DEF Tick
    <3>2. rbuf' \in Seq(Answers)
      BY <1>0, <3>1, AnswersKept
    <3> QED
      BY <1>0, <3>1, <3>2, MessageFacts
  <2>5. CASE ServerAnswers
    BY <1>0, <2>5, MessageFacts DEF ServerAnswers
  <2>6. CASE Arrive
    <3>1. PICK m \in net : m.is = "answer" /\ net' = net \ {m} /\ rbuf' = Append(rbuf, m)
                           /\ UNCHANGED <<sock, pack>>
                           /\ (late' = late \/ late' = late + 1)
      BY <2>6 DEF Arrive
    <3>2. m \in Messages /\ m.is = "answer"
      BY <1>0, <3>1
    <3>3. m \in Answers
      BY <3>2, MessageFacts
    <3>4. rbuf' \in Seq(Answers)
      BY <1>0, <3>1, <3>3, AppendProperties
    <3>5. late' \in Nat
      BY <1>0, <3>1
    <3> QED
      BY <1>0, <3>1, <3>4, <3>5
  <2>7. CASE UNCHANGED link /\ (pack' = pack \/ pack' = NoAnswer)
    BY <1>0, <2>7, MessageFacts DEF link
  <2> QED
    BY <2>0, <2>1, <2>2, <2>3, <2>4, <2>5, <2>6, <2>7 DEF Next, Thread, SleepEnds, ConnectFails,
       SendFails, SelectTimesOut, ReceiveFails, ComputeOffset, SynchClock, CycleFailed,
       ClockDrifts, Interrupt, Joined, vars
<1>4. ResultOK'
  <2>1. CASE CycleFailed
    <3>1. /\ UNCHANGED <<offset, err, stop, skipped>>
          /\ valid' = (valid /\ nfail' < FailLimit)
          /\ nfail' = Bump(nfail) /\ missed' = Bump(missed)
      BY <2>1 DEF CycleFailed
    <3> QED
      BY <1>0, <3>1, BumpFacts
  <2>2. CASE Receive
    <3>1. UNCHANGED <<offset, err, stop>> /\ valid' = TRUE /\ skipped' = FALSE
          /\ nfail' = 0 /\ missed' = 0
      BY <2>2 DEF Receive
    <3>2. 0 \in 0 .. FailLimit + 1
      BY DEF FailLimit
    <3> QED
      BY <1>0, <3>1, <3>2
  <2>3. CASE ComputeOffset
    <3>1. /\ UNCHANGED <<valid, nfail, err, stop, missed, skipped>>
          /\ offset' = (2 * (pack.out - pack.back) - pack.err - err) \div 2
      BY <2>3 DEF ComputeOffset, hist
    <3>2. pack.out \in Int /\ pack.back \in Int /\ pack.err \in Int /\ err \in Int
      BY <1>0 DEF Answers, Kinds
    <3>3. offset' \in Int
      BY <3>1, <3>2
    <3> QED
      BY <1>0, <3>1, <3>3
  <2>4. CASE SynchClock
    <3>1. UNCHANGED <<offset, nfail, stop, missed, skipped>>
      BY <2>4 DEF SynchClock, hist
    <3>2. \/ err' = err + offset /\ valid' = FALSE
          \/ UNCHANGED <<err, valid>>
      BY <2>4 DEF SynchClock
    <3>3. err' \in Int
      BY <1>0, <3>2
    <3>4. valid' \in BOOLEAN
      BY <1>0, <3>2
    <3> QED
      BY <1>0, <3>1, <3>3, <3>4
  <2>5. CASE ClockDrifts
    BY <1>0, <2>5 DEF ClockDrifts, result, hist
  <2>6. CASE Interrupt \/ Joined
    BY <1>0, <2>6 DEF Interrupt, Joined, result, hist
  <2>7. CASE UNCHANGED <<result, err, stop, hist>>
    BY <1>0, <2>7 DEF result, hist
  <2>8. CASE ConnectFails
    BY <1>0, <2>8, BumpFacts DEF ConnectFails, result
  <2> QED
    BY <2>1, <2>2, <2>3, <2>4, <2>5, <2>6, <2>7, <2>8 DEF Next, Thread, SleepEnds, Connect,
       Send, SendFails, SelectTimesOut, ReceiveFails, Tick, ServerAnswers,
       Arrive, vars
<1> QED
  BY <1>1, <1>2, <1>3, <1>4

\* The thread's place, the messages and what was made of them hold what their
\* types say, the counters within their bound.
THEOREM TypeCorrect == Spec => []TypeOK
BY TypeInit, TypeNext, PTL DEF Spec

-----------------------------------------------------------------------------
(* Failures in a row. *)

\* What the thread counts is what was missed, unless a cycle was given up before it
\* asked, and of a valid offset it has counted little.
CountInv == (nfail = missed \/ skipped) /\ (valid => nfail < FailLimit)

\* An offset of which five cycles in a row failed to get another is no longer valid,
\* and one answer makes it valid again, unless getaddrinfo or socket failed in one of
\* them.
THEOREM FiveFailuresInvalidate == Spec => []FailuresInvalidate
<1>1. Init => CountInv
  BY DEF Init, CountInv
<1>2. ASSUME TypeOK, CountInv, [Next]_vars
      PROVE  CountInv'
  <2>1. CASE CycleFailed
    BY <1>2, <2>1 DEF CycleFailed, CountInv
  <2>2. CASE Receive
    BY <2>2 DEF Receive, CountInv, FailLimit
  <2>3. CASE SynchClock
    BY <1>2, <2>3 DEF SynchClock, CountInv, hist
  <2>4. CASE ConnectFails
    BY <1>2, <2>4 DEF ConnectFails, CountInv, result
  <2>5. CASE UNCHANGED <<nfail, valid, hist>>
    BY <1>2, <2>5 DEF CountInv, hist
  <2> QED
    BY <1>2, <2>1, <2>2, <2>3, <2>4, <2>5 DEF Next, Thread, SleepEnds, Connect, Send,
       SendFails, SelectTimesOut, ReceiveFails, ComputeOffset, Tick, ServerAnswers, Arrive,
       ClockDrifts, Interrupt, Joined, vars, result
<1>3. CountInv => FailuresInvalidate
  BY DEF CountInv, FailuresInvalidate
<1> QED
  BY <1>1, <1>2, <1>3, TypeCorrect, PTL DEF Spec

-----------------------------------------------------------------------------
(* One exchange. *)

\* The request of this cycle, or the answer to it: it is as old as the select, and
\* was stamped by the clock as it is now.
OfThisCycle(m, age) == m.own => m.out + m.back = age /\ m.err = err

\* While the thread waits every message of its own is of this cycle, and what it
\* reads then is all it computes with.
ExchangeInv ==
  /\ pc = "select" => /\ left <= Timeout
                      /\ \A m \in net : OfThisCycle(m, Timeout - left)
                      /\ \A i \in DOMAIN rbuf : OfThisCycle(rbuf[i], Timeout - left)
  /\ pc \in {"compute", "sync"} =>
       valid /\ (pack.own => pack.out + pack.back <= Timeout /\ pack.err = err)
  /\ pc = "sync" /\ pack.own => offset = pack.out - pack.back - err

\* Every step keeps ExchangeInv.
LEMMA ExchangeNext ==
  ASSUME TypeOK, ExchangeInv, [Next]_vars
  PROVE  ExchangeInv'
<1> USE TimesAssumption
<1>1. /\ left \in Nat /\ err \in Int /\ rbuf \in Seq(Answers) /\ pack \in Answers
      /\ \A m \in net : m \in Messages
  BY DEF TypeOK, Answers, Messages
<1>2. /\ Len(rbuf) \in Nat /\ DOMAIN rbuf = 1 .. Len(rbuf)
      /\ \A i \in 1 .. Len(rbuf) : rbuf[i] \in Answers
  BY <1>1, LenProperties, ElementOfSeq
<1>3. CASE pc' \in {"sleep", "connect", "send"}
  BY <1>3 DEF ExchangeInv
<1>4. CASE Send
  <2>1. /\ pc' = "select" /\ left' = Timeout /\ err' = err
        /\ net' = {OfEarlier(m) : m \in net} \cup {Request}
        /\ rbuf' = [i \in DOMAIN rbuf |-> OfEarlier(rbuf[i])]
    BY <1>4 DEF Send
  <2>2. \A m \in Messages : ~OfEarlier(m).own
    BY DEF OfEarlier, Messages, Kinds
  <2>3. \A i \in DOMAIN rbuf' : ~rbuf'[i].own
    BY <1>2, <2>1, <2>2, MessageFacts
  <2>4. Request.out + Request.back = 0 /\ Request.err = err
    BY DEF Request
  <2>5. left' <= Timeout /\ Timeout - left' = 0
    BY <2>1
  <2>6. \A m \in net' : OfThisCycle(m, Timeout - left)'
    BY <1>1, <2>1, <2>2, <2>4, <2>5 DEF OfThisCycle
  <2> QED
    BY <2>1, <2>3, <2>5, <2>6 DEF ExchangeInv, OfThisCycle
<1>5. CASE Receive
  <2>1. /\ pc = "select" /\ rbuf # <<>> /\ pack' = Head(rbuf)
        /\ valid' = TRUE /\ pc' = "compute" /\ err' = err
    BY <1>5 DEF Receive
  <2>2. 1 \in DOMAIN rbuf /\ pack' = rbuf[1]
    BY <1>1, <1>2, <2>1, EmptySeq
  <2>3. rbuf[1].own => rbuf[1].out + rbuf[1].back = Timeout - left /\ rbuf[1].err = err
    BY <2>1, <2>2 DEF ExchangeInv, OfThisCycle
  <2>4. pack'.own => pack'.out + pack'.back <= Timeout /\ pack'.err = err'
    BY <1>1, <2>1, <2>2, <2>3
  <2> QED
    BY <2>1, <2>4 DEF ExchangeInv
<1>6. CASE ComputeOffset
  <2>1. /\ pc = "compute" /\ pc' = "sync" /\ UNCHANGED <<pack, valid, err>>
        /\ offset' = (2 * (pack.out - pack.back) - pack.err - err) \div 2
    BY <1>6 DEF ComputeOffset
  <2>2. ASSUME pack.own
        PROVE  offset' = pack.out - pack.back - err
    <3>1. pack.out \in Int /\ pack.back \in Int /\ pack.err = err
      BY <1>1, <2>1, <2>2 DEF ExchangeInv, Answers, Kinds
    <3>2. PICK x \in Int : x = pack.out - pack.back - err
      BY <1>1, <3>1
    <3>3. 2 * (pack.out - pack.back) - pack.err - err = 2 * x
      BY <1>1, <3>1, <3>2
    <3>4. (2 * x) \div 2 = x
      OBVIOUS
    <3> QED
      BY <2>1, <3>2, <3>3, <3>4
  <2> QED
    BY <2>1, <2>2 DEF ExchangeInv
<1>7. CASE Tick
  <2>1. /\ pc \in {"sleep", "select"} /\ left > 0 /\ left' = left - 1
        /\ pc = "select" => rbuf = <<>>
        /\ rbuf' = [i \in DOMAIN rbuf |-> Older(rbuf[i])]
        /\ net' = {Older(m) : m \in {n \in net : n.out + n.back < MaxDelay}}
        /\ UNCHANGED <<pc, err>>
    BY <1>7 DEF Tick
  <2>2. CASE pc = "sleep"
    BY <1>3, <2>1, <2>2
  <2>3. CASE pc = "select"
    <3>1. DOMAIN rbuf' = {}
      BY <2>1, <2>3
    <3>2. left' <= Timeout /\ Timeout - left' = Timeout - left + 1
      BY <1>1, <2>1, <2>3 DEF ExchangeInv
    <3>3. ASSUME NEW n \in net', n.own
          PROVE  n.out + n.back = Timeout - left' /\ n.err = err'
      <4>1. PICK m \in net : n = Older(m)
        BY <2>1
      <4>2. m \in Messages
        BY <1>1
      <4>3. /\ Older(m).out + Older(m).back = (m.out + m.back) + 1
            /\ Older(m).err = m.err /\ Older(m).own = m.own
        BY <4>2 DEF Older, Messages, Kinds
      <4>4. m.out + m.back = Timeout - left /\ m.err = err
        BY <2>3, <3>3, <4>1, <4>3 DEF ExchangeInv, OfThisCycle
      <4> QED
        BY <2>1, <3>2, <4>1, <4>3, <4>4
    <3> QED
      BY <2>1, <2>3, <3>1, <3>2, <3>3 DEF ExchangeInv, OfThisCycle
  <2> QED
    BY <2>1, <2>2, <2>3
<1>8. CASE ServerAnswers
  <2>1. PICK m \in net : /\ net' = (net \ {m}) \cup {[m EXCEPT !.is = "answer"]}
                         /\ UNCHANGED <<pc, left, rbuf, pack, offset, valid, err>>
    BY <1>8 DEF ServerAnswers, thread, result
  <2>2. m \in Messages
    BY <1>1
  <2>3. ASSUME NEW a, OfThisCycle(m, a)
        PROVE  OfThisCycle([m EXCEPT !.is = "answer"], a)
    BY <2>2, <2>3 DEF OfThisCycle, Messages, Kinds
  <2>4. pc = "select" => \A n \in net' : OfThisCycle(n, Timeout - left)
    BY <2>1, <2>3 DEF ExchangeInv
  <2> QED
    BY <2>1, <2>4 DEF ExchangeInv, OfThisCycle
<1>9. CASE Arrive
  <2>1. PICK m \in net : /\ net' = net \ {m} /\ rbuf' = Append(rbuf, m) /\ m.is = "answer"
                         /\ UNCHANGED <<pc, left, pack, offset, valid, err>>
    BY <1>9 DEF Arrive, thread, result
  <2>2. m \in Answers
    BY <1>1, <2>1, MessageFacts
  <2>3. \A i \in DOMAIN rbuf' : rbuf'[i] = m \/ (i \in DOMAIN rbuf /\ rbuf'[i] = rbuf[i])
    BY <1>1, <1>2, <2>1, <2>2, AppendProperties
  <2>4. pc = "select" => \A i \in DOMAIN rbuf' : OfThisCycle(rbuf'[i], Timeout - left)
    BY <2>1, <2>3 DEF ExchangeInv
  <2> QED
    BY <2>1, <2>4 DEF ExchangeInv, OfThisCycle
<1>10. CASE Interrupt \/ UNCHANGED vars
  <2>1. UNCHANGED <<pc, left, net, rbuf, pack, offset, valid, err>>
    BY <1>10 DEF Interrupt, vars, thread, link, result
  <2> QED
    BY <2>1 DEF ExchangeInv, OfThisCycle
<1>11. CASE \/ SleepEnds \/ Connect \/ ConnectFails \/ SendFails \/ SelectTimesOut
             \/ ReceiveFails \/ SynchClock \/ ClockDrifts \/ Joined
  <2>1. pc' \in {"sleep", "connect", "send"}
    BY <1>11 DEF SleepEnds, Connect, ConnectFails, SendFails, SelectTimesOut, ReceiveFails,
       SynchClock, ClockDrifts, Joined, CycleFailed, GoToSleep, thread
  <2> QED
    BY <1>3, <2>1
<1> QED
  BY <1>4, <1>5, <1>6, <1>7, <1>8, <1>9, <1>10, <1>11 DEF Next, Thread

\* A step out of "sync" with the answer of the cycle leaves the clock accurate.
LEMMA SyncIsAccurate ==
  ASSUME TypeOK, ExchangeInv, [Next]_vars, pc = "sync", pc' = "sleep", pack.own
  PROVE  Abs(err') < SyncLimit + Timeout
<1> USE TimesAssumption
<1>1. SynchClock
  BY DEF Next, Thread, SleepEnds, Connect, ConnectFails, Send, SendFails, SelectTimesOut,
     Receive, ReceiveFails, ComputeOffset, Tick, ServerAnswers, Arrive, ClockDrifts,
     Interrupt, Joined, thread, vars
<1>2. /\ pack.out \in Nat /\ pack.back \in Nat /\ err \in Int /\ valid
      /\ pack.out + pack.back <= Timeout
      /\ offset = pack.out - pack.back - err
  BY DEF TypeOK, Kinds, ExchangeInv
<1>3. CASE Abs(offset) >= SyncLimit
  <2>1. err' = err + offset
    BY <1>1, <1>2, <1>3 DEF SynchClock
  <2>2. err' = pack.out - pack.back
    BY <1>2, <2>1
  <2> QED
    BY <1>2, <2>2 DEF Abs
<1>4. CASE ~(Abs(offset) >= SyncLimit)
  <2>1. err' = err
    BY <1>1, <1>4 DEF SynchClock
  <2> QED
    BY <1>2, <1>4, <2>1 DEF Abs
<1> QED
  BY <1>3, <1>4

\* After a cycle that got the answer to its own request the local clock is within
\* the limit and one way of the round trip of the true time, whatever late answers
\* have done to it before.
THEOREM AnsweredClockIsAccurate == Spec => AnsweredIsAccurate
<1>1. Init => ExchangeInv
  BY DEF Init, ExchangeInv
<1>2. TypeOK /\ ExchangeInv /\ [Next]_vars => ExchangeInv'
  BY ExchangeNext
<1>3. TypeOK /\ ExchangeInv /\ [Next]_vars
        => [pc = "sync" /\ pc' = "sleep" /\ pack.own => Abs(err') < SyncLimit + Timeout]_vars
  BY SyncIsAccurate
<1> QED
  BY <1>1, <1>2, <1>3, TypeCorrect, PTL DEF Spec, AnsweredIsAccurate
================================================================================
