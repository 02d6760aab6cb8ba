--------------------------- MODULE DataTransferProofs ---------------------------
(***************************************************************************)
(* Proofs about DataTransfer, for any number of calls, any length of a     *)
(* reply and any room for the status: no block is used or freed after it   *)
(* was freed, only a call that was refused memory or its session leaks,    *)
(* and then each block once, and success means the answer of this call.    *)
(*                                                                         *)
(* The invariant says who owns what between two steps of a call.  Between  *)
(* "session" and "release" the call owns its blocks; libcurl is            *)
(* initialised once more than cleaned up.  tmpChunk->memory dangles after  *)
(* a call that went well and holds a block after one without a session,    *)
(* which the next call loses.                                              *)
(***************************************************************************)
EXTENDS DataTransfer, Integers, TLAPS

Working == {"session", "perform", "report", "release"}

TypeInv ==
  /\ pc \in {"none", "idle", "check", "return", "destroyed"} \cup Working
  /\ ptr \in [Blocks -> {"null", "live", "freed"}]
  /\ lost \in [Blocks -> Nat]
  /\ globals \in Int
  /\ size \in Nat /\ pieces \in Nat /\ failed \in Nat

\* A pointer that dangles is set before it is used.
OwnerInv ==
  /\ ~misused
  /\ pc # "destroyed" => \A b \in Urls \cup {"tmpChunk"} : ptr[b] # "freed"
  /\ pc \in Working => \A b \in Locals \cup {"memory"} : ptr[b] # "freed"
  /\ pc \notin Working \cup {"return"} => \A b \in Locals : ptr[b] = "null"
  /\ pc = "session" =>
       \A b \in {"curlSession", "reqErrorBuf", "fullUrl"} : ptr[b] = "null"

\* What is leaked is paid for by a call that failed; what still hangs on a pointer
\* that will be overwritten is paid for already.
LeakInv ==
  /\ \A b \in Blocks \ {"getOt2CutImageListUrl"} : lost[b] <= failed
  /\ pc = "return" => \A b \in Locals : ptr[b] = "live" => lost[b] < failed
  /\ pc \notin Working \cup {"destroyed"} /\ ptr["memory"] = "live" => lost["memory"] < failed
  /\ pc \in Working => globals <= failed + 1
  /\ pc \notin Working => globals <= failed

\* The reply so far, and what was made of it.
AnswerInv ==
  /\ pc \in {"check", "session"} => pieces = 0
  /\ pc \in {"session", "perform"} => size = pieces
  /\ pc \in {"check", "session", "perform"} => curl = "none" /\ http = "none"
  /\ pc \in {"session", "perform", "report"} /\ pieces > 0 /\ curl \in {"none", "OK"} =>
       ended /\ text = [i \in 1 .. pieces |-> i]
  /\ pc = "report" => curl \in {"OK", "FAILED", "WRITE_ERROR"}
  /\ pc \in {"release", "return"} =>
       /\ rst = "SUCCESS" <=> curl = "OK" /\ http = "200"
       /\ rst = "SUCCESS" /\ pieces > 0 =>
            status = [is |-> "reply", text |-> [i \in 1 .. pieces |-> i]]

CallInv == TypeInv /\ OwnerInv /\ LeakInv /\ AnswerInv

-----------------------------------------------------------------------------

\* The three kinds of blocks are different blocks.
LEMMA BlockKinds ==
  /\ Urls \subseteq Blocks /\ Locals \subseteq Blocks
  /\ "memory" \in Blocks /\ "tmpChunk" \in Blocks /\ "getOt2CutImageListUrl" \in Urls
  /\ "memory" \notin Urls /\ "memory" \notin Locals
  /\ "tmpChunk" \notin Urls /\ "tmpChunk" \notin Locals
  /\ \A b \in Locals : b \notin Urls
<1>1. \A o \in Sends : UrlOf[o] \notin Locals \cup {"memory", "tmpChunk"}
  BY DEF Sends, UrlOf, Locals
<1> QED
  BY <1>1 DEF Urls, Blocks, Locals

\* What setting pointers does to the blocks.
LEMMA AssignFacts ==
  ASSUME TypeInv, NEW B, NEW v \in {"null", "live"}, Assign(B, v)
  PROVE  /\ ptr' \in [Blocks -> {"null", "live", "freed"}]
         /\ lost' \in [Blocks -> Nat]
         /\ \A b \in Blocks : /\ ptr'[b] = IF b \in B THEN v ELSE ptr[b]
                              /\ b \notin B \/ ptr[b] # "live" => lost'[b] = lost[b]
                              /\ lost'[b] <= lost[b] + 1
BY DEF Assign, TypeInv

\* Freeing blocks none of which is freed already is no misuse.
LEMMA FreeFacts ==
  ASSUME TypeInv, NEW B \in SUBSET Blocks, Free(B)
  PROVE  /\ ptr' \in [Blocks -> {"null", "live", "freed"}]
         /\ \A b \in Blocks : /\ ptr'[b] = "live" => ptr[b] = "live" /\ b \notin B
                              /\ b \notin B => ptr'[b] = ptr[b]
                              /\ ptr[b] = "null" => ptr'[b] = "null"
         /\ ~misused /\ (\A b \in B : ptr[b] # "freed") => ~misused'
BY DEF Free, TypeInv

\* Before the first call every pointer is null and nothing is lost.
LEMMA CallInit == Init => CallInv
<1> SUFFICES ASSUME Init PROVE CallInv
  OBVIOUS
<1>1. TypeInv
  BY DEF Init, TypeInv
<1>2. OwnerInv
  BY BlockKinds DEF Init, OwnerInv, Working
<1>3. LeakInv
  BY BlockKinds DEF Init, LeakInv, Working
<1>4. AnswerInv
  BY DEF Init, AnswerInv
<1> QED
  BY <1>1, <1>2, <1>3, <1>4 DEF CallInv

\* One lemma per group of actions: the object, the arguments, the session and the
\* end of the call.
LEMMA ObjectKeeps ==
  ASSUME CallInv, Construct \/ Destroy
  PROVE  CallInv'
<1> USE DEF CallInv, Working
<1>1. CASE Construct
  <2>1. /\ pc = "none" /\ pc' = "idle"
        /\ UNCHANGED <<globals, text, ended, size, curl, http, rst, status, pieces, calls,
                       failed, misused>>
    BY <1>1 DEF Construct, reply, outcome, history
  <2>2. /\ ptr' \in [Blocks -> {"null", "live", "freed"}]
        /\ \A b \in Blocks : ptr'[b] # "freed"
        /\ \A b \in Locals \cup {"memory"} : ptr'[b] = "null"
    BY <1>1, BlockKinds DEF Construct, JoinStr, TypeInv
  <2>3. /\ lost' \in [Blocks -> Nat]
        /\ \A b \in Blocks \ {"getOt2CutImageListUrl"} : lost'[b] = lost[b]
    <3>1. PICK n \in {0, 1} : lost' = [lost EXCEPT !["getOt2CutImageListUrl"] = n]
      BY <1>1, Zenon DEF Construct
    <3>2. lost \in [Blocks -> Nat] /\ n \in Nat
      BY DEF TypeInv
    <3> QED
      BY <3>1, <3>2
  <2>4. TypeInv'
    BY <2>1, <2>2, <2>3 DEF TypeInv
  <2>5. OwnerInv'
    BY <2>1, <2>2, BlockKinds DEF OwnerInv
  <2>6. LeakInv'
    BY <2>1, <2>2, <2>3, BlockKinds DEF LeakInv
  <2>7. AnswerInv'
    BY <2>1 DEF AnswerInv
  <2> QED
    BY <2>4, <2>5, <2>6, <2>7
<1>2. CASE Destroy
  <2>1. /\ pc = "idle" /\ pc' = "destroyed" /\ Free(Urls \cup {"tmpChunk"})
        /\ UNCHANGED <<globals, text, ended, size, curl, http, rst, status, pieces, calls,
                       failed>>
    BY <1>2 DEF Destroy, reply, outcome
  <2>2. /\ ptr' \in [Blocks -> {"null", "live", "freed"}]
        /\ \A b \in Locals : ptr'[b] = ptr[b]
        /\ ~misused'
    BY <2>1, FreeFacts, BlockKinds DEF OwnerInv
  <2>3. /\ lost' \in [Blocks -> Nat]
        /\ \A b \in Blocks \ {"memory"} : lost'[b] = lost[b]
        /\ lost'["memory"] = IF ptr["memory"] = "live" THEN lost["memory"] + 1
                                                       ELSE lost["memory"]
    BY <1>2, BlockKinds DEF Destroy, TypeInv
  <2>4. TypeInv'
    BY <2>1, <2>2, <2>3 DEF TypeInv
  <2>5. OwnerInv'
    BY <2>1, <2>2 DEF OwnerInv
  <2>6. lost'["memory"] <= failed
    BY <2>1, <2>3, BlockKinds DEF LeakInv, TypeInv
  <2>7. LeakInv'
    BY <2>1, <2>3, <2>6 DEF LeakInv
  <2>8. AnswerInv'
    BY <2>1 DEF AnswerInv
  <2> QED
    BY <2>4, <2>5, <2>7, <2>8
<1> QED
  BY <1>1, <1>2

\* Entering a call and the refusals of its arguments touch no block of the upload.
LEMMA ArgumentsKeep ==
  ASSUME CallInv, (\E o \in Ops : Call(o)) \/ StatusIsNull \/ RefuseUrl \/ RefuseEmpty
  PROVE  CallInv'
<1> USE DEF CallInv, Working
<1>1. UNCHANGED <<ptr, lost, globals, text, ended, size, failed, misused>>
  BY DEF Call, StatusIsNull, RefuseUrl, RefuseEmpty, Refuse, reply, history
<1>2. \/ /\ pc = "idle" /\ pc' = "check"
         /\ curl' = "none" /\ http' = "none" /\ pieces' = 0
      \/ /\ pc = "check" /\ pc' = "return" /\ rst' # "SUCCESS"
         /\ UNCHANGED <<curl, http, pieces>>
  BY DEF Call, StatusIsNull, RefuseUrl, RefuseEmpty, Refuse
<1>3. TypeInv'
  BY <1>1, <1>2 DEF TypeInv
<1>4. OwnerInv'
  BY <1>1, <1>2 DEF OwnerInv
<1>5. LeakInv'
  BY <1>1, <1>2, BlockKinds DEF LeakInv, OwnerInv
<1>6. AnswerInv'
  BY <1>1, <1>2 DEF AnswerInv
<1> QED
  BY <1>3, <1>4, <1>5, <1>6

\* Prepare takes the blocks of the call; what the last one left on memory is lost, and
\* was paid for when that call failed.
LEMMA PrepareKeeps ==
  ASSUME CallInv, Prepare
  PROVE  CallInv'
<1> USE DEF CallInv, Working
<1> DEFINE B == {"memory", "formpost", "headerlist"}
<1>1. /\ pc = "check" /\ pc' = "session" /\ Assign(B, "live")
      /\ size' = 0 /\ globals' = globals + 1
      /\ UNCHANGED <<curl, http, rst, status, pieces, failed>>
      /\ misused' = (misused \/ ptr["tmpChunk"] = "freed")
  BY DEF Prepare, ChecksPass, outcome
<1>2. /\ ptr' \in [Blocks -> {"null", "live", "freed"}]
      /\ lost' \in [Blocks -> Nat]
      /\ \A b \in Blocks : /\ ptr'[b] = IF b \in B THEN "live" ELSE ptr[b]
                           /\ b \notin B \/ ptr[b] # "live" => lost'[b] = lost[b]
                           /\ lost'[b] <= lost[b] + 1
  BY <1>1, AssignFacts
<1>3. \A b \in Locals : b \in Blocks /\ ptr[b] = "null" /\ b # "memory"
  BY <1>1, BlockKinds DEF OwnerInv
<1>4. TypeInv'
  BY <1>1, <1>2 DEF TypeInv
<1>5. ~misused'
  BY <1>1 DEF OwnerInv
<1>6. \A b \in Urls \cup {"tmpChunk"} : ptr'[b] # "freed"
  BY <1>1, <1>2, BlockKinds DEF OwnerInv
<1>7. /\ \A b \in Locals \cup {"memory"} : ptr'[b] # "freed"
      /\ \A b \in {"curlSession", "reqErrorBuf", "fullUrl"} : ptr'[b] = "null"
  BY <1>2, <1>3, BlockKinds DEF Locals
<1>8. OwnerInv'
  BY <1>1, <1>5, <1>6, <1>7 DEF OwnerInv
<1>9. \A b \in Blocks \ {"getOt2CutImageListUrl"} : lost'[b] <= failed
  <2> SUFFICES ASSUME NEW b \in Blocks \ {"getOt2CutImageListUrl"}
               PROVE  lost'[b] <= failed
    OBVIOUS
  <2>1. lost[b] <= failed /\ lost[b] \in Nat /\ lost'[b] \in Nat /\ failed \in Nat
    BY <1>2 DEF LeakInv, TypeInv
  <2>2. CASE b = "memory" /\ ptr[b] = "live"
    BY <1>1, <1>2, <2>1, <2>2 DEF LeakInv
  <2>3. CASE ptr[b] # "live"
    BY <1>2, <2>1, <2>3
  <2>4. CASE b \notin B
    BY <1>2, <2>1, <2>4
  <2> QED
    BY <1>3, <2>2, <2>3, <2>4 DEF Locals
<1>10. globals' <= failed' + 1
  BY <1>1 DEF LeakInv, TypeInv
<1>11. LeakInv'
  BY <1>1, <1>9, <1>10 DEF LeakInv
<1>12. AnswerInv'
  BY <1>1 DEF AnswerInv
<1> QED
  BY <1>4, <1>8, <1>11, <1>12

\* With a session the call has all its blocks; without one it returns with them.
LEMMA SessionKeeps ==
  ASSUME CallInv, OpenSession \/ NoSession
  PROVE  CallInv'
<1> USE DEF CallInv, Working
<1>1. CASE OpenSession
  <2> DEFINE B == {"curlSession", "reqErrorBuf", "fullUrl"}
  <2>1. /\ pc = "session" /\ pc' = "perform" /\ Assign(B, "live")
        /\ UNCHANGED <<globals, text, ended, size, curl, http, rst, status, pieces, failed,
                       misused>>
    BY <1>1 DEF OpenSession, reply, outcome, history
  <2>2. /\ ptr' \in [Blocks -> {"null", "live", "freed"}]
        /\ lost' \in [Blocks -> Nat]
        /\ \A b \in Blocks : /\ ptr'[b] = IF b \in B THEN "live" ELSE ptr[b]
                             /\ b \notin B \/ ptr[b] # "live" => lost'[b] = lost[b]
    BY <2>1, AssignFacts
  <2>3. \A b \in Blocks : lost'[b] = lost[b]
    BY <2>1, <2>2 DEF OwnerInv
  <2>4. TypeInv'
    BY <2>1, <2>2 DEF TypeInv
  <2>5. OwnerInv'
    BY <2>1, <2>2, BlockKinds DEF OwnerInv
  <2>6. LeakInv'
    BY <2>1, <2>3 DEF LeakInv
  <2>7. AnswerInv'
    BY <2>1 DEF AnswerInv
  <2> QED
    BY <2>4, <2>5, <2>6, <2>7
<1>2. CASE NoSession
  <2>1. /\ pc = "session" /\ pc' = "return" /\ rst' # "SUCCESS" /\ failed' = failed + 1
        /\ UNCHANGED <<ptr, lost, globals, text, ended, size, curl, http, pieces, misused>>
    BY <1>2 DEF NoSession, reply
  <2>2. TypeInv'
    BY <2>1 DEF TypeInv
  <2>3. OwnerInv'
    BY <2>1 DEF OwnerInv
  <2>4. /\ \A b \in Blocks \ {"getOt2CutImageListUrl"} : lost[b] < failed'
        /\ globals <= failed'
    BY <2>1 DEF LeakInv, TypeInv
  <2>5. \A b \in Blocks \ {"getOt2CutImageListUrl"} : lost[b] <= failed'
    BY <2>1, <2>4 DEF TypeInv
  <2>6. LeakInv'
    BY <2>1, <2>4, <2>5, BlockKinds DEF LeakInv
  <2>7. AnswerInv'
    BY <2>1 DEF AnswerInv
  <2> QED
    BY <2>2, <2>3, <2>6, <2>7
<1> QED
  BY <1>1, <1>2

\* The pieces of the reply are appended in order; a refused one ends the transfer.
LEMMA PerformKeeps ==
  ASSUME CallInv, Receive \/ ReceiveRefused \/ PerformFails \/ PerformEnds
  PROVE  CallInv'
<1> USE DEF CallInv, Working
<1>1. CASE Receive
  <2>1. /\ pc = "perform" /\ pc' = pc /\ ended' = TRUE
        /\ size' = size + 1 /\ pieces' = pieces + 1
        /\ misused' = (misused \/ ptr["memory"] = "freed")
        /\ UNCHANGED <<lost, globals, curl, http, rst, status, failed>>
    BY <1>1 DEF Receive, outcome
  <2>2. /\ ptr' \in [Blocks -> {"null", "live", "freed"}]
        /\ \A b \in Blocks : ptr'[b] = "freed" => ptr[b] = "freed"
        /\ \A b \in Blocks \ {"memory"} : ptr'[b] = ptr[b]
    BY <1>1, BlockKinds DEF Receive, TypeInv
  <2>3. TypeInv'
    BY <2>1, <2>2 DEF TypeInv
  <2>4. OwnerInv'
    BY <2>1, <2>2, BlockKinds DEF OwnerInv
  <2>5. LeakInv'
    BY <2>1 DEF LeakInv
  <2>6. text' = [j \in 1 .. pieces' |-> j]
    <3>1. size = pieces /\ pieces \in Nat
      BY <2>1 DEF AnswerInv, TypeInv
    <3>2. pieces > 0 => text = [j \in 1 .. pieces |-> j]
      BY <2>1 DEF AnswerInv
    <3>3. text' = [j \in 1 .. pieces + 1 |->
                     IF j = pieces + 1 THEN pieces + 1
                     ELSE IF j \in DOMAIN text THEN text[j] ELSE Noise]
      BY <1>1, <3>1 DEF Receive
    <3>4. ASSUME NEW j \in 1 .. pieces + 1, j # pieces + 1
          PROVE  j \in DOMAIN text /\ text[j] = j
      <4>1. pieces > 0 /\ j \in 1 .. pieces
        BY <3>1, <3>4
      <4> QED
        BY <3>2, <4>1
    <3> QED
      BY <2>1, <3>3, <3>4
  <2>7. AnswerInv'
    BY <2>1, <2>6 DEF AnswerInv
  <2> QED
    BY <2>3, <2>4, <2>5, <2>7
<1>2. CASE ReceiveRefused
  <2>1. /\ pc = "perform" /\ pc' = "report" /\ Assign({"memory"}, "null")
        /\ pieces' = pieces + 1 /\ failed' = failed + 1 /\ curl' = "WRITE_ERROR"
        /\ UNCHANGED <<globals, text, ended, size, http, rst, status, misused>>
    BY <1>2 DEF ReceiveRefused, reply
  <2>2. /\ ptr' \in [Blocks -> {"null", "live", "freed"}]
        /\ lost' \in [Blocks -> Nat]
        /\ \A b \in Blocks : /\ ptr'[b] = IF b \in {"memory"} THEN "null" ELSE ptr[b]
                             /\ lost'[b] <= lost[b] + 1
    BY <2>1, AssignFacts
  <2>3. TypeInv'
    BY <2>1, <2>2 DEF TypeInv
  <2>4. OwnerInv'
    BY <2>1, <2>2, BlockKinds DEF OwnerInv
  <2>5. \A b \in Blocks \ {"getOt2CutImageListUrl"} : lost'[b] <= failed'
    <3> SUFFICES ASSUME NEW b \in Blocks \ {"getOt2CutImageListUrl"}
                 PROVE  lost'[b] <= failed'
      OBVIOUS
    <3>1. lost[b] <= failed /\ lost[b] \in Nat /\ lost'[b] \in Nat /\ failed \in Nat
      BY <2>2 DEF LeakInv, TypeInv
    <3> QED
      BY <2>1, <2>2, <3>1
  <2>6. globals <= failed' + 1
    BY <2>1 DEF LeakInv, TypeInv
  <2>7. LeakInv'
    BY <2>1, <2>5, <2>6 DEF LeakInv
  <2>8. AnswerInv'
    BY <2>1 DEF AnswerInv
  <2> QED
    BY <2>3, <2>4, <2>7, <2>8
<1>3. CASE PerformFails \/ PerformEnds
  <2>1. /\ pc = "perform" /\ pc' = "report" /\ curl' \in {"OK", "FAILED"}
        /\ UNCHANGED <<ptr, lost, globals, text, ended, size, rst, status, pieces, failed,
                       misused>>
    BY <1>3 DEF PerformFails, PerformEnds, reply, history
  <2>2. TypeInv' /\ OwnerInv' /\ LeakInv'
    BY <2>1 DEF TypeInv, OwnerInv, LeakInv
  <2>3. AnswerInv'
    BY <2>1 DEF AnswerInv
  <2> QED
    BY <2>2, <2>3
<1> QED
  BY <1>1, <1>2, <1>3

\* The report, the release of every block of the call, and the return.
LEMMA EndKeeps ==
  ASSUME CallInv, ReportError \/ ReportAnswer \/ Release \/ Return
  PROVE  CallInv'
<1> USE DEF CallInv, Working
<1>1. CASE ReportError \/ ReportAnswer
  <2>1. /\ pc = "report" /\ pc' = "release"
        /\ UNCHANGED <<ptr, lost, globals, text, ended, size, curl, http, pieces, failed,
                       misused>>
    BY <1>1 DEF ReportError, ReportAnswer, reply, history
  <2>2. TypeInv' /\ OwnerInv' /\ LeakInv'
    BY <2>1 DEF TypeInv, OwnerInv, LeakInv
  <2>3. /\ rst' = "SUCCESS" <=> curl = "OK" /\ http = "200"
        /\ rst' = "SUCCESS" =>
             status' = [is |-> IF ended THEN "reply" ELSE "unknown", text |-> text]
    BY <1>1 DEF ReportError, ReportAnswer, Error
  <2>4. AnswerInv'
    BY <2>1, <2>3 DEF AnswerInv
  <2> QED
    BY <2>2, <2>4
<1>2. CASE Release
  <2>1. /\ pc = "release" /\ pc' = "return" /\ Free(Locals \cup {"memory"})
        /\ globals' = globals - 1
        /\ UNCHANGED <<lost, text, ended, size, curl, http, rst, status, pieces, failed>>
    BY <1>2 DEF Release, reply, outcome
  <2>2. /\ ptr' \in [Blocks -> {"null", "live", "freed"}]
        /\ \A b \in Locals \cup {"memory"} : ptr'[b] # "live"
        /\ \A b \in Urls \cup {"tmpChunk"} : ptr'[b] = ptr[b]
        /\ ~misused'
    BY <2>1, FreeFacts, BlockKinds DEF OwnerInv
  <2>3. TypeInv'
    BY <2>1, <2>2 DEF TypeInv
  <2>4. OwnerInv'
    BY <2>1, <2>2 DEF OwnerInv
  <2>5. globals' <= failed'
    BY <2>1 DEF LeakInv, TypeInv
  <2>6. LeakInv'
    BY <2>1, <2>2, <2>5 DEF LeakInv
  <2>7. AnswerInv'
    BY <2>1 DEF AnswerInv
  <2> QED
    BY <2>3, <2>4, <2>6, <2>7
<1>3. CASE Return
  <2>1. /\ pc = "return" /\ pc' = "idle" /\ Assign(Locals, "null")
        /\ UNCHANGED <<globals, text, ended, size, curl, http, rst, status, pieces, failed,
                       misused>>
    BY <1>3 DEF Return, reply, outcome, history
  <2>2. /\ ptr' \in [Blocks -> {"null", "live", "freed"}]
        /\ lost' \in [Blocks -> Nat]
        /\ \A b \in Blocks :
             /\ ptr'[b] = IF b \in Locals THEN "null" ELSE ptr[b]
             /\ b \notin Locals \/ ptr[b] # "live" => lost'[b] = lost[b]
             /\ lost'[b] <= lost[b] + 1
    BY <2>1, AssignFacts
  <2>3. TypeInv'
    BY <2>1, <2>2 DEF TypeInv
  <2>4. OwnerInv'
    BY <2>1, <2>2, BlockKinds DEF OwnerInv
  <2>5. \A b \in Blocks \ {"getOt2CutImageListUrl"} : lost'[b] <= failed
    <3> SUFFICES ASSUME NEW b \in Blocks \ {"getOt2CutImageListUrl"}
                 PROVE  lost'[b] <= failed
      OBVIOUS
    <3>1. lost[b] <= failed /\ lost[b] \in Nat /\ lost'[b] \in Nat /\ failed \in Nat
      BY <2>2 DEF LeakInv, TypeInv
    <3>2. CASE b \in Locals /\ ptr[b] = "live"
      <4>1. lost[b] < failed
        BY <2>1, <3>2 DEF LeakInv
      <4> QED
        BY <2>2, <3>1, <4>1
    <3>3. CASE b \notin Locals \/ ptr[b] # "live"
      BY <2>2, <3>1, <3>3
    <3> QED
      BY <3>2, <3>3
  <2>6. ptr'["memory"] = ptr["memory"] /\ lost'["memory"] = lost["memory"]
    BY <2>2, BlockKinds
  <2>7. LeakInv'
    BY <2>1, <2>5, <2>6 DEF LeakInv
  <2>8. AnswerInv'
    BY <2>1 DEF AnswerInv
  <2> QED
    BY <2>3, <2>4, <2>7, <2>8
<1> QED
  BY <1>1, <1>2, <1>3

\* Every step keeps the invariant.
LEMMA CallNext ==
  ASSUME CallInv, [Next]_vars
  PROVE  CallInv'
<1>1. CASE UNCHANGED vars
  BY <1>1 DEF vars, reply, outcome, history, CallInv, TypeInv, OwnerInv, LeakInv, AnswerInv
<1> QED
  BY <1>1, ObjectKeeps, ArgumentsKeep, PrepareKeeps, SessionKeeps, PerformKeeps, EndKeeps
     DEF Next

\* CallInv is inductive.
LEMMA CallInvHolds == Spec => []CallInv
BY CallInit, CallNext, PTL DEF Spec

\* No sequence of calls, whatever fails in them, uses a freed block or frees one
\* twice: tmpChunk->memory dangles between two calls and nothing clears it.
THEOREM NothingIsMisused == Spec => []NoMisuse
<1>1. CallInv => NoMisuse
  BY DEF CallInv, OwnerInv, NoMisuse
<1> QED
  BY <1>1, CallInvHolds, PTL

\* However long the night is: what a call takes it gives back, and libcurl is
\* cleaned up as often as it was initialised, unless a call was refused its
\* memory or its session, and then each such call leaks each block once at most.
THEOREM LeaksAreFailures == Spec => []OnlyFailuresLeak
<1>1. CallInv => OnlyFailuresLeak
  BY DEF CallInv, OwnerInv, LeakInv, OnlyFailuresLeak, Working
<1> QED
  BY <1>1, CallInvHolds, PTL

\* A call returns success only for a complete answer 200, and always for one; the
\* status is then that answer, every piece in its place and none of an earlier
\* call, for answers of any length.
THEOREM AnswersAreWhole == Spec => []SuccessIsAnswer
<1>1. CallInv => SuccessIsAnswer
  BY DEF CallInv, AnswerInv, SuccessIsAnswer
<1> QED
  BY <1>1, CallInvHolds, PTL
================================================================================
