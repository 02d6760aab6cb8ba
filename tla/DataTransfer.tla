----------------------------- MODULE DataTransfer -----------------------------
(***************************************************************************)
(* src/src/DataTransfer.{h,cpp}: what is sent to the database over HTTP,   *)
(* through libcurl.  One thread at a time uses an object, so there is no   *)
(* interleaving; what is modelled is every path through a long sequence of *)
(* calls, with the blocks of memory each path owns and the reply it reads. *)
(*                                                                         *)
(* Data.  A block is known by the pointer that holds it: ptr[b] is "null", *)
(* "live" or "freed", and lost[b] counts the blocks no pointer holds any   *)
(* more.  The reply comes in pieces 1, 2, ...; tmpChunk->memory is the     *)
(* sequence of the pieces in it, Noise being what malloc leaves.           *)
(* Left out: the names and values of the parameters (one is always there), *)
(* the wording of the status, and whatever is under #ifdef DEBUG.          *)
(***************************************************************************)
EXTENDS Naturals, Sequences

CONSTANTS MaxCalls,     \* bound on the calls of one object
          MaxPieces,    \* bound on the pieces of a reply
          StatusUnits   \* room in the caller's statusstr, in pieces

ASSUME TransferAssumption ==
  /\ MaxCalls \in Nat \ {0}
  /\ MaxPieces \in Nat \ {0}
  /\ StatusUnits \in Nat

VARIABLES
  pc,        \* where the caller is: "none" before the constructor
  op,        \* the operation called
  ptr,       \* the pointers
  lost,      \* blocks leaked, by the pointer that held them
  globals,   \* curl_global_init without curl_global_cleanup
  text,      \* tmpChunk->memory
  ended,     \* is there a 0 behind it?
  size,      \* tmpChunk->size
  curl,      \* curlCode
  http,      \* http_code, as the server answered
  rst,       \* rstCode
  status,    \* the caller's statusstr
  pieces,    \* history: pieces of the reply the server has sent
  calls,     \* history: calls begun
  failed,    \* history: calls in which memory or the session was refused
  misused,   \* history: a freed block was used or freed again
  crashed    \* the process has died

reply   == <<text, ended, size>>
outcome == <<curl, http, rst, status>>
history == <<calls, failed, misused>>
vars == <<pc, op, ptr, lost, globals, reply, outcome, pieces, history, crashed>>

\* The operations and the URL each posts to; uploadDatas takes its caller's.
UrlOf == [regOrigImage          |-> "regOrigImgUrl",
          sendOT1ListFile       |-> "ot1ListUrl",
          sendOT2CutImage       |-> "sendOt2CutImageListUrl",
          sendOT2CutImageRef    |-> "sendOt2CutImageListUrl",
          sendImageQualityFile  |-> "imageQualityFileUrl",
          sendFitsPreview       |-> "sendFitsPreviewUrl",
          sendMagCalibrationFile |-> "sendMagCalibrationUrl",
          sendLookBackResult    |-> "lookBackResultUrl",
          sendLogMsg            |-> "sendLogMsgUrl"]
Sends == DOMAIN UrlOf
Ops == Sends \cup {"uploadDatas"}

\* flagStr and the msgCode are printed into ten characters.
Numbered == {"sendLookBackResult", "sendLogMsg"}

Urls == {UrlOf[o] : o \in Sends} \cup {"getOt2CutImageListUrl", "ot2TmplCutImageListUrl"}
Locals == {"curlSession", "formpost", "headerlist", "reqErrorBuf", "fullUrl"}
Blocks == Urls \cup Locals \cup {"tmpChunk", "memory"}

Noise == 0
NoStatus == [is |-> "none", text |-> <<>>]
Error == [is |-> "error", text |-> <<>>]
Codes == {"SUCCESS", "STATUS_STR_NULL", "INPUT_NULL", "INPUT_EMPTY", "SEND_DATA_ERROR"}

Init ==
  /\ pc = "none" /\ op \in Ops
  /\ ptr = [b \in Blocks |-> "null"] /\ lost = [b \in Blocks |-> 0]
  /\ globals = 0
  /\ text = <<>> /\ ended = FALSE /\ size = 0
  /\ curl = "none" /\ http = "none" /\ rst = "SUCCESS" /\ status = NoStatus
  /\ pieces = 0 /\ calls = 0 /\ failed = 0
  /\ misused = FALSE /\ crashed = FALSE

-----------------------------------------------------------------------------
(* Blocks. *)

\* free of the blocks B, which may be NULL.
Free(B) ==
  /\ ptr' = [b \in Blocks |-> IF b \in B /\ ptr[b] = "live" THEN "freed" ELSE ptr[b]]
  /\ misused' = (misused \/ \E b \in B : ptr[b] = "freed")

\* The pointers B are set to new blocks, or to NULL; what they held is not freed.
Assign(B, v) ==
  /\ ptr' = [b \in Blocks |-> IF b \in B THEN v ELSE ptr[b]]
  /\ lost' = [b \in Blocks |-> IF b \in B /\ ptr[b] = "live" THEN lost[b] + 1 ELSE lost[b]]

-----------------------------------------------------------------------------
(* Construction and destruction. *)

\* joinStr: the block b with a URL in it, or NULL if malloc refuses it.
JoinStr(b, refused) == IF b \in refused THEN "null" ELSE "live"

\* initParameter joins the URLs; then the constructor sets getOt2CutImageListUrl
\* to NULL, joined or not.
Construct ==
  /\ pc = "none"
  /\ \E refused \in {{}} \cup {{b} : b \in Urls \cup {"tmpChunk"}} :
       /\ ptr' = [b \in Blocks |->
                    IF b \in (Urls \cup {"tmpChunk"}) \ {"getOt2CutImageListUrl"}
                      THEN JoinStr(b, refused) ELSE "null"]
       /\ lost' = [lost EXCEPT !["getOt2CutImageListUrl"] =
                    IF JoinStr("getOt2CutImageListUrl", refused) = "live" THEN 1 ELSE 0]
  /\ pc' = "idle"
  /\ UNCHANGED <<op, globals, reply, outcome, pieces, history, crashed>>

\* Mutant: the destructor frees the reply, too.
DestroyAll ==
  /\ pc = "idle"
  /\ Free(Urls \cup {"tmpChunk", "memory"})
  /\ pc' = "destroyed"
  /\ UNCHANGED <<op, lost, globals, reply, outcome, pieces, calls, failed, crashed>>

\* ~DataTransfer: tmpChunk->memory is not freed.
Destroy ==
  /\ pc = "idle"
  /\ Free(Urls \cup {"tmpChunk"})
  /\ lost' = [lost EXCEPT !["memory"] = IF ptr["memory"] = "live" THEN @ + 1 ELSE @]
  /\ pc' = "destroyed"
  /\ UNCHANGED <<op, globals, reply, outcome, pieces, calls, failed, crashed>>

-----------------------------------------------------------------------------
(* A call: the arguments, and the checks of uploadDatas. *)

\* Operations whose URL may be v: that of uploadDatas is its caller's.
With(v) == {o \in Sends : ptr[UrlOf[o]] = v} \cup {"uploadDatas"}

\* A number of ten digits and more overruns its ten characters: undefined.
Call(o) ==
  /\ pc = "idle" /\ calls < MaxCalls
  /\ op' = o /\ calls' = calls + 1
  /\ status' = NoStatus /\ curl' = "none" /\ http' = "none"
  /\ rst' = "SUCCESS" /\ pieces' = 0
  /\ pc' = "check"
  /\ crashed' \in IF o \in Numbered THEN BOOLEAN ELSE {FALSE}
  /\ UNCHANGED <<ptr, lost, globals, reply, failed, misused>>

Refuse(code, st) ==
  /\ rst' = code /\ status' = st
  /\ pc' = "return"
  /\ UNCHANGED <<op, ptr, lost, globals, reply, curl, http, pieces, history, crashed>>

\* CHECK_STATUS_STR_IS_NULL: nothing in the program passes NULL, a caller may.
StatusIsNull == pc = "check" /\ Refuse("STATUS_STR_NULL", NoStatus)

\* CHECK_STRING_NULL_OR_EMPTY(url).
RefuseUrl == pc = "check" /\ op \in With("null") /\ Refuse("INPUT_NULL", Error)

\* Nothing to send: only uploadDatas itself can be asked to.
RefuseEmpty == pc = "check" /\ op = "uploadDatas" /\ Refuse("INPUT_EMPTY", Error)

ChecksPass == pc = "check" /\ op \in With("live")

\* Mutant: the size of the last reply is kept.
PrepareKeepsSize ==
  /\ ChecksPass
  /\ Assign({"memory", "formpost", "headerlist"}, "live")
  /\ text' = <<Noise>> /\ ended' = FALSE
  /\ globals' = globals + 1
  /\ crashed' = (ptr["tmpChunk"] = "null")
  /\ misused' = (misused \/ ptr["tmpChunk"] = "freed")
  /\ pc' = "session"
  /\ UNCHANGED <<op, size, outcome, pieces, calls, failed>>

\* A byte for the reply, curl_global_init, the form.  Without tmpChunk the
\* process dies here.
Prepare ==
  /\ ChecksPass
  /\ Assign({"memory", "formpost", "headerlist"}, "live")
  /\ text' = <<Noise>> /\ ended' = FALSE /\ size' = 0
  /\ globals' = globals + 1
  /\ crashed' = (ptr["tmpChunk"] = "null")
  /\ misused' = (misused \/ ptr["tmpChunk"] = "freed")
  /\ pc' = "session"
  /\ UNCHANGED <<op, outcome, pieces, calls, failed>>

-----------------------------------------------------------------------------
(* The session. *)

\* curl_easy_init, the two buffers and the options.  The buffers are not
\* tested: memset of a NULL kills the process.
OpenSession ==
  /\ pc = "session"
  /\ Assign({"curlSession", "reqErrorBuf", "fullUrl"}, "live")
  /\ crashed' \in BOOLEAN
  /\ pc' = "perform"
  /\ UNCHANGED <<op, globals, reply, outcome, pieces, history>>

\* No session: nothing is freed, and libcurl is not cleaned up.
NoSession ==
  /\ pc = "session"
  /\ rst' = "SEND_DATA_ERROR" /\ status' = Error
  /\ failed' = failed + 1
  /\ pc' = "return"
  /\ UNCHANGED <<op, ptr, lost, globals, reply, curl, http, pieces, calls, misused, crashed>>

\* WriteMemoryCallback: a piece of the reply is put behind the size so far.
Receive ==
  /\ pc = "perform" /\ pieces < MaxPieces
  /\ text' = [i \in 1 .. size + 1 |->
                IF i = size + 1 THEN pieces + 1
                ELSE IF i \in DOMAIN text THEN text[i] ELSE Noise]
  /\ ended' = TRUE /\ size' = size + 1
  /\ pieces' = pieces + 1
  /\ misused' = (misused \/ ptr["memory"] = "freed")
  /\ ptr' = [ptr EXCEPT !["memory"] = "live"]
  /\ UNCHANGED <<pc, op, lost, globals, outcome, calls, failed, crashed>>

\* realloc returned NULL: the block it did not free is lost, and the 0 that is
\* returned makes curl give up.
ReceiveRefused ==
  /\ pc = "perform" /\ pieces < MaxPieces
  /\ Assign({"memory"}, "null")
  /\ pieces' = pieces + 1 /\ failed' = failed + 1
  /\ curl' = "WRITE_ERROR"
  /\ pc' = "report"
  /\ UNCHANGED <<op, globals, reply, http, rst, status, calls, misused, crashed>>

\* The connection fails, before the reply or in the middle of it.
PerformFails ==
  /\ pc = "perform"
  /\ curl' = "FAILED"
  /\ pc' = "report"
  /\ UNCHANGED <<op, ptr, lost, globals, reply, http, rst, status, pieces, history, crashed>>

\* The reply is complete, perhaps empty.
PerformEnds ==
  /\ pc = "perform"
  /\ curl' = "OK" /\ http' \in {"200", "other"}
  /\ pc' = "report"
  /\ UNCHANGED <<op, ptr, lost, globals, reply, rst, status, pieces, history, crashed>>

-----------------------------------------------------------------------------
(* The end of the call. *)

\* Mutant: the error returns at once.
ReportErrorReturns ==
  /\ pc = "report" /\ curl # "OK"
  /\ rst' = "SEND_DATA_ERROR" /\ status' = Error
  /\ pc' = "return"
  /\ UNCHANGED <<op, ptr, lost, globals, reply, curl, http, pieces, history, crashed>>

ReportError ==
  /\ pc = "report" /\ curl # "OK"
  /\ rst' = "SEND_DATA_ERROR" /\ status' = Error
  /\ pc' = "release"
  /\ UNCHANGED <<op, ptr, lost, globals, reply, curl, http, pieces, history, crashed>>

\* The HTTP status decides.  The reply is printed as a string into statusstr: one
\* that does not fit overruns it, one without an end is read beyond (undefined).
ReportAnswer ==
  /\ pc = "report" /\ curl = "OK"
  /\ IF http = "200"
       THEN /\ rst' = "SUCCESS"
            /\ status' = [is |-> IF ended THEN "reply" ELSE "unknown", text |-> text]
            /\ crashed' \in IF ended /\ Len(text) <= StatusUnits THEN {FALSE} ELSE BOOLEAN
       ELSE /\ rst' = "SEND_DATA_ERROR" /\ status' = Error
            /\ UNCHANGED crashed
  /\ pc' = "release"
  /\ UNCHANGED <<op, ptr, lost, globals, reply, curl, http, pieces, history>>

Release ==
  /\ pc = "release"
  /\ Free(Locals \cup {"memory"})
  /\ globals' = globals - 1
  /\ pc' = "return"
  /\ UNCHANGED <<op, lost, reply, outcome, pieces, calls, failed, crashed>>

\* The pointers of the frame are gone.
Return ==
  /\ pc = "return"
  /\ Assign(Locals, "null")
  /\ pc' = "idle"
  /\ UNCHANGED <<op, globals, reply, outcome, pieces, history, crashed>>

-----------------------------------------------------------------------------

Next ==
  /\ ~crashed
  /\ \/ Construct
     \/ \E o \in Ops : Call(o)
     \/ StatusIsNull
     \/ RefuseUrl
     \/ RefuseEmpty
     \/ Prepare
     \/ OpenSession
     \/ NoSession
     \/ Receive
     \/ ReceiveRefused
     \/ PerformFails
     \/ PerformEnds
     \/ ReportError
     \/ ReportAnswer
     \/ Release
     \/ Return
     \/ Destroy

Spec == Init /\ [][Next]_vars

-----------------------------------------------------------------------------
(* Properties. *)

\* No sequence of calls, whatever fails in them, uses a freed block or frees one
\* twice: tmpChunk->memory dangles between two calls and nothing clears it.
NoMisuse == ~misused

\* What a call takes it gives back, and libcurl is cleaned up as often as it was
\* initialised, unless a call was refused its memory or its session; and then
\* each such call leaks each block once at most.  The writer registers a file for
\* every image of the night with one object.
OnlyFailuresLeak ==
  pc \in {"idle", "destroyed"} /\ ~crashed =>
    /\ \A b \in Blocks \ {"getOt2CutImageListUrl"} : lost[b] <= failed
    /\ globals <= failed
    /\ \A b \in Locals : ptr[b] = "null"

\* A call returns success only for a complete answer 200, and always for one; the
\* status is then that answer, every piece in its place and none of an earlier
\* call (unless the answer is empty: then it is what malloc left).
SuccessIsAnswer ==
  pc = "return" =>
    /\ rst = "SUCCESS" <=> curl = "OK" /\ http = "200"
    /\ rst = "SUCCESS" /\ pieces > 0 =>
         status = [is |-> "reply", text |-> [i \in 1 .. pieces |-> i]]
================================================================================
