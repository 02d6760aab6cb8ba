------------------------------- MODULE FileStore -------------------------------
(***************************************************************************)
(* What the file writer promises to the connections that feed it, with no  *)
(* thread, no lock and no condition variable: files are accepted into a    *)
(* FIFO, the oldest one is stored, nothing is stored twice and nothing is  *)
(* dropped while the store is up.  FileWritter.tla is shown to implement   *)
(* this for a single connection; FileReceiver.tla uses it as its writer.   *)
(***************************************************************************)
EXTENDS Sequences

CONSTANT Files      \* what is stored

VARIABLES pending,  \* accepted, oldest first
          stored,   \* on disk, in the order of writing
          phase     \* "starting", "up", or "down" after a crash, a
                    \* destruction or too many errors

storeVars == <<pending, stored, phase>>

StoreInit ==
  /\ pending = <<>>
  /\ stored = <<>>
  /\ phase = "starting"

Open ==
  /\ phase = "starting"
  /\ phase' = "up"
  /\ UNCHANGED <<pending, stored>>

\* A file that was handed over while the store was up may enter the queue
\* after it went down; one handed over before it is up is refused.
Accept(f) ==
  /\ phase # "starting"
  /\ pending' = Append(pending, f)
  /\ UNCHANGED <<stored, phase>>

Store ==
  /\ phase = "up"
  /\ pending # <<>>
  /\ stored' = Append(stored, Head(pending))
  /\ pending' = Tail(pending)
  /\ UNCHANGED phase

Halt ==
  /\ phase # "down"
  /\ phase' = "down"
  /\ UNCHANGED <<pending, stored>>

StoreNext ==
  \/ Open
  \/ \E f \in Files : Accept(f)
  \/ Store
  \/ Halt

StoreSpec == StoreInit /\ [][StoreNext]_storeVars
================================================================================
