------------------------------ MODULE FileTransfer ------------------------------
(***************************************************************************)
(* What the file server promises a client that keeps to AsciiProtocol.h,   *)
(* with no thread, no message queue, no buffer and no byte: one file at a  *)
(* time is offered, answered READY, taken whole by the writer or refused   *)
(* by it, and answered COMPLETE.  The client may leave at any moment; what *)
(* was taken by then stays, and what was still on its way may be taken.    *)
(* FileReceiver.tla is shown to implement this for such clients.           *)
(***************************************************************************)
EXTENDS Sequences

CONSTANTS Files, NoFile,
          Whole      \* the content of each file

VARIABLES
  here,      \* the client has not left
  todo,      \* files it has not offered yet
  file,      \* the file it is at, or NoFile
  stage,     \* how far that is
  said,      \* the status on its way to the client
  saved,     \* what the writer took, in order, stored or not yet
  refused,   \* whole files it did not take
  told       \* files the client knows to be COMPLETE

clientVars == <<here, todo, file, told>>
keptVars == <<saved, refused>>
transferVars == <<clientVars, stage, said, keptVars>>

TransferInit ==
  /\ here = TRUE /\ todo \subseteq Files /\ file = NoFile /\ told = {}
  /\ stage = "idle" /\ said = <<>>
  /\ saved = <<>> /\ refused = {}

Offer(f) ==
  /\ here /\ stage = "idle" /\ f \in todo
  /\ file' = f /\ todo' = todo \ {f}
  /\ stage' = "offered"
  /\ UNCHANGED <<here, told, said, keptVars>>

Grant ==
  /\ stage = "offered"
  /\ stage' = "granted" /\ said' = <<"READY">>
  /\ UNCHANGED <<clientVars, keptVars>>

Begin ==
  /\ here /\ stage = "granted"
  /\ stage' = "sending" /\ said' = <<>>
  /\ UNCHANGED <<clientVars, keptVars>>

\* The file is taken once, whole, and behind those taken before; or refused.
Take ==
  /\ stage = "sending"
  /\ \/ saved' = Append(saved, [file |-> file, data |-> Whole[file]]) /\ UNCHANGED refused
     \/ refused' = refused \cup {file} /\ UNCHANGED saved
  /\ stage' = "taken"
  /\ UNCHANGED <<clientVars, said>>

\* COMPLETE is said of a file that was taken or refused, never before.
Answer ==
  /\ stage = "taken"
  /\ stage' = "answered" /\ said' = <<"COMPLETE">>
  /\ UNCHANGED <<clientVars, keptVars>>

Finish ==
  /\ here /\ stage = "answered" /\ said = <<"COMPLETE">>
  /\ told' = told \cup {file} /\ file' = NoFile
  /\ stage' = "idle" /\ said' = <<>>
  /\ UNCHANGED <<here, todo, keptVars>>

\* COMPLETE reached a client that did not know yet it had sent everything.
HangUp ==
  /\ here /\ stage = "answered" /\ said = <<"COMPLETE">>
  /\ here' = FALSE /\ said' = <<>>
  /\ UNCHANGED <<todo, file, told, stage, keptVars>>

Leave ==
  /\ here
  /\ here' = FALSE
  /\ UNCHANGED <<todo, file, told, stage, said, keptVars>>

TransferNext ==
  \/ \E f \in Files : Offer(f)
  \/ Grant
  \/ Begin
  \/ Take
  \/ Answer
  \/ Finish
  \/ HangUp
  \/ Leave

TransferSpec == TransferInit /\ [][TransferNext]_transferVars
================================================================================
