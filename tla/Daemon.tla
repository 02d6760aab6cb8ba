--------------------------------- MODULE Daemon --------------------------------
(***************************************************************************)
(* The life of the process: src/src/ftserver.cpp (main), daemon.cpp (the   *)
(* PID file and its lock) and parameter.h (the configuration file), with   *)
(* the calls main makes to TransferAgent.  Several instances may be        *)
(* started; each can be killed at any step, and the administrator edits    *)
(* the configuration whenever he likes.                                    *)
(*                                                                         *)
(* A process is its PID.  The two forks come before anything is shared, so *)
(* that the three processes of one start are one here.  A file is its      *)
(* contents: the PID file names a process or nobody, the configuration is  *)
(* NoXml (missing, or cut inside of an element) or the settings with the   *)
(* index of the disk in use, which is all the program itself ever changes. *)
(* A file that is empty, or cut between two elements, can be read as well: *)
(* it says one of the settings in Cut, with some sections and not others.  *)
(*                                                                         *)
(* Left out: the other values of the configuration, the log, and           *)
(* "ftserver -d", which writes a new file in the current directory.        *)
(***************************************************************************)
EXTENDS Naturals

CONSTANTS Procs, NoProc,
          Settings,    \* what a configuration file can say
          Default,     \* the settings of InitFile
          Cut,         \* those without one of the sections the service needs
          Disks,       \* Disks[s]: nStorage, 0 without a LocalStorage section
          Indexes,     \* values iStorage can have
          NoXml

ASSUME ProcAssumption == NoProc \notin Procs
ASSUME SettingsAssumption ==
  /\ Cut \subseteq Settings /\ Default \in Settings \ Cut
  /\ Disks \in [Settings -> Nat]
  /\ Disks[Default] > 0
  /\ NoXml \notin [set : Settings, index : Nat]
  /\ Indexes \subseteq Nat
  /\ \A s \in Settings : 0 .. Disks[s] - 1 \subseteq Indexes
  /\ 0 \in Indexes

VARIABLES
  pc,        \* where each process is
  lock,      \* owner of the write lock on the PID file
  pidfile,   \* the process it names
  xml,       \* the configuration file
  param,     \* param_ of each process: settings, iStorage, iOld
  copy,      \* pt of ~param_config
  asked,     \* history: settings last asked for; the defaults if there was no file
  raced,     \* history: were they asked for while a process rewrote the file?
  torn       \* history: has a process died since, with the file open and not written?

pids == <<lock, pidfile>>
hist == <<asked, raced, torn>>
conf == <<xml, hist>>
own  == <<param, copy>>
vars == <<pc, pids, conf, own>>

\* After isProcSingleton.
Single == {"single", "init", "initing", "loaded", "found", "serving", "leaving",
           "saving", "writing", "exit"}
Named == {"named"} \cup Single
Locked == {"locked", "truncated"} \cup Named
Open == {"initing", "writing"}             \* the file is open for write_xml
Rewriting == Open \cup {"init", "saving"}
Steps == {"off", "daemon", "opened"} \cup Locked

Config(s, i) == [set |-> s, index |-> i]
Param(s, i, o) == [set |-> s, index |-> i, old |-> o]
Blank == Param(Default, 0, 0)

TypeOK ==
  /\ pc \in [Procs -> Steps]
  /\ lock \in Procs \cup {NoProc}
  /\ pidfile \in Procs \cup {NoProc}
  /\ xml \in [set : Settings, index : Indexes] \cup {NoXml}
  /\ param \in [Procs -> [set : Settings, index : Indexes, old : Indexes]]
  /\ copy \in [Procs -> [set : Settings, index : Indexes]]
  /\ asked \in Settings
  /\ raced \in BOOLEAN /\ torn \in BOOLEAN

Init ==
  /\ pc = [p \in Procs |-> "off"]
  /\ lock = NoProc /\ pidfile = NoProc
  /\ asked \in Settings /\ raced = FALSE /\ torn = FALSE
  /\ \/ xml = Config(asked, 0)
     \/ xml = NoXml /\ asked = Default
  /\ param = [p \in Procs |-> Blank]
  /\ copy = [p \in Procs |-> Config(Default, 0)]

Goes(p, from, to) == pc[p] = from /\ pc' = [pc EXCEPT ![p] = to]

\* The process ends: its lock is released, its memory is gone, its files stay.
Ends(p) ==
  /\ pc' = [pc EXCEPT ![p] = "off"]
  /\ lock' = IF lock = p THEN NoProc ELSE lock
  /\ param' = [param EXCEPT ![p] = Blank]
  /\ copy' = [copy EXCEPT ![p] = Config(Default, 0)]
  /\ torn' = (torn \/ pc[p] \in Open)
  /\ UNCHANGED <<pidfile, xml, asked, raced>>

-----------------------------------------------------------------------------
(* main: MakeItDaemon and isProcSingleton. *)

\* A fork that fails ends the start with nothing done.
MakeItDaemon(p) == Goes(p, "off", "daemon") /\ UNCHANGED <<pids, conf, own>>

\* Mutant: O_TRUNC.
OpenTruncates(p) ==
  /\ Goes(p, "daemon", "opened")
  /\ pidfile' = NoProc
  /\ UNCHANGED <<lock, conf, own>>

\* open, without O_TRUNC.
OpenPidFile(p) == Goes(p, "daemon", "opened") /\ UNCHANGED <<pids, conf, own>>

\* F_SETLK does not wait.
LockPidFile(p) ==
  /\ Goes(p, "opened", "locked")
  /\ lock = NoProc
  /\ lock' = p
  /\ UNCHANGED <<pidfile, conf, own>>

LockRefused(p) ==
  /\ pc[p] = "opened"
  /\ lock # NoProc
  /\ Ends(p)

Truncate(p) ==
  /\ Goes(p, "locked", "truncated")
  /\ pidfile' = NoProc
  /\ UNCHANGED <<lock, conf, own>>

WritePid(p) ==
  /\ Goes(p, "truncated", "named")
  /\ pidfile' = p
  /\ UNCHANGED <<lock, conf, own>>

\* Mutant: the descriptor is closed when the PID is written.
ClosePidFile(p) ==
  /\ Goes(p, "named", "single")
  /\ lock' = NoProc
  /\ UNCHANGED <<pidfile, conf, own>>

\* FD_CLOEXEC; the descriptor stays open for as long as the process lives.
SetCloexec(p) == Goes(p, "named", "single") /\ UNCHANGED <<pids, conf, own>>

-----------------------------------------------------------------------------
(* param_config::LoadFile and InitFile, in the constructor of the agent. *)

\* What the file does not say is left as it is, uninitialised: so are the indexes
\* without a LocalStorage section.
LoadFile(p) ==
  /\ Goes(p, "single", "loaded")
  /\ xml # NoXml
  /\ \E i, o \in Indexes :
       /\ Disks[xml.set] > 0 => i = xml.index /\ o = xml.index
       /\ param' = [param EXCEPT ![p] = Param(xml.set, i, o)]
  /\ UNCHANGED <<pids, conf, copy>>

\* xml_parser_error: InitFile begins to write the defaults.
LoadFails(p) ==
  /\ Goes(p, "single", "init")
  /\ xml = NoXml
  /\ UNCHANGED <<pids, conf, own>>

\* write_xml opens the file and what it said is gone: until all of it is written
\* it may be empty, or end inside or behind an element.
Opened(i) == xml' \in {NoXml} \cup {Config(s, i) : s \in Cut}

InitOpens(p) ==
  /\ Goes(p, "init", "initing")
  /\ Opened(0)
  /\ UNCHANGED <<pids, hist, own>>

InitFile(p) ==
  /\ Goes(p, "initing", "loaded")
  /\ xml' = Config(Default, 0)
  /\ param' = [param EXCEPT ![p] = Param(Default, 0, 0)]
  /\ UNCHANGED <<pids, hist, copy>>

-----------------------------------------------------------------------------
(* TransferAgent::StartService, the service, StopService. *)

\* The numbers of paths do not match, or no disk has room, or the port is taken.
StartFails(p) ==
  /\ \/ Goes(p, "loaded", "leaving")
     \/ Goes(p, "found", "leaving")
  /\ UNCHANGED <<pids, conf, own>>

\* find_storage comes to some disk with room.  It takes nStorage off an index
\* beyond the list once only: from twice the list on the process dies.  Without a
\* LocalStorage or a Template section a list is empty, and its number is 0 or
\* differs from that: the service is refused.
FindStorage(p) ==
  /\ Goes(p, "loaded", "found")
  /\ param[p].set \notin Cut
  /\ param[p].index < 2 * Disks[param[p].set]
  /\ \E i \in 0 .. Disks[param[p].set] - 1 : param' = [param EXCEPT ![p].index = i]
  /\ UNCHANGED <<pids, conf, copy>>

CreateServer(p) == Goes(p, "found", "serving") /\ UNCHANGED <<pids, conf, own>>

\* Mutant: the index is remembered as the saved one.
RotateRemembers(p) ==
  /\ pc[p] = "serving"
  /\ \E i \in 0 .. Disks[param[p].set] - 1 :
       param' = [param EXCEPT ![p].index = i, ![p].old = i]
  /\ UNCHANGED <<pc, pids, conf, copy>>

\* free_storage goes on to another disk.
Rotate(p) ==
  /\ pc[p] = "serving"
  /\ \E i \in 0 .. Disks[param[p].set] - 1 : param' = [param EXCEPT ![p].index = i]
  /\ UNCHANGED <<pc, pids, conf, copy>>

\* SIGINT or SIGTERM ends ios.run(): StopService, and the agent is destroyed.
Signal(p) == Goes(p, "serving", "leaving") /\ UNCHANGED <<pids, conf, own>>

-----------------------------------------------------------------------------
(* ~param_config and the end of the process. *)

NothingToSave(p) ==
  /\ Goes(p, "leaving", "exit")
  /\ param[p].index = param[p].old
  /\ UNCHANGED <<pids, conf, own>>

\* The file is read again, so that what else it says stays as it is.
SaveReads(p) ==
  /\ Goes(p, "leaving", "saving")
  /\ param[p].index # param[p].old
  /\ xml # NoXml
  /\ copy' = [copy EXCEPT ![p] = xml]
  /\ UNCHANGED <<pids, conf, param>>

SaveOpens(p) ==
  /\ Goes(p, "saving", "writing")
  /\ Opened(param[p].index)
  /\ UNCHANGED <<pids, hist, own>>

\* Mutant: the settings the process has, and not those of the file, are written.
SaveWritesOwn(p) ==
  /\ Goes(p, "writing", "exit")
  /\ xml' = Config(param[p].set, param[p].index)
  /\ UNCHANGED <<pids, hist, own>>

\* The index is put into the LocalStorage section, if there is one.
SaveWrites(p) ==
  /\ Goes(p, "writing", "exit")
  /\ xml' = IF Disks[copy[p].set] > 0
              THEN [copy[p] EXCEPT !.index = param[p].index]
              ELSE copy[p]
  /\ UNCHANGED <<pids, hist, own>>

Exit(p) == pc[p] = "exit" /\ Ends(p)

\* kill -9, a loss of power, an exception nobody catches, or an early return.
Die(p) == pc[p] # "off" /\ Ends(p)

\* The administrator puts other settings into the file, and leaves the index.
Edit(s) ==
  /\ xml' = Config(s, IF xml = NoXml THEN 0 ELSE xml.index)
  /\ asked' = s
  /\ raced' = \E p \in Procs : pc[p] \in Rewriting
  /\ torn' = FALSE
  /\ UNCHANGED <<pc, pids, own>>

-----------------------------------------------------------------------------

Main(p) ==
  \/ MakeItDaemon(p)
  \/ OpenPidFile(p)
  \/ LockPidFile(p)
  \/ LockRefused(p)
  \/ Truncate(p)
  \/ WritePid(p)
  \/ SetCloexec(p)
  \/ LoadFile(p)
  \/ LoadFails(p)
  \/ InitOpens(p)
  \/ InitFile(p)
  \/ StartFails(p)
  \/ FindStorage(p)
  \/ CreateServer(p)
  \/ Rotate(p)
  \/ Signal(p)
  \/ NothingToSave(p)
  \/ SaveReads(p)
  \/ SaveOpens(p)
  \/ SaveWrites(p)
  \/ Exit(p)
  \/ Die(p)

Next == (\E p \in Procs : Main(p)) \/ (\E s \in Settings : Edit(s))

Spec == Init /\ [][Next]_vars

-----------------------------------------------------------------------------
(* Properties. *)

\* However many instances are started and whichever of them are killed, one at
\* most gets past isProcSingleton: two would write one configuration and clean
\* one set of disks.
AtMostOneServes == \A p, q \in Procs : pc[p] \in Single /\ pc[q] \in Single => p = q

\* The PID file names the instance that serves, whatever the refused ones did to
\* it: it is what a stop script reads.
PidFileNamesIt == \A p \in Procs : pc[p] \in Single => pidfile = p

\* What the administrator has put into the configuration stays there, or the defaults
\* if he has put nothing, over starts, stops and kills: whoever rewrites the file puts
\* back what it said (parameter.h:49-60).  It fails in two cases, which the condition
\* names and nothing in the code prevents: he did so while a process was rewriting the
\* file, or a process died after it had opened the file and before it was written.
Says == IF xml = NoXml THEN Default ELSE xml.set
SettingsAreAsked ==
  (\A p \in Procs : pc[p] \notin Open) /\ ~raced /\ ~torn => Says = asked

\* A clean stop leaves in the file the disk that was in use, so that the next
\* instance goes on with it.
Stops(p) == pc[p] \in {"leaving", "writing"} /\ pc'[p] = "exit"
HaveDisks(p) == Disks[param[p].set] > 0 /\ Disks[xml'.set] > 0
StopKeepsDisk ==
  [][\A p \in Procs : Stops(p) /\ HaveDisks(p) => xml'.index = param[p].index]_vars
================================================================================
