------------------------------ MODULE DaemonProofs -----------------------------
(***************************************************************************)
(* Proofs about Daemon, for any set of processes and any settings.         *)
(***************************************************************************)
EXTENDS Daemon, TLAPS

\* A process from the lock onwards owns it.
LockInv == \A p \in Procs : pc[p] \in Locked => lock = p

\* A process from the PID onwards is named.
PidInv == \A p \in Procs : pc[p] \in Named => pidfile = p

\* What is in the file that nobody has open, and what a process is about to write,
\* was asked for.
Wanted(s) == s = asked \/ raced \/ torn
SetInv ==
  /\ (\A p \in Procs : pc[p] \notin Open) => Wanted(Says)
  /\ \A p \in Procs : /\ pc[p] \in {"init", "initing"} => Wanted(Default)
                      /\ pc[p] \in {"saving", "writing"} => Wanted(copy[p].set)

\* The index in the file is the one the process that serves has loaded, up to the
\* moment it writes its own.
IndexInv ==
  \A p \in Procs :
    pc[p] \in {"loaded", "found", "serving", "leaving"} =>
      /\ xml # NoXml
      /\ Disks[param[p].set] > 0 => xml.index = param[p].old

-----------------------------------------------------------------------------

\* A configuration is not a missing one.
LEMMA ConfigThere ==
  ASSUME NEW c, NEW s \in Settings, NEW i \in Indexes, c = Config(s, i)
  PROVE  c # NoXml /\ c.set = s /\ c.index = i /\ c \in [set : Settings, index : Indexes]
BY SettingsAssumption DEF Config

\* The types of Daemon.
THEOREM TypeCorrect == Spec => []TypeOK
<1>1. Init => TypeOK
  <2> SUFFICES ASSUME Init PROVE TypeOK
    OBVIOUS
  <2>1. Config(asked, 0) \in [set : Settings, index : Indexes]
    BY SettingsAssumption DEF Init, Config
  <2>2. Config(Default, 0) \in [set : Settings, index : Indexes]
    BY SettingsAssumption DEF Config
  <2>3. Blank \in [set : Settings, index : Indexes, old : Indexes]
    BY SettingsAssumption DEF Blank, Param
  <2>4. pc \in [Procs -> Steps]
    BY DEF Init, Steps
  <2> HIDE DEF Config, Blank
  <2> QED BY <2>1, <2>2, <2>3, <2>4 DEF Init, TypeOK
<1>2. TypeOK /\ [Next]_vars => TypeOK'
  <2> SUFFICES ASSUME TypeOK, [Next]_vars PROVE TypeOK'
    OBVIOUS
  <2> USE SettingsAssumption DEF TypeOK, Steps, Locked, Named, Single
  <2>1. ASSUME NEW p \in Procs, Ends(p) PROVE TypeOK'
    BY <2>1 DEF Ends, Blank, Param, Config
  <2>2. ASSUME NEW p \in Procs,
               \/ MakeItDaemon(p) \/ OpenPidFile(p) \/ SetCloexec(p) \/ LoadFails(p)
               \/ StartFails(p) \/ CreateServer(p) \/ Signal(p) \/ NothingToSave(p)
        PROVE TypeOK'
    BY <2>2 DEF MakeItDaemon, OpenPidFile, SetCloexec, LoadFails, StartFails,
                CreateServer, Signal, NothingToSave, Goes, pids, conf, hist, own
  <2>3. ASSUME NEW p \in Procs, LockPidFile(p) \/ Truncate(p) \/ WritePid(p)
        PROVE TypeOK'
    BY <2>3 DEF LockPidFile, Truncate, WritePid, Goes, conf, hist, own
  <2>4. ASSUME NEW p \in Procs, LoadFile(p) PROVE TypeOK'
    <3>1. xml \in [set : Settings, index : Indexes]
      BY <2>4 DEF LoadFile
    <3>2. PICK i, o \in Indexes : param' = [param EXCEPT ![p] = Param(xml.set, i, o)]
      BY <2>4 DEF LoadFile
    <3>3. Param(xml.set, i, o) \in [set : Settings, index : Indexes, old : Indexes]
      BY <3>1 DEF Param
    <3>4. param' \in [Procs -> [set : Settings, index : Indexes, old : Indexes]]
      BY <3>2, <3>3
    <3> QED BY <2>4, <3>4 DEF LoadFile, Goes, pids, conf, hist
  <2>5. ASSUME NEW p \in Procs, InitFile(p) PROVE TypeOK'
    BY <2>5 DEF InitFile, Goes, pids, hist, Param, Config
  <2>6. ASSUME NEW p \in Procs, FindStorage(p) \/ Rotate(p) PROVE TypeOK'
    <3>1. param[p] \in [set : Settings, index : Indexes, old : Indexes]
      OBVIOUS
    <3>2. 0 .. Disks[param[p].set] - 1 \subseteq Indexes
      BY <3>1
    <3>3. PICK i \in Indexes : param' = [param EXCEPT ![p].index = i]
      BY <2>6, <3>2 DEF FindStorage, Rotate
    <3>4. param' \in [Procs -> [set : Settings, index : Indexes, old : Indexes]]
      BY <3>1, <3>3
    <3>5. pc' \in [Procs -> Steps]
      BY <2>6 DEF FindStorage, Rotate, Goes
    <3>6. UNCHANGED <<lock, pidfile, xml, asked, raced, torn, copy>>
      BY <2>6 DEF FindStorage, Rotate, pids, conf, hist
    <3> QED BY <3>4, <3>5, <3>6
  <2>7. ASSUME NEW p \in Procs, SaveReads(p) \/ SaveOpens(p) \/ InitOpens(p) PROVE TypeOK'
    <3>1. CASE SaveReads(p)
      <4>1. xml \in [set : Settings, index : Indexes] /\ copy' = [copy EXCEPT ![p] = xml]
        BY <3>1 DEF SaveReads
      <4>2. copy' \in [Procs -> [set : Settings, index : Indexes]]
        BY <4>1
      <4> QED BY <3>1, <4>2 DEF SaveReads, Goes, pids, conf, hist
    <3>2. CASE SaveOpens(p) \/ InitOpens(p)
      <4>1. PICK i \in Indexes : Opened(i)
        <5>1. param[p].index \in Indexes
          OBVIOUS
        <5> QED BY <3>2, <5>1 DEF SaveOpens, InitOpens
      <4>2. xml' \in [set : Settings, index : Indexes] \cup {NoXml}
        BY <4>1 DEF Opened, Config
      <4> QED BY <3>2, <4>2 DEF SaveOpens, InitOpens, Goes, pids, hist, own
    <3> QED BY <2>7, <3>1, <3>2
  <2>8. ASSUME NEW p \in Procs, SaveWrites(p) PROVE TypeOK'
    BY <2>8 DEF SaveWrites, Goes, pids, hist, own
  <2>9. ASSUME NEW s \in Settings, Edit(s) PROVE TypeOK'
    BY <2>9 DEF Edit, pids, own, Config
  <2>10. CASE UNCHANGED vars
    BY <2>10 DEF vars, pids, conf, hist, own
  <2> QED BY <2>1, <2>2, <2>3, <2>4, <2>5, <2>6, <2>7, <2>8, <2>9, <2>10
          DEF Next, Main, LockRefused, Exit, Die
<1> QED BY <1>1, <1>2, PTL DEF Spec

-----------------------------------------------------------------------------

\* The lock has one owner, which is every process past it.
THEOREM LockOwned == Spec => []LockInv
<1>1. Init => LockInv
  BY DEF Init, LockInv, Locked, Named, Single
<1>2. TypeOK /\ LockInv /\ [Next]_vars => LockInv'
  <2> SUFFICES ASSUME TypeOK, LockInv, [Next]_vars, NEW q \in Procs, pc'[q] \in Locked
               PROVE lock' = q
    BY DEF LockInv
  <2>0. pc \in [Procs -> Steps] /\ (pc[q] \in Locked => lock = q)
    BY DEF TypeOK, LockInv
  <2> USE <2>0 DEF Locked, Named, Single
  <2>1. ASSUME NEW p \in Procs, Ends(p) PROVE lock' = q
    <3>1. q # p
      BY <2>1 DEF Ends
    <3> QED BY <2>1, <3>1, ProcAssumption DEF Ends
  <2>2. ASSUME NEW p \in Procs, LockPidFile(p) PROVE lock' = q
    BY <2>2, ProcAssumption DEF LockPidFile, Goes
  <2>3. ASSUME NEW p \in Procs, NEW from, NEW to, Goes(p, from, to), lock' = lock,
               to \in Locked => from \in Locked
        PROVE lock' = q
    BY <2>3 DEF Goes
  <2>4. ASSUME NEW p \in Procs, Main(p) PROVE lock' = q
    <3>1. CASE LockRefused(p) \/ Exit(p) \/ Die(p)
      BY <3>1, <2>1 DEF LockRefused, Exit, Die
    <3>2. CASE \/ MakeItDaemon(p) \/ OpenPidFile(p) \/ Truncate(p) \/ WritePid(p)
               \/ SetCloexec(p) \/ LoadFile(p) \/ LoadFails(p) \/ InitOpens(p) \/ InitFile(p)
               \/ StartFails(p) \/ FindStorage(p) \/ CreateServer(p)
      BY <3>2, <2>3 DEF MakeItDaemon, OpenPidFile, Truncate, WritePid, SetCloexec,
           LoadFile, LoadFails, InitOpens, InitFile, StartFails, FindStorage, CreateServer, pids
    <3>3. CASE \/ Signal(p) \/ NothingToSave(p) \/ SaveReads(p) \/ SaveOpens(p)
               \/ SaveWrites(p)
      BY <3>3, <2>3 DEF Signal, NothingToSave, SaveReads, SaveOpens, SaveWrites, pids
    <3>4. CASE Rotate(p)
      BY <3>4 DEF Rotate, pids
    <3> QED BY <2>2, <2>4, <3>1, <3>2, <3>3, <3>4 DEF Main
  <2>5. CASE (\E s \in Settings : Edit(s)) \/ UNCHANGED vars
    BY <2>5 DEF Edit, vars, pids
  <2> QED BY <2>4, <2>5 DEF Next
<1> QED BY <1>1, <1>2, TypeCorrect, PTL DEF Spec

\* Of all the instances that are started, one at most gets past isProcSingleton.
THEOREM OneServes == Spec => []AtMostOneServes
<1>1. LockInv => AtMostOneServes
  BY DEF LockInv, AtMostOneServes, Locked, Named
<1> QED BY <1>1, LockOwned, PTL

\* The PID file names the instance that serves: whoever cuts or writes it has the
\* lock, so that nobody is named at that time.
THEOREM PidFileIsRight == Spec => []PidFileNamesIt
<1>1. Init => PidInv
  BY DEF Init, PidInv, Named, Single
<1>2. TypeOK /\ LockInv /\ PidInv /\ [Next]_vars => PidInv'
  <2> SUFFICES ASSUME TypeOK, LockInv, PidInv, [Next]_vars, NEW q \in Procs, pc'[q] \in Named
               PROVE pidfile' = q
    BY DEF PidInv
  <2>0. /\ pc \in [Procs -> Steps]
        /\ pc[q] \in Locked => lock = q
        /\ pc[q] \in Named => pidfile = q
    BY DEF TypeOK, LockInv, PidInv
  <2> USE <2>0 DEF Locked, Named, Single
  <2>1. ASSUME NEW p \in Procs, Ends(p) PROVE pidfile' = q
    BY <2>1 DEF Ends
  <2>2. ASSUME NEW p \in Procs, WritePid(p) PROVE pidfile' = q
    <3>1. lock = p
      BY <2>2 DEF WritePid, Goes, LockInv
    <3> QED BY <2>2, <3>1 DEF WritePid, Goes
  <2>3. ASSUME NEW p \in Procs, Truncate(p) PROVE pidfile' = q
    <3>1. lock = p
      BY <2>3 DEF Truncate, Goes, LockInv
    <3> QED BY <2>3, <3>1 DEF Truncate, Goes
  <2>4. ASSUME NEW p \in Procs, NEW from, NEW to, Goes(p, from, to), pidfile' = pidfile,
               to \in Named => from \in Named
        PROVE pidfile' = q
    BY <2>4 DEF Goes
  <2>5. ASSUME NEW p \in Procs, Main(p) PROVE pidfile' = q
    <3>1. CASE LockRefused(p) \/ Exit(p) \/ Die(p)
      BY <3>1, <2>1 DEF LockRefused, Exit, Die
    <3>2. CASE \/ MakeItDaemon(p) \/ OpenPidFile(p) \/ LockPidFile(p)
               \/ SetCloexec(p) \/ LoadFile(p) \/ LoadFails(p) \/ InitOpens(p) \/ InitFile(p)
               \/ StartFails(p) \/ FindStorage(p) \/ CreateServer(p)
      BY <3>2, <2>4 DEF MakeItDaemon, OpenPidFile, LockPidFile, SetCloexec,
           LoadFile, LoadFails, InitOpens, InitFile, StartFails, FindStorage, CreateServer, pids
    <3>3. CASE \/ Signal(p) \/ NothingToSave(p) \/ SaveReads(p) \/ SaveOpens(p)
               \/ SaveWrites(p)
      BY <3>3, <2>4 DEF Signal, NothingToSave, SaveReads, SaveOpens, SaveWrites, pids
    <3>4. CASE Rotate(p)
      BY <3>4 DEF Rotate, pids
    <3> QED BY <2>2, <2>3, <2>5, <3>1, <3>2, <3>3, <3>4 DEF Main
  <2>6. CASE (\E s \in Settings : Edit(s)) \/ UNCHANGED vars
    BY <2>6 DEF Edit, vars, pids
  <2> QED BY <2>5, <2>6 DEF Next
<1>3. PidInv => PidFileNamesIt
  BY DEF PidInv, PidFileNamesIt, Named
<1> QED BY <1>1, <1>2, <1>3, TypeCorrect, LockOwned, PTL DEF Spec

-----------------------------------------------------------------------------

\* Two processes past isProcSingleton are one.
LEMMA Alone ==
  ASSUME LockInv, NEW p \in Procs, NEW q \in Procs, pc[p] \in Single, pc[q] \in Single
  PROVE  p = q
BY DEF LockInv, Locked, Named

\* The configuration says what was last asked for, or the defaults if nothing was,
\* unless somebody asked while a process was rewriting the file, or a process died
\* between the opening of the file and the end of the writing.
THEOREM SettingsStay == Spec => []SettingsAreAsked
<1>1. Init => SetInv
  <2> SUFFICES ASSUME Init PROVE SetInv
    OBVIOUS
  <2>1. Says = asked
    <3>1. CASE xml = NoXml /\ asked = Default
      BY <3>1 DEF Says
    <3>2. CASE xml = Config(asked, 0)
      <4>1. asked \in Settings /\ 0 \in Indexes
        BY SettingsAssumption DEF Init
      <4> QED BY <3>2, <4>1, ConfigThere DEF Says
    <3> QED BY <3>1, <3>2 DEF Init
  <2> QED BY <2>1 DEF Init, SetInv, Wanted
<1>2. TypeOK /\ LockInv /\ SetInv /\ [Next]_vars => SetInv'
  <2> SUFFICES ASSUME TypeOK, LockInv, SetInv, [Next]_vars PROVE SetInv'
    OBVIOUS
  <2>0. /\ pc \in [Procs -> Steps]
        /\ copy \in [Procs -> [set : Settings, index : Indexes]]
        /\ param \in [Procs -> [set : Settings, index : Indexes, old : Indexes]]
    BY DEF TypeOK
  <2> USE <2>0
  <2>1. ASSUME NEW p \in Procs, Ends(p) PROVE SetInv'
    <3>1. CASE pc[p] \in Open
      BY <2>1, <3>1 DEF Ends, SetInv, Wanted
    <3>2. CASE pc[p] \notin Open
      <4>1. torn' = torn /\ UNCHANGED <<xml, asked, raced>>
        BY <2>1, <3>2 DEF Ends, TypeOK
      <4>2. \A q \in Procs : q # p => pc'[q] = pc[q] /\ copy'[q] = copy[q]
        BY <2>1 DEF Ends
      <4>3. pc'[p] = "off"
        BY <2>1 DEF Ends
      <4>4. (\A q \in Procs : pc'[q] \notin Open) => \A q \in Procs : pc[q] \notin Open
        BY <3>2, <4>2
      <4> QED BY <4>1, <4>2, <4>3, <4>4 DEF SetInv, Wanted, Says
    <3> QED BY <3>1, <3>2
  <2>2. ASSUME NEW p \in Procs, NEW from, NEW to, Goes(p, from, to), UNCHANGED <<conf, copy>>,
               to \notin {"init", "saving"}, {from, to} \cap Open = {}
        PROVE SetInv'
    <3>1. \A q \in Procs : q # p => pc'[q] = pc[q]
      BY <2>2 DEF Goes
    <3>2. pc[p] = from /\ pc'[p] = to /\ from \notin Open /\ to \notin Open
      BY <2>2 DEF Goes
    <3>3. (\A q \in Procs : pc'[q] \notin Open) => \A q \in Procs : pc[q] \notin Open
      BY <3>1, <3>2
    <3> QED BY <2>2, <3>1, <3>2, <3>3 DEF Open, conf, hist, SetInv, Wanted, Says
  <2>3. ASSUME NEW p \in Procs, InitOpens(p) \/ SaveOpens(p) PROVE SetInv'
    <3>1. pc'[p] \in Open /\ UNCHANGED <<asked, raced, torn, copy>>
      BY <2>3 DEF InitOpens, SaveOpens, Goes, Open, hist, own
    <3> QED BY <2>3, <3>1 DEF InitOpens, SaveOpens, Goes, SetInv, Wanted
  <2>4. ASSUME NEW p \in Procs, LoadFails(p) \/ SaveReads(p) PROVE SetInv'
    <3>1. UNCHANGED <<xml, asked, raced, torn>>
      BY <2>4 DEF LoadFails, SaveReads, conf, hist
    <3>2. \A q \in Procs : pc[q] \notin Open
      <4>1. pc[p] \in Single \ Open
        BY <2>4 DEF LoadFails, SaveReads, Goes, Single, Open
      <4> QED BY <4>1, Alone DEF Open, Single
    <3>3. Wanted(Says)
      BY <3>2 DEF SetInv
    <3>4. CASE LoadFails(p)
      <4>1. xml = NoXml /\ UNCHANGED copy
        BY <3>4 DEF LoadFails, own
      <4>2. Wanted(Default)
        BY <3>3, <4>1 DEF Says
      <4> QED BY <3>4, <3>1, <3>3, <4>1, <4>2 DEF LoadFails, Goes, SetInv, Wanted, Says
    <3>5. CASE SaveReads(p)
      <4>1. xml # NoXml /\ copy' = [copy EXCEPT ![p] = xml]
        BY <3>5 DEF SaveReads
      <4>2. Wanted(xml.set) /\ copy'[p] = xml
        BY <3>3, <4>1 DEF Says
      <4> QED BY <3>5, <3>1, <3>3, <4>1, <4>2 DEF SaveReads, Goes, SetInv, Wanted, Says
    <3> QED BY <2>4, <3>4, <3>5
  <2>5. ASSUME NEW p \in Procs, InitFile(p) PROVE SetInv'
    <3>1. Wanted(Default) /\ UNCHANGED <<asked, raced, torn, copy>>
      BY <2>5 DEF InitFile, Goes, SetInv, hist
    <3>2. Says' = Default
      <4>1. Default \in Settings /\ 0 \in Indexes /\ xml' = Config(Default, 0)
        BY <2>5, SettingsAssumption DEF InitFile
      <4> QED BY <4>1, ConfigThere DEF Says
    <3> QED BY <2>5, <3>1, <3>2 DEF InitFile, Goes, SetInv, Wanted
  <2>6. ASSUME NEW p \in Procs, SaveWrites(p) PROVE SetInv'
    <3>1. Wanted(copy[p].set) /\ UNCHANGED <<asked, raced, torn, copy>>
      BY <2>6 DEF SaveWrites, Goes, SetInv, hist, own
    <3>2. Says' = copy[p].set
      <4>1. PICK i \in Indexes : xml' = Config(copy[p].set, i)
        <5>1. CASE xml' = copy[p]
          BY <5>1 DEF Config
        <5>2. CASE xml' = [copy[p] EXCEPT !.index = param[p].index]
          BY <5>2 DEF Config
        <5> QED BY <2>6, <5>1, <5>2 DEF SaveWrites
      <4>2. copy[p].set \in Settings
        OBVIOUS
      <4>3. xml' # NoXml /\ xml'.set = copy[p].set
        BY <4>1, <4>2, ConfigThere
      <4> QED BY <4>3 DEF Says
    <3> QED BY <2>6, <3>1, <3>2 DEF SaveWrites, Goes, SetInv, Wanted
  <2>7. ASSUME NEW s \in Settings, Edit(s) PROVE SetInv'
    <3>1. Says' = asked'
      <4>1. PICK i \in Indexes : xml' = Config(s, i)
        BY <2>7, SettingsAssumption DEF Edit, TypeOK
      <4> QED BY <2>7, <4>1, ConfigThere DEF Edit, Says
    <3>2. ASSUME NEW q \in Procs, pc'[q] \in {"init", "initing", "saving", "writing"}
          PROVE raced'
      BY <2>7, <3>2 DEF Edit, Rewriting, Open
    <3> QED BY <3>1, <3>2 DEF SetInv, Wanted
  <2>8. CASE UNCHANGED vars
    BY <2>8 DEF vars, conf, hist, own, SetInv, Wanted, Says
  <2>9. ASSUME NEW p \in Procs, Main(p) PROVE SetInv'
    <3>1. CASE LockRefused(p) \/ Exit(p) \/ Die(p)
      BY <3>1, <2>1 DEF LockRefused, Exit, Die
    <3>2. CASE \/ MakeItDaemon(p) \/ OpenPidFile(p) \/ LockPidFile(p) \/ Truncate(p)
               \/ WritePid(p) \/ SetCloexec(p) \/ LoadFile(p)
      BY <3>2, <2>2 DEF MakeItDaemon, OpenPidFile, LockPidFile, Truncate, WritePid,
           SetCloexec, LoadFile, own, Open
    <3>3. CASE \/ StartFails(p) \/ FindStorage(p) \/ CreateServer(p) \/ Signal(p)
               \/ NothingToSave(p)
      BY <3>3, <2>2 DEF StartFails, FindStorage, CreateServer, Signal, NothingToSave, own, Open
    <3>4. CASE Rotate(p)
      BY <3>4 DEF Rotate, conf, hist, SetInv, Wanted, Says
    <3> QED BY <2>3, <2>4, <2>5, <2>6, <2>9, <3>1, <3>2, <3>3, <3>4 DEF Main
  <2> QED BY <2>7, <2>8, <2>9 DEF Next
<1>3. SetInv => SettingsAreAsked
  BY DEF SetInv, SettingsAreAsked, Wanted
<1> QED BY <1>1, <1>2, <1>3, TypeCorrect, LockOwned, PTL DEF Spec

-----------------------------------------------------------------------------

\* Before it is written by the process that serves, the file keeps its index.
LEMMA IndexKept == Spec => []IndexInv
<1>1. Init => IndexInv
  BY DEF Init, IndexInv
<1>2. TypeOK /\ LockInv /\ IndexInv /\ [Next]_vars => IndexInv'
  <2> SUFFICES ASSUME TypeOK, LockInv, IndexInv, [Next]_vars PROVE IndexInv'
    OBVIOUS
  <2> DEFINE Serves(q) == pc[q] \in {"loaded", "found", "serving", "leaving"}
             Keeps(q) == xml # NoXml /\ (Disks[param[q].set] > 0 => xml.index = param[q].old)
  <2>0. /\ pc \in [Procs -> Steps]
        /\ param \in [Procs -> [set : Settings, index : Indexes, old : Indexes]]
        /\ \A q \in Procs : Serves(q) => Keeps(q)
    BY DEF TypeOK, IndexInv
  <2>s. SUFFICES ASSUME NEW q \in Procs, Serves(q)' PROVE Keeps(q)'
    BY DEF IndexInv
  <2> USE <2>0
  <2>1. ASSUME NEW p \in Procs, Ends(p) PROVE Keeps(q)'
    BY <2>s, <2>1 DEF Ends
  <2>2. ASSUME NEW p \in Procs, NEW from, NEW to, Goes(p, from, to), UNCHANGED <<xml, param>>,
               to \notin {"loaded", "found", "serving", "leaving"}
                 \/ from \in {"loaded", "found", "serving", "leaving"}
        PROVE Keeps(q)'
    BY <2>s, <2>2 DEF Goes
  <2>3. ASSUME NEW p \in Procs, LoadFile(p) PROVE Keeps(q)'
    <3>1. q = p
      <4>1. pc[p] \in Single /\ (q # p => pc[q] \in Single)
        BY <2>s, <2>3 DEF LoadFile, Goes, Single
      <4> QED BY <4>1, Alone
    <3>2. PICK i, o \in Indexes : /\ Disks[xml.set] > 0 => o = xml.index
                                 /\ param' = [param EXCEPT ![p] = Param(xml.set, i, o)]
      BY <2>3 DEF LoadFile
    <3>3. param'[p].set = xml.set /\ param'[p].old = o
      BY <3>2 DEF Param
    <3> QED BY <2>3, <3>1, <3>2, <3>3 DEF LoadFile, conf
  <2>4. ASSUME NEW p \in Procs, InitFile(p) PROVE Keeps(q)'
    <3>1. q = p
      <4>1. pc[p] \in Single /\ (q # p => pc[q] \in Single)
        BY <2>s, <2>4 DEF InitFile, Goes, Single
      <4> QED BY <4>1, Alone
    <3>2. xml'.index = 0 /\ param'[p].old = 0 /\ xml' # NoXml
      BY <2>4, SettingsAssumption DEF InitFile, Config, Param
    <3> QED BY <3>1, <3>2
  <2>5. ASSUME NEW p \in Procs, FindStorage(p) \/ Rotate(p) PROVE Keeps(q)'
    <3>1. param'[q].set = param[q].set /\ param'[q].old = param[q].old
      BY <2>5 DEF FindStorage, Rotate
    <3>2. Serves(q) /\ xml' = xml
      BY <2>s, <2>5 DEF FindStorage, Rotate, Goes, conf
    <3> QED BY <3>1, <3>2
  <2>6. ASSUME NEW p \in Procs, SaveOpens(p) \/ SaveWrites(p) \/ InitOpens(p)
        PROVE Keeps(q)'
    <3>1. q # p /\ pc[q] \in Single /\ pc[p] \in Single
      BY <2>s, <2>6 DEF SaveOpens, SaveWrites, InitOpens, Goes, Single
    <3> QED BY <3>1, Alone
  <2>7. ASSUME NEW s \in Settings, Edit(s) PROVE Keeps(q)'
    <3>1. Keeps(q) /\ UNCHANGED param
      BY <2>s, <2>7 DEF Edit, own
    <3>2. xml'.index = xml.index
      BY <2>7, <3>1 DEF Edit, Config
    <3>3. xml' # NoXml
      <4>1. xml \in [set : Settings, index : Nat]
        BY <3>1, SettingsAssumption DEF TypeOK
      <4>2. xml' = [set |-> s, index |-> xml.index]
        BY <2>7, <3>1 DEF Edit, Config
      <4>3. xml' \in [set : Settings, index : Nat]
        BY <4>1, <4>2
      <4> QED BY <4>3, SettingsAssumption
    <3> QED BY <3>1, <3>2, <3>3
  <2>8. CASE UNCHANGED vars
    BY <2>s, <2>8 DEF vars, conf, own
  <2>9. ASSUME NEW p \in Procs, Main(p) PROVE Keeps(q)'
    <3>1. CASE LockRefused(p) \/ Exit(p) \/ Die(p)
      BY <3>1, <2>1 DEF LockRefused, Exit, Die
    <3>2. CASE \/ MakeItDaemon(p) \/ OpenPidFile(p) \/ LockPidFile(p) \/ Truncate(p)
               \/ WritePid(p) \/ SetCloexec(p) \/ LoadFails(p)
      BY <3>2, <2>2 DEF MakeItDaemon, OpenPidFile, LockPidFile, Truncate, WritePid,
           SetCloexec, LoadFails, conf, own
    <3>3. CASE \/ StartFails(p) \/ CreateServer(p) \/ Signal(p) \/ NothingToSave(p)
               \/ SaveReads(p)
      BY <3>3, <2>2 DEF StartFails, CreateServer, Signal, NothingToSave, SaveReads, conf, own
    <3> QED BY <2>3, <2>4, <2>5, <2>6, <2>9, <3>1, <3>2, <3>3 DEF Main
  <2> QED BY <2>7, <2>8, <2>9 DEF Next
<1> QED BY <1>1, <1>2, TypeCorrect, LockOwned, PTL DEF Spec

\* A clean stop leaves in the file the disk that was in use.
THEOREM DiskIsKept == Spec => StopKeepsDisk
<1>1. ASSUME TypeOK, LockInv, IndexInv, [Next]_vars, NEW p \in Procs, Stops(p), HaveDisks(p)
      PROVE  xml'.index = param[p].index
  <2> USE DEF Stops, HaveDisks
  <2>0. /\ pc \in [Procs -> Steps]
        /\ copy \in [Procs -> [set : Settings, index : Indexes]]
    BY <1>1 DEF TypeOK
  <2>1. PICK q \in Procs : Main(q)
    BY <1>1 DEF Next, vars, Edit
  <2>2. CASE NothingToSave(q)
    <3>1. q = p
      BY <1>1, <2>0, <2>2 DEF NothingToSave, Goes
    <3>2. xml.index = param[p].old
      BY <1>1, <2>2, <3>1 DEF NothingToSave, Goes, IndexInv
    <3> QED BY <2>2, <3>1, <3>2 DEF NothingToSave, conf
  <2>3. CASE SaveWrites(q)
    <3>1. q = p
      BY <1>1, <2>0, <2>3 DEF SaveWrites, Goes
    <3>2. xml'.set = copy[p].set
      BY <2>0, <2>3, <3>1 DEF SaveWrites
    <3>3. xml' = [copy[p] EXCEPT !.index = param[p].index]
      BY <1>1, <2>3, <3>1, <3>2 DEF SaveWrites
    <3> QED BY <2>0, <3>3
  <2>4. CASE LockRefused(q) \/ Exit(q) \/ Die(q) \/ Rotate(q)
    BY <1>1, <2>0, <2>4 DEF LockRefused, Exit, Die, Rotate, Ends
  <2>5. CASE \/ MakeItDaemon(q) \/ OpenPidFile(q) \/ LockPidFile(q) \/ Truncate(q)
             \/ WritePid(q) \/ SetCloexec(q) \/ LoadFile(q) \/ LoadFails(q) \/ InitOpens(q)
             \/ InitFile(q)
    BY <1>1, <2>0, <2>5 DEF MakeItDaemon, OpenPidFile, LockPidFile, Truncate, WritePid,
         SetCloexec, LoadFile, LoadFails, InitOpens, InitFile, Goes
  <2>6. CASE \/ StartFails(q) \/ FindStorage(q) \/ CreateServer(q) \/ Signal(q)
             \/ SaveReads(q) \/ SaveOpens(q)
    BY <1>1, <2>0, <2>6 DEF StartFails, FindStorage, CreateServer, Signal, SaveReads,
         SaveOpens, Goes
  <2> QED BY <2>1, <2>2, <2>3, <2>4, <2>5, <2>6 DEF Main
<1>2. TypeOK /\ LockInv /\ IndexInv /\ [Next]_vars =>
        [\A p \in Procs : Stops(p) /\ HaveDisks(p) => xml'.index = param[p].index]_vars
  BY <1>1
<1> QED BY <1>2, TypeCorrect, LockOwned, IndexKept, PTL DEF Spec, StopKeepsDisk
================================================================================
