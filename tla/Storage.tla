-------------------------------- MODULE Storage --------------------------------
(***************************************************************************)
(* Which disk the files go to, and how it is kept from filling up:         *)
(* find_storage, free_storage and thread_autofree of TransferAgent.cpp     *)
(* with the part of StartService that chooses the first disk, and          *)
(* UpdateStorage, the use of pathRoot_ in save_first and the count of      *)
(* failures of thread_monitor in FileWritter.cpp.                          *)
(*                                                                         *)
(* Two threads share pathRoot_ and the disks without a lock: autofree and  *)
(* the writer.  A disk holds directories (the subpath of the files), each  *)
(* with its size and the age of its last entry; files are units of size.   *)
(*                                                                         *)
(* Left out: free_template, entries whose name does not begin with 'G',    *)
(* other programs that use the disks, disks that cannot be read.           *)
(***************************************************************************)
EXTENDS Integers, FiniteSets

CONSTANTS MaxStorage, \* bound of nStorage
          Dirs,      \* names of directories
          Capacity,  \* of a disk, in files
          MinFree,   \* minDiskStorage
          Keep,      \* days3, in ticks
          FailLimit, \* failures after which the writer ends, 5 in the code
          Zone       \* local time minus UTC, in ticks: negative west of Greenwich

ASSUME SizesAssumption ==
  /\ MaxStorage \in Nat \ {0}
  /\ Capacity \in Nat /\ MinFree \in 1 .. Capacity
  /\ Keep \in Nat /\ FailLimit \in Nat \ {0} /\ Zone \in Int

ASSUME DirsAssumption == IsFiniteSet(Dirs) /\ Dirs # {}

VARIABLES
  nStorage,  \* param_.nStorage
  started,   \* StartService: "starting", "running", "refused"
  at,        \* where find_storage, or thread_autofree, is
  iNow,      \* iNow of free_storage and find_storage
  i, iNew,   \* the loop of find_storage
  iStorage,  \* param_.iStorage
  root,      \* the disk of pathRoot_
  disk,      \* the directories of each disk
  todo,      \* entries the directory iterator has still to visit
  dir,       \* the directory it removes
  save,      \* where save_first is
  to,        \* the directory it writes into, [disk, dir]
  errcnt,    \* errcnt of thread_monitor
  crashed,
  stale,     \* history: pathRoot_ has been assigned another disk since this save
             \* copied it
  late       \* history: a stale save has stored into dir since its age was read

service == <<nStorage, started>>
loop == <<iNow, i, iNew>>
writer == <<save, to, errcnt, stale>>
vars == <<service, at, loop, iStorage, root, disk, todo, dir, late, writer, crashed>>

Disks == 0 .. nStorage - 1
Oldest == Keep + 1 - (IF Zone < 0 THEN Zone ELSE 0)   \* bound of the ages
None == [there |-> FALSE, age |-> 0, size |-> 0]

\* The files in directories D, numbered in each.
FilesIn(D) == {f \in Dirs \X (1 .. Capacity) : f[2] <= D[f[1]].size}
Used(d) == Cardinality(FilesIn(disk[d]))
Available(d) == IF Used(d) > Capacity THEN 0 ELSE Capacity - Used(d)
Wrap(n) == IF n >= nStorage THEN n - nStorage ELSE n

TypeOK ==
  /\ nStorage \in 1 .. MaxStorage
  /\ started \in {"starting", "running", "refused"}
  /\ at \in {"sleep", "scan", "found", "none", "clean", "remove", "rmdir", "assign"}
  /\ iNow \in Disks /\ i \in 0 .. nStorage /\ iNew \in 0 .. nStorage
  /\ iStorage \in Disks /\ root \in Disks
  /\ disk \in [Disks -> [Dirs -> [there : BOOLEAN, age : 0 .. Oldest, size : 0 .. Capacity]]]
  /\ \A d \in Disks : Used(d) <= Capacity
  /\ todo \subseteq Dirs /\ dir \in Dirs
  /\ save \in {"idle", "root", "mkdir", "open", "wait", "ended"}
  /\ to \in [disk : Disks, dir : Dirs]
  /\ errcnt \in 0 .. FailLimit
  /\ {crashed, stale, late} \subseteq BOOLEAN

\* Whatever an earlier run has left on the disks.
Init ==
  /\ nStorage \in 1 .. MaxStorage
  /\ started = "starting"
  /\ iStorage \in Disks
  /\ at = "scan" /\ iNow = iStorage /\ i = 0 /\ iNew = iStorage
  /\ root = 0
  /\ disk \in [Disks -> [Dirs -> {None} \cup
                 {[there |-> TRUE, age |-> Oldest, size |-> s] : s \in 1 .. Capacity}]]
  /\ \A d \in Disks : Used(d) <= Capacity
  /\ todo = {} /\ dir \in Dirs
  /\ save = "idle" /\ to = [disk |-> 0, dir |-> dir]
  /\ errcnt = 0
  /\ crashed = FALSE /\ stale = FALSE /\ late = FALSE

-----------------------------------------------------------------------------
(* find_storage *)

\* Mutant: the search begins behind the disk in use.
FindStorageBehind ==
  /\ iNow' = iStorage
  /\ i' = 1 /\ iNew' = iStorage + 1
  /\ at' = "scan"

FindStorage ==
  /\ iNow' = iStorage
  /\ i' = 0 /\ iNew' = iStorage
  /\ at' = "scan"

\* One turn of the loop: has this disk room?
Probe ==
  /\ at = "scan" /\ i < nStorage
  /\ LET d == Wrap(iNew) IN
       IF Available(d) >= MinFree
         THEN /\ iStorage' = d
              /\ iNew' = d
              /\ at' = "found"
              /\ UNCHANGED i
         ELSE /\ iNew' = d + 1
              /\ i' = i + 1
              /\ UNCHANGED <<iStorage, at>>
  /\ UNCHANGED <<service, iNow, root, disk, todo, dir, late, writer, crashed>>

NoneFound ==
  /\ at = "scan" /\ i = nStorage
  /\ at' = "none"
  /\ UNCHANGED <<service, loop, iStorage, root, disk, todo, dir, late, writer, crashed>>

-----------------------------------------------------------------------------
(* StartService *)

Start ==
  /\ started = "starting"
  /\ \/ /\ at = "found"
        /\ started' = "running"
        /\ root' = iStorage
        /\ crashed' \in BOOLEAN    \* the notice, as in UpdateStorage
     \/ /\ at = "none"
        /\ started' = "refused"
        /\ UNCHANGED <<root, crashed>>
  /\ at' = "sleep"
  /\ UNCHANGED <<nStorage, loop, iStorage, disk, todo, dir, late, writer>>

-----------------------------------------------------------------------------
(* thread_autofree and free_storage *)

Free == started = "running"

\* A tick passes, whatever the two threads are doing.
Older(g) == IF g.there /\ g.age < Oldest THEN [g EXCEPT !.age = @ + 1] ELSE g

Day ==
  /\ Free
  /\ disk' = [d \in Disks |-> [g \in Dirs |-> Older(disk[d][g])]]
  /\ UNCHANGED <<service, at, loop, iStorage, root, todo, dir, late, writer, crashed>>

\* Five seconds after the start, then at noon.
Noon ==
  /\ Free /\ at = "sleep"
  /\ FindStorage
  /\ UNCHANGED <<service, iStorage, root, disk, todo, dir, late, writer, crashed>>

\* A disk has room: it is told to the writer if it is another one.
Keeps ==
  /\ Free /\ at = "found"
  /\ at' = IF iNow # iStorage THEN "assign" ELSE "sleep"
  /\ UNCHANGED <<service, loop, iStorage, root, disk, todo, dir, late, writer, crashed>>

\* None has: the next one is cleaned.
NextInUse == iNow       \* mutant: the disk the writer stores on
Next1 == Wrap(iNow + 1)

CleanStarts ==
  /\ Free /\ at = "none"
  /\ todo' = {g \in Dirs : disk[Next1][g].there}
  /\ at' = "clean"
  /\ UNCHANGED <<service, loop, iStorage, root, disk, dir, late, writer, crashed>>

ExpiredAtOnce(age) == age + Zone >= Keep   \* mutant: a tick early
\* (now - tmlast) > days3, with now in local time and tmlast in UTC
Expired(age) == age + Zone > Keep

Visit(g) ==
  /\ at = "clean" /\ g \in todo
  /\ todo' = todo \ {g}
  /\ dir' = g
  /\ late' = FALSE
  /\ at' = IF Expired(disk[Next1][g].age) THEN "remove" ELSE "clean"
  /\ UNCHANGED <<service, loop, iStorage, root, disk, writer, crashed>>

\* remove_all: first what is in the directory, then the directory.  If the
\* writer has put a file into it meanwhile, the exception ends the process.
RemoveContents ==
  /\ at = "remove"
  /\ disk' = [disk EXCEPT ![Next1][dir].size = 0]
  /\ at' = "rmdir"
  /\ UNCHANGED <<service, loop, iStorage, root, todo, dir, late, writer, crashed>>

RemoveDirectory ==
  /\ at = "rmdir"
  /\ IF disk[Next1][dir].size = 0
       THEN disk' = [disk EXCEPT ![Next1][dir] = None] /\ UNCHANGED crashed
       ELSE crashed' = TRUE /\ UNCHANGED disk
  /\ at' = "clean"
  /\ UNCHANGED <<service, loop, iStorage, root, todo, dir, late, writer>>

\* Mutant: param_.iStorage stays behind.
CleanEndsBehind ==
  /\ at = "clean" /\ todo = {}
  /\ root' = Next1
  /\ at' = "sleep"
  /\ UNCHANGED <<service, loop, iStorage, disk, todo, dir, late, writer, crashed>>

CleanEnds ==
  /\ at = "clean" /\ todo = {}
  /\ iStorage' = Next1
  /\ at' = "assign"
  /\ UNCHANGED <<service, loop, root, disk, todo, dir, late, writer, crashed>>

\* UpdateStorage: pathRoot_ is assigned; then the notice is written, which dies
\* if its file cannot be opened.
UpdateStorage ==
  /\ at = "assign"
  /\ root' = iStorage
  /\ stale' = (stale \/ (save \in {"mkdir", "open"} /\ to.disk # iStorage))
  /\ crashed' \in BOOLEAN
  /\ at' = "sleep"
  /\ UNCHANGED <<service, loop, iStorage, disk, todo, dir, late, save, to, errcnt>>

-----------------------------------------------------------------------------
(* The writer: save_first, and again a minute after each failure. *)

shared == <<service, at, loop, iStorage, root, todo, dir>>

\* The next file.  The count of failures is cleared if the file was queued before
\* the last one was stored, and not if the thread had to wait for it.
SaveStarts(g) ==
  /\ Free
  /\ save = "idle"
  /\ to' = [to EXCEPT !.dir = g]
  /\ errcnt' \in {0, errcnt}
  /\ save' = "root"
  /\ UNCHANGED <<shared, disk, late, stale, crashed>>

\* filepath = pathRoot_.  While the other thread assigns it the copy may be the
\* old path, the new one, or neither, which create_directory throws at.
CopyRoot ==
  /\ save = "root"
  /\ \/ /\ \E d \in {root} \cup (IF at = "assign" THEN {iStorage} ELSE {}) :
             to' = [to EXCEPT !.disk = d]
        /\ save' = "mkdir"
        /\ stale' = FALSE
        /\ UNCHANGED crashed
     \/ /\ at = "assign"
        /\ crashed' = TRUE
        /\ UNCHANGED <<to, save, stale>>
  /\ UNCHANGED <<shared, disk, late, errcnt>>

MakeDirectory ==
  /\ save = "mkdir"
  /\ disk' = [disk EXCEPT ![to.disk][to.dir] = IF @.there THEN @ ELSE [None EXCEPT !.there = TRUE]]
  /\ save' = "open"
  /\ UNCHANGED <<shared, late, to, errcnt, stale, crashed>>

\* Mutant: a full disk, or a directory that is gone, is not noticed.
WriteFileUnlimited ==
  /\ save = "open"
  /\ disk' = [disk EXCEPT ![to.disk][to.dir].age = 0, ![to.disk][to.dir].size = @ + 1]
  /\ save' = "idle"
  /\ UNCHANGED <<shared, late, to, errcnt, stale, crashed>>

\* fopen and fwrite.  A full disk cuts the file off; a directory that is gone
\* makes fopen fail.  After the last failure the thread allows, this was the last
\* attempt, whether or not it succeeds.
WriteFile ==
  /\ save = "open"
  /\ LET stored == disk[to.disk][to.dir].there IN
       /\ save' = IF errcnt = FailLimit THEN "ended" ELSE IF stored THEN "idle" ELSE "wait"
       /\ IF stored
            THEN /\ disk' = [disk EXCEPT ![to.disk][to.dir] =
                      [there |-> TRUE, age |-> 0,
                       size |-> IF Available(to.disk) > 0 THEN @.size + 1 ELSE @.size]]
                 /\ late' = (late \/ (stale /\ to = [disk |-> Next1, dir |-> dir]))
            ELSE UNCHANGED <<disk, late>>
  /\ UNCHANGED <<shared, to, errcnt, stale, crashed>>

SaveAgain ==
  /\ save = "wait"
  /\ errcnt' = errcnt + 1
  /\ save' = "root"
  /\ UNCHANGED <<shared, disk, late, to, stale, crashed>>

-----------------------------------------------------------------------------

AutoFree ==
  \/ Probe
  \/ NoneFound
  \/ Keeps
  \/ CleanStarts
  \/ \E g \in Dirs : Visit(g)
  \/ RemoveContents
  \/ RemoveDirectory
  \/ CleanEnds
  \/ UpdateStorage

SaveFirst == CopyRoot \/ MakeDirectory \/ WriteFile \/ SaveAgain

Next ==
  /\ ~crashed
  /\ Start \/ AutoFree \/ Day \/ Noon \/ SaveFirst \/ \E g \in Dirs : SaveStarts(g)

Spec == Init /\ [][Next]_vars

-----------------------------------------------------------------------------
(* Properties. *)

\* Between two checks the writer and the configuration agree on the disk in use,
\* whatever was found, cleaned or assigned before.
RootIsCurrent == Free /\ at = "sleep" => root = iStorage

\* The disk chosen is the first with room, from the one in use onwards; the
\* others were too full, and still are, for the writer only makes them fuller.  If
\* none is chosen, none has room: files are removed only then.
FirstWithRoom ==
  /\ at = "found" =>
       \A k \in 0 .. nStorage - 1 : (\A j \in 0 .. k : Wrap(iNow + j) # iStorage) =>
                                Available(Wrap(iNow + k)) < MinFree
  /\ at = "none" => \A d \in Disks : Available(d) < MinFree

\* "Delete all data of 3 days ago" (TransferAgent.cpp:100): a directory loses
\* files only if nothing was stored in it for longer than that, on a host whose
\* local time is not ahead of UTC.  East of Greenwich, where the code subtracts a
\* file time in UTC from the local time, directories go before their three days
\* are over.  The other exception is a file stored, after the age was read, by a
\* save that copied pathRoot_ before it was assigned another disk; with a single
\* disk every save can meet the cleaning.
RecentIsKept ==
  [][\A d \in Disks, g \in Dirs :
       nStorage > 1 /\ Zone <= 0 /\ disk'[d][g].size < disk[d][g].size =>
         disk[d][g].age > Keep \/ late]_vars

\* With more than one disk the writer and the cleaning meet in a directory only
\* through a stale path: no other save finds its directory gone, and remove_all
\* dies of no other file.
SavesMeetNoCleaning ==
  [][nStorage > 1 => /\ save = "open" /\ ~disk[to.disk][to.dir].there => stale
                     /\ at = "rmdir" /\ crashed' => late]_vars
================================================================================
