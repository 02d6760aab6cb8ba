----------------------------- MODULE StorageProofs -----------------------------
(***************************************************************************)
(* Theorems about the disks of Storage.tla, whatever their number, their   *)
(* size, what an earlier run has left on them and how far the host's clock *)
(* is from Greenwich.                                                      *)
(*                                                                         *)
(* The two threads share pathRoot_ without a lock; what keeps them apart   *)
(* is that, from the moment the check begins to the assignment of          *)
(* pathRoot_, the path is that of the disk the check began with: a save    *)
(* that copies it, or has copied it since it was last assigned, stores     *)
(* there, and the disk that is cleaned is the next one.                    *)
(***************************************************************************)
EXTENDS Storage, FiniteSetTheorems, TLAPS

\* An entry that is not there holds nothing; a writer that waits may fail again.
TypeInv ==
  /\ TypeOK
  /\ save = "wait" => errcnt # FailLimit
  /\ \A d \in Disks, g \in Dirs : ~disk[d][g].there => disk[d][g] = None

\* While the check looks for a disk and cleans one.
Checking == {"scan", "found", "none", "clean", "remove", "rmdir"}

ServiceInv ==
  /\ started = "starting" => at \in {"scan", "found", "none"} /\ save = "idle"
  /\ started = "refused" => at = "sleep" /\ save = "idle"

RootInv ==
  /\ at = "scan" => iStorage = iNow
  /\ Free /\ at \in Checking => root = iNow
  /\ Free /\ at = "sleep" => root = iStorage

\* A save whose copy is not out of date stores on the disk of pathRoot_, or on the
\* one that is just being assigned to it, and finds its directory.
Saving == save \in {"mkdir", "open"} /\ ~stale

WriterInv ==
  /\ Saving => to.disk = root \/ (at = "assign" /\ to.disk = iStorage)
  /\ Saving /\ save = "open" /\ nStorage > 1 => disk[to.disk][to.dir].there

\* The directory being removed is as old as it was, and empty once its contents are
\* gone, unless a stale save has stored into it.
RemoveInv ==
  nStorage > 1 /\ ~late => /\ at = "remove" => Expired(disk[Next1][dir].age)
                           /\ at = "rmdir" => disk[Next1][dir].size = 0

\* The m disks from the one in use onwards have been found too full.
TooFull(m) == \A k \in 0 .. m - 1 : Available(Wrap(iNow + k)) < MinFree

ProbeInv ==
  /\ at = "scan" => TooFull(i) /\ (i < nStorage => Wrap(iNew) = Wrap(iNow + i))
  /\ at = "found" =>
       \E m \in 0 .. nStorage - 1 : iStorage = Wrap(iNow + m) /\ TooFull(m)
  /\ at = "none" => TooFull(nStorage)

DiskInv == TypeInv /\ ServiceInv /\ RootInv /\ WriterInv /\ RemoveInv /\ ProbeInv

-----------------------------------------------------------------------------
(* Counting the files. *)

\* The files on a disk are finitely many.
LEMMA FilesFinite ==
  ASSUME NEW D
  PROVE  IsFiniteSet(FilesIn(D)) /\ Cardinality(FilesIn(D)) \in Nat
<1>1. IsFiniteSet(1 .. Capacity)
  BY FS_Interval, SizesAssumption
<1>2. IsFiniteSet(Dirs \X (1 .. Capacity))
  BY <1>1, FS_Product, DirsAssumption
<1>3. FilesIn(D) \in SUBSET (Dirs \X (1 .. Capacity))
  BY DEF FilesIn
<1>4. IsFiniteSet(FilesIn(D))
  BY <1>2, <1>3, FS_Subset
<1> QED
  BY <1>4, FS_CardinalityType

\* Where no directory is smaller there are no fewer files.
LEMMA FilesMonotone ==
  ASSUME NEW D, NEW E,
         \A g \in Dirs : D[g].size \in Nat /\ E[g].size \in Nat /\ D[g].size <= E[g].size
  PROVE  Cardinality(FilesIn(D)) <= Cardinality(FilesIn(E))
<1>1. \A f \in Dirs \X (1 .. Capacity) : f[1] \in Dirs /\ f[2] \in Nat
  BY SizesAssumption
<1>2. ASSUME NEW f \in FilesIn(D)
      PROVE  f \in FilesIn(E)
  BY <1>1, <1>2 DEF FilesIn
<1>3. FilesIn(D) \in SUBSET FilesIn(E)
  BY <1>2
<1> QED
  BY <1>3, FilesFinite, FS_Subset

\* One file more in one directory is at most one file more on the disk.
LEMMA OneFileMore ==
  ASSUME NEW D, NEW E, NEW g \in Dirs, D[g].size \in Nat,
         E[g].size = D[g].size + 1, \A h \in Dirs \ {g} : E[h].size = D[h].size
  PROVE  Cardinality(FilesIn(E)) <= Cardinality(FilesIn(D)) + 1
<1>1. PICK x : x = <<g, D[g].size + 1>>
  OBVIOUS
<1>2. ASSUME NEW f \in FilesIn(E)
      PROVE  f \in FilesIn(D) \cup {x}
  <2>1. PICK h \in Dirs, n \in 1 .. Capacity : f = <<h, n>> /\ n <= E[h].size
    BY <1>2 DEF FilesIn
  <2>2. CASE h = g /\ n = D[g].size + 1
    BY <2>1, <2>2, <1>1
  <2>3. CASE n <= D[h].size
    BY <2>1, <2>3 DEF FilesIn
  <2>4. h = g => n = D[g].size + 1 \/ n <= D[h].size
    BY <2>1, SizesAssumption
  <2>5. h # g => n <= D[h].size
    BY <2>1
  <2> QED
    BY <2>2, <2>3, <2>4, <2>5
<1>3. FilesIn(E) \in SUBSET (FilesIn(D) \cup {x})
  BY <1>2
<1>4. /\ IsFiniteSet(FilesIn(D) \cup {x})
      /\ Cardinality(FilesIn(D) \cup {x}) \in
           {Cardinality(FilesIn(D)), Cardinality(FilesIn(D)) + 1}
  BY FilesFinite, FS_AddElement
<1>5. Cardinality(FilesIn(E)) <= Cardinality(FilesIn(D) \cup {x})
  BY <1>3, <1>4, FS_Subset
<1> QED
  BY <1>4, <1>5, FilesFinite

\* A directory holds no more than its disk.
LEMMA SizeInUsed ==
  ASSUME NEW D, NEW g \in Dirs, D[g].size \in 0 .. Capacity
  PROVE  D[g].size <= Cardinality(FilesIn(D))
<1>1. PICK n \in Nat : n = D[g].size /\ n <= Capacity
  BY SizesAssumption
<1>2. IsFiniteSet({g}) /\ Cardinality({g}) = 1
  BY FS_Singleton
<1>3. IsFiniteSet(1 .. n) /\ Cardinality(1 .. n) = n
  BY FS_Interval
<1>4. Cardinality({g} \X (1 .. n)) = n
  <2>1. Cardinality({g} \X (1 .. n)) = Cardinality({g}) * Cardinality(1 .. n)
    BY <1>2, <1>3, FS_Product
  <2> QED
    BY <2>1, <1>2, <1>3
<1>5. {g} \X (1 .. n) \in SUBSET FilesIn(D)
  BY <1>1, SizesAssumption DEF FilesIn
<1> QED
  BY <1>1, <1>4, <1>5, FilesFinite, FS_Subset

-----------------------------------------------------------------------------
(* Types. *)

\* What the entries of a disk look like.
Entry == [there : BOOLEAN, age : 0 .. Oldest, size : 0 .. Capacity]

\* What is left of a disk is a number of files, none if it is full.
LEMMA UsedType ==
  ASSUME TypeOK, NEW d \in Disks
  PROVE  /\ Used(d) \in Nat /\ Used(d) <= Capacity
         /\ Available(d) = Capacity - Used(d) /\ Available(d) \in Nat
<1>1. Used(d) \in Nat
  BY FilesFinite DEF Used
<1>2. Used(d) <= Capacity
  BY DEF TypeOK
<1> QED
  BY <1>1, <1>2, SizesAssumption DEF Available

\* Disks are found by turning round at the last.
LEMMA WrapType ==
  ASSUME nStorage \in Nat \ {0}, NEW n \in 0 .. 2 * nStorage - 1
  PROVE  Wrap(n) \in Disks
BY DEF Wrap, Disks

\* The numbers among the variables, in the form the provers use.
LEMMA Numbers ==
  ASSUME TypeOK
  PROVE  /\ nStorage \in Nat \ {0} /\ Disks = 0 .. nStorage - 1
         /\ iNow \in Nat /\ iNow < nStorage /\ i \in Nat /\ i <= nStorage
         /\ iNew \in Nat /\ iNew <= nStorage
         /\ Wrap(iNew) \in Disks /\ Next1 \in Disks
<1>1. /\ nStorage \in Nat \ {0} /\ Disks = 0 .. nStorage - 1
      /\ iNow \in Nat /\ iNow < nStorage /\ i \in Nat /\ i <= nStorage
      /\ iNew \in Nat /\ iNew <= nStorage
  BY SizesAssumption DEF TypeOK, Disks
<1>2. Wrap(iNew) \in Disks /\ Next1 \in Disks
  BY <1>1 DEF Wrap, Next1
<1> QED
  BY <1>1, <1>2

\* Whatever an earlier run has left, within the size of the disks.
LEMMA TypeInit == Init => TypeInv
<1> SUFFICES ASSUME Init PROVE TypeInv
  OBVIOUS
<1>1. nStorage \in 1 .. MaxStorage /\ nStorage \in Nat \ {0} /\ iStorage \in 0 .. nStorage - 1
  BY SizesAssumption DEF Init, Disks
<1>2. 0 \in Disks
  BY <1>1 DEF Disks
<1>3. Oldest \in Nat /\ 0 \in 0 .. Oldest /\ Oldest \in 0 .. Oldest /\ 0 \in 0 .. Capacity
  BY SizesAssumption DEF Oldest
<1>4. ASSUME NEW d \in Disks, NEW g \in Dirs
      PROVE  disk[d][g] \in Entry /\ (~disk[d][g].there => disk[d][g] = None)
  <2>1. disk[d][g] \in {None} \cup
               {[there |-> TRUE, age |-> Oldest, size |-> s] : s \in 1 .. Capacity}
    BY <1>4 DEF Init
  <2>2. CASE disk[d][g] = None
    BY <2>2, <1>3 DEF None, Entry
  <2>3. CASE \E s \in 1 .. Capacity : disk[d][g] = [there |-> TRUE, age |-> Oldest, size |-> s]
    <3>1. PICK s \in 1 .. Capacity : disk[d][g] = [there |-> TRUE, age |-> Oldest, size |-> s]
      BY <2>3
    <3>2. s \in 0 .. Capacity
      BY SizesAssumption
    <3> QED
      BY <3>1, <3>2, <1>3 DEF Entry
  <2> QED
    BY <2>1, <2>2, <2>3
<1>5. disk \in [Disks -> [Dirs -> Entry]]
  <2>1. disk \in [Disks -> [Dirs -> {None} \cup
               {[there |-> TRUE, age |-> Oldest, size |-> s] : s \in 1 .. Capacity}]]
    BY DEF Init
  <2> QED
    BY <2>1, <1>4
<1>6. TypeOK
  <2>1. /\ to \in [disk : Disks, dir : Dirs] /\ dir \in Dirs /\ root \in Disks
        /\ errcnt \in 0 .. FailLimit
    BY <1>2, SizesAssumption DEF Init
  <2>2. iNow \in Disks /\ i \in 0 .. nStorage /\ iNew \in 0 .. nStorage /\ iStorage \in Disks
    BY <1>1 DEF Init, Disks
  <2>3. /\ started \in {"starting", "running", "refused"}
        /\ at \in {"sleep", "scan", "found", "none", "clean", "remove", "rmdir", "assign"}
        /\ todo \subseteq Dirs /\ save \in {"idle", "root", "mkdir", "open", "wait", "ended"}
        /\ {crashed, stale, late} \subseteq BOOLEAN /\ \A d \in Disks : Used(d) <= Capacity
    BY DEF Init
  <2> QED
    BY <1>1, <1>5, <2>1, <2>2, <2>3 DEF TypeOK, Entry
<1>7. save = "idle"
  BY DEF Init
<1> QED
  BY <1>4, <1>6, <1>7 DEF TypeInv

\* The part of TypeInv that is about the disks.
DisksOK ==
  /\ disk \in [Disks -> [Dirs -> Entry]]
  /\ \A d \in Disks : Used(d) <= Capacity
  /\ \A d \in Disks, g \in Dirs : ~disk[d][g].there => disk[d][g] = None

\* A new entry for one directory leaves the others alone, and what the disk holds
\* follows its size.
LEMMA OneEntry ==
  ASSUME TypeInv, UNCHANGED nStorage, NEW d \in Disks, NEW g \in Dirs,
         NEW e \in Entry, ~e.there => e = None,
         disk' = [disk EXCEPT ![d][g] = e]
  PROVE  /\ disk' \in [Disks -> [Dirs -> Entry]]
         /\ \A c \in Disks, h \in Dirs : ~disk'[c][h].there => disk'[c][h] = None
         /\ disk'[d][g] = e
         /\ \A c \in Disks, h \in Dirs : c # d \/ h # g => disk'[c][h] = disk[c][h]
         /\ \A c \in Disks : c # d => Used(c)' = Used(c)
         /\ e.size <= disk[d][g].size => Used(d)' <= Used(d)
         /\ e.size >= disk[d][g].size => Used(d)' >= Used(d)
         /\ e.size = disk[d][g].size + 1 => Used(d)' <= Used(d) + 1
<1>1. disk \in [Disks -> [Dirs -> Entry]]
  BY DEF TypeInv, TypeOK, Entry
<1>2. PICK D \in [Dirs -> Entry] : D = [disk[d] EXCEPT ![g] = e]
  BY <1>1
<1>3. disk' = [disk EXCEPT ![d] = D]
  BY <1>2
<1>4. /\ disk'[d] = D /\ D[g] = e
      /\ \A h \in Dirs : h # g => D[h] = disk[d][h]
      /\ \A c \in Disks : c # d => disk'[c] = disk[c]
  BY <1>1, <1>2, <1>3
<1>5. disk' \in [Disks -> [Dirs -> Entry]]
  BY <1>1, <1>3
<1>6. \A c \in Disks, h \in Dirs : ~disk'[c][h].there => disk'[c][h] = None
  <2> SUFFICES ASSUME NEW c \in Disks, NEW h \in Dirs, ~disk'[c][h].there
               PROVE  disk'[c][h] = None
    OBVIOUS
  <2>1. ~disk[c][h].there => disk[c][h] = None
    BY DEF TypeInv
  <2>2. disk'[c][h] = disk[c][h] \/ disk'[c][h] = e
    BY <1>4
  <2> QED
    BY <2>1, <2>2
<1>7. \A c \in Disks : c # d => Used(c)' = Used(c)
  BY <1>4 DEF Used, FilesIn
<1>8. \A h \in Dirs : disk[d][h].size \in Nat /\ D[h].size \in Nat
  BY <1>1, SizesAssumption DEF Entry
<1>9. Used(d) = Cardinality(FilesIn(disk[d])) /\ Used(d)' = Cardinality(FilesIn(D))
  BY <1>4 DEF Used, FilesIn
<1>10. ASSUME e.size <= disk[d][g].size
       PROVE  Used(d)' <= Used(d)
  <2>1. \A h \in Dirs : D[h].size <= disk[d][h].size
    BY <1>4, <1>8, <1>10
  <2> QED
    BY <2>1, <1>8, <1>9, FilesMonotone
<1>11. ASSUME e.size >= disk[d][g].size
       PROVE  Used(d)' >= Used(d)
  <2>1. \A h \in Dirs : disk[d][h].size <= D[h].size
    BY <1>4, <1>8, <1>11
  <2>2. Cardinality(FilesIn(disk[d])) <= Cardinality(FilesIn(D))
    BY <2>1, <1>8, FilesMonotone
  <2>3. Used(d) \in Nat /\ Cardinality(FilesIn(D)) \in Nat
    BY <1>9, FilesFinite
  <2> QED
    BY <2>2, <2>3, <1>9
<1>12. ASSUME e.size = disk[d][g].size + 1
       PROVE  Used(d)' <= Used(d) + 1
  BY <1>4, <1>8, <1>9, <1>12, OneFileMore
<1> QED
  BY <1>4, <1>5, <1>6, <1>7, <1>10, <1>11, <1>12

\* What the writer does to a disk: one directory appears, or gets one file more if
\* there is room, and is as young as can be.  No disk gets emptier.
LEMMA WriterFills ==
  ASSUME TypeInv, UNCHANGED nStorage, MakeDirectory \/ WriteFile
  PROVE  /\ DisksOK'
         /\ \A c \in Disks : Used(c) <= Used(c)'
         /\ \A c \in Disks, h \in Dirs : disk[c][h].size <= disk'[c][h].size
         /\ \A c \in Disks, h \in Dirs : c # to.disk => disk'[c][h] = disk[c][h]
<1>1. /\ disk \in [Disks -> [Dirs -> Entry]] /\ to.disk \in Disks /\ to.dir \in Dirs
      /\ \A d \in Disks, g \in Dirs : ~disk[d][g].there => disk[d][g] = None
  BY DEF TypeInv, TypeOK, Entry
<1>2. PICK d \in Disks, g \in Dirs : d = to.disk /\ g = to.dir
  BY <1>1
<1>3. PICK o \in Entry : o = disk[d][g]
  BY <1>1
<1>4. /\ o.size \in Nat /\ o.size <= Capacity /\ 0 \in 0 .. Oldest /\ 0 \in 0 .. Capacity
      /\ o.there \in BOOLEAN /\ o.age \in 0 .. Oldest
  BY SizesAssumption DEF Entry, Oldest
<1>5. /\ Used(d) \in Nat /\ Used(d) <= Capacity
      /\ Available(d) = Capacity - Used(d) /\ Available(d) \in Nat
  BY UsedType DEF TypeInv
<1>6. o.size <= Used(d)
  BY <1>3, <1>4, SizeInUsed, SizesAssumption DEF Used
<1>7. Disks' = Disks
  BY DEF Disks
<1>8. \A c \in Disks : Used(c) \in Nat /\ Used(c) <= Capacity
  BY UsedType DEF TypeInv
<1>9. ASSUME NEW e \in Entry, disk' = [disk EXCEPT ![d][g] = e], ~e.there => e = None,
             \/ e.size = o.size
             \/ e.size = o.size + 1 /\ Available(d) > 0
      PROVE  /\ DisksOK'
             /\ \A c \in Disks : Used(c) <= Used(c)'
             /\ \A c \in Disks, h \in Dirs : disk[c][h].size <= disk'[c][h].size
             /\ \A c \in Disks, h \in Dirs : c # to.disk => disk'[c][h] = disk[c][h]
  <2>1. /\ disk' \in [Disks -> [Dirs -> Entry]]
        /\ \A c \in Disks, h \in Dirs : ~disk'[c][h].there => disk'[c][h] = None
        /\ disk'[d][g] = e
        /\ \A c \in Disks, h \in Dirs : c # d \/ h # g => disk'[c][h] = disk[c][h]
        /\ \A c \in Disks : c # d => Used(c)' = Used(c)
        /\ e.size <= disk[d][g].size => Used(d)' <= Used(d)
        /\ e.size >= disk[d][g].size => Used(d)' >= Used(d)
        /\ e.size = disk[d][g].size + 1 => Used(d)' <= Used(d) + 1
    BY <1>9, OneEntry
  <2>2. PICK n \in Nat : n = Used(d)'
    BY FilesFinite DEF Used
  <2>3. Used(d) <= n
    BY <2>1, <2>2, <1>3, <1>4, <1>9
  <2>4. n <= Capacity
    BY <2>1, <2>2, <1>3, <1>4, <1>5, <1>9, SizesAssumption
  <2>5. \A c \in Disks : Used(c) <= Used(c)' /\ Used(c)' <= Capacity
    BY <2>1, <2>2, <2>3, <2>4, <1>8
  <2>6. \A c \in Disks, h \in Dirs : disk[c][h].size <= disk'[c][h].size
    <3>1. \A c \in Disks, h \in Dirs : disk[c][h].size \in Nat
      BY <1>1, SizesAssumption DEF Entry
    <3>2. o.size <= e.size
      BY <1>4, <1>9
    <3> QED
      BY <2>1, <3>1, <3>2, <1>3
  <2>7. DisksOK'
    BY <2>1, <2>5, <1>7 DEF DisksOK
  <2> QED
    BY <2>1, <2>5, <2>6, <2>7, <1>2
<1>10. CASE MakeDirectory
  <2>1. PICK e : e = IF o.there THEN o ELSE [None EXCEPT !.there = TRUE]
    OBVIOUS
  <2>2. disk' = [disk EXCEPT ![d][g] = e]
    BY <1>10, <2>1, <1>1, <1>2, <1>3 DEF MakeDirectory, shared
  <2>3. e \in Entry /\ e.there /\ e.size = o.size
    <3>1. CASE o.there
      BY <3>1, <2>1
    <3>2. CASE ~o.there
      <4>1. e = [there |-> TRUE, age |-> 0, size |-> 0]
        BY <3>2, <2>1 DEF None
      <4>2. o.size = 0
        BY <3>2, <1>1, <1>3 DEF None
      <4> QED
        BY <4>1, <4>2, <1>4 DEF Entry
    <3> QED
      BY <3>1, <3>2
  <2> QED
    BY <2>2, <2>3, <1>9
<1>11. CASE WriteFile
  <2>1. CASE o.there
    <3>1. PICK s : s = IF Available(d) > 0 THEN o.size + 1 ELSE o.size
      OBVIOUS
    <3>2. PICK e : e = [there |-> TRUE, age |-> 0, size |-> s]
      OBVIOUS
    <3>3. disk' = [disk EXCEPT ![d][g] = [there |-> TRUE, age |-> 0,
                      size |-> IF Available(d) > 0 THEN o.size + 1 ELSE o.size]]
      BY <1>11, <2>1, <1>2, <1>3 DEF WriteFile, shared
    <3>8. disk' = [disk EXCEPT ![d][g] = e]
      BY <3>1, <3>2, <3>3
    <3>5. \/ s = o.size
          \/ s = o.size + 1 /\ Available(d) > 0
      BY <3>1
    <3>6. s \in 0 .. Capacity
      BY <3>5, <1>4, <1>5, <1>6, SizesAssumption
    <3>7. e \in Entry /\ e.there /\ e.size = s
      BY <3>2, <3>6, <1>4, <2>1 DEF Entry
    <3> QED
      BY <3>5, <3>7, <3>8, <1>9
  <2>2. CASE ~o.there
    <3>1. UNCHANGED disk
      BY <1>11, <2>2, <1>2, <1>3 DEF WriteFile, shared
    <3>2. disk' = [disk EXCEPT ![d][g] = o]
      BY <3>1, <1>1, <1>3
    <3> QED
      BY <3>2, <1>1, <1>3, <1>9
  <2> QED
    BY <2>1, <2>2
<1> QED
  BY <1>10, <1>11

\* A removal empties one directory of the next disk, or takes it away empty.
LEMMA RemovalEmpties ==
  ASSUME TypeInv, RemoveContents \/ RemoveDirectory
  PROVE  /\ DisksOK'
         /\ \A c \in Disks, h \in Dirs : c # Next1 \/ h # dir => disk'[c][h] = disk[c][h]
         /\ RemoveDirectory => \A c \in Disks, h \in Dirs : disk'[c][h].size = disk[c][h].size
<1>1. /\ disk \in [Disks -> [Dirs -> Entry]] /\ dir \in Dirs
      /\ \A d \in Disks, g \in Dirs : ~disk[d][g].there => disk[d][g] = None
      /\ Next1 \in Disks
  BY Numbers DEF TypeInv, TypeOK, Entry
<1>2. PICK d \in Disks, g \in Dirs : d = Next1 /\ g = dir
  BY <1>1
<1>3. PICK o \in Entry : o = disk[d][g]
  BY <1>1
<1>4. /\ o.size \in Nat /\ o.size <= Capacity /\ 0 \in 0 .. Oldest /\ 0 \in 0 .. Capacity
      /\ o.there \in BOOLEAN /\ o.age \in 0 .. Oldest
  BY SizesAssumption DEF Entry, Oldest
<1>5. \A c \in Disks : Used(c) \in Nat /\ Used(c) <= Capacity
  BY UsedType DEF TypeInv
<1>6. UNCHANGED nStorage /\ Disks' = Disks
  BY DEF RemoveContents, RemoveDirectory, service, Disks
<1>7. ASSUME NEW e \in Entry, disk' = [disk EXCEPT ![d][g] = e], e.size = 0,
             ~e.there => e = None
      PROVE  /\ DisksOK'
             /\ \A c \in Disks, h \in Dirs : c # d \/ h # g => disk'[c][h] = disk[c][h]
             /\ disk'[d][g] = e
  <2>1. /\ disk' \in [Disks -> [Dirs -> Entry]]
        /\ \A c \in Disks, h \in Dirs : ~disk'[c][h].there => disk'[c][h] = None
        /\ disk'[d][g] = e
        /\ \A c \in Disks, h \in Dirs : c # d \/ h # g => disk'[c][h] = disk[c][h]
        /\ \A c \in Disks : c # d => Used(c)' = Used(c)
        /\ e.size <= disk[d][g].size => Used(d)' <= Used(d)
        /\ e.size >= disk[d][g].size => Used(d)' >= Used(d)
        /\ e.size = disk[d][g].size + 1 => Used(d)' <= Used(d) + 1
    <3>1. UNCHANGED nStorage
      BY <1>6
    <3>2. ~e.there => e = None
      BY <1>7
    <3>3. disk' = [disk EXCEPT ![d][g] = e]
      BY <1>7
    <3> QED
      BY <3>1, <3>2, <3>3, OneEntry
  <2>2. PICK n \in Nat : n = Used(d)'
    BY FilesFinite DEF Used
  <2>3. n <= Capacity
    BY <2>1, <2>2, <1>3, <1>4, <1>5, <1>7, SizesAssumption
  <2>4. \A c \in Disks : Used(c)' <= Capacity
    BY <2>1, <2>2, <2>3, <1>5
  <2>5. DisksOK'
    BY <2>1, <2>4, <1>6 DEF DisksOK
  <2> QED
    BY <2>1, <2>5
<1>8. CASE RemoveContents
  <2>1. PICK e : e = [there |-> o.there, age |-> o.age, size |-> 0]
    OBVIOUS
  <2>2. disk' = [disk EXCEPT ![d][g].size = 0]
    BY <1>8, <1>2 DEF RemoveContents
  <2>3. disk' = [disk EXCEPT ![d][g] = [o EXCEPT !.size = 0]]
    BY <2>2, <1>3
  <2>4. [o EXCEPT !.size = 0] = e
    BY <2>1 DEF Entry
  <2>5. e \in Entry /\ e.size = 0
    BY <2>1, <1>4 DEF Entry
  <2>7. ~e.there => e = None
    <3>1. ~o.there => o = None
      BY <1>1, <1>3
    <3>2. e.there = o.there
      BY <2>1
    <3>3. o = None => e = None
      <4>1. None.there = FALSE /\ None.age = 0
        BY DEF None
      <4>2. o = None => e = [there |-> FALSE, age |-> 0, size |-> 0]
        BY <4>1, <2>1
      <4> QED
        BY <4>2 DEF None
    <3> QED
      BY <3>1, <3>2, <3>3
  <2>6. ~RemoveDirectory
    BY <1>8 DEF RemoveContents, RemoveDirectory
  <2> QED
    BY <2>3, <2>4, <2>5, <2>6, <2>7, <1>2, <1>7
<1>9. CASE RemoveDirectory /\ o.size = 0
  <2>1. disk' = [disk EXCEPT ![d][g] = None]
    BY <1>9, <1>2, <1>3 DEF RemoveDirectory
  <2>2. None \in Entry /\ None.size = 0
    BY <1>4 DEF Entry, None
  <2>3. /\ DisksOK'
        /\ \A c \in Disks, h \in Dirs : c # d \/ h # g => disk'[c][h] = disk[c][h]
        /\ disk'[d][g] = None
    BY <2>1, <2>2, <1>7
  <2>4. \A c \in Disks, h \in Dirs : disk'[c][h].size = disk[c][h].size
    BY <2>2, <2>3, <1>3, <1>9
  <2> QED
    BY <2>3, <2>4, <1>2
<1>10. CASE RemoveDirectory /\ o.size # 0
  <2>1. UNCHANGED disk
    BY <1>10, <1>2, <1>3 DEF RemoveDirectory
  <2>2. \A c : Used(c)' = Used(c)
    BY <2>1 DEF Used, FilesIn
  <2>3. DisksOK'
    BY <1>1, <1>5, <1>6, <2>1, <2>2 DEF DisksOK
  <2> QED
    BY <2>1, <2>3
<1> QED
  BY <1>8, <1>9, <1>10

\* A tick makes entries older, and nothing else.
LEMMA DayAges ==
  ASSUME TypeInv, Day
  PROVE  /\ DisksOK'
         /\ \A c \in Disks, h \in Dirs : /\ disk'[c][h].size = disk[c][h].size
                                         /\ disk'[c][h].there = disk[c][h].there
                                         /\ disk'[c][h].age >= disk[c][h].age
<1>1. /\ disk \in [Disks -> [Dirs -> Entry]]
      /\ \A d \in Disks, g \in Dirs : ~disk[d][g].there => disk[d][g] = None
  BY DEF TypeInv, TypeOK, Entry
<1>2. \A c \in Disks : Used(c) \in Nat /\ Used(c) <= Capacity
  BY UsedType DEF TypeInv
<1>3. Disks' = Disks
  BY DEF Day, service, Disks
<1>9. Oldest \in Nat
  BY SizesAssumption DEF Oldest
<1>4. ASSUME NEW o \in Entry
      PROVE  /\ Older(o) \in Entry /\ Older(o).size = o.size /\ Older(o).there = o.there
             /\ Older(o).age >= o.age
  <2>1. CASE o.there /\ o.age < Oldest
    <3>1. PICK a \in 0 .. Oldest : a = o.age + 1
      BY <2>1, <1>9 DEF Entry
    <3>2. Older(o) = [o EXCEPT !.age = a]
      BY <2>1, <3>1 DEF Older
    <3> QED
      BY <3>1, <3>2, <1>9 DEF Entry
  <2>2. CASE ~(o.there /\ o.age < Oldest)
    BY <2>2, <1>9 DEF Older, Entry
  <2> QED
    BY <2>1, <2>2
<1>5. /\ disk' \in [Disks -> [Dirs -> Entry]]
      /\ \A d \in Disks, g \in Dirs : /\ disk'[d][g].size = disk[d][g].size
                                      /\ disk'[d][g].there = disk[d][g].there
                                      /\ disk'[d][g].age >= disk[d][g].age
  <2>1. disk' = [d \in Disks |-> [g \in Dirs |-> Older(disk[d][g])]]
    BY DEF Day
  <2> QED
    BY <2>1, <1>1, <1>4
<1>6. \A c \in Disks, h \in Dirs : disk'[c][h].size \in Nat /\ disk[c][h].size \in Nat
  BY <1>1, <1>5, SizesAssumption DEF Entry
<1>7. ASSUME NEW c \in Disks
      PROVE  Used(c)' <= Capacity
  <2>1. Cardinality(FilesIn(disk'[c])) <= Cardinality(FilesIn(disk[c]))
    BY <1>5, <1>6, FilesMonotone
  <2>2. Used(c)' = Cardinality(FilesIn(disk'[c]))
    BY DEF Used, FilesIn
  <2>3. PICK n \in Nat : n = Used(c)'
    BY <2>2, FilesFinite
  <2> QED
    BY <2>1, <2>2, <2>3, <1>2, SizesAssumption DEF Used
<1>8. DisksOK'
  <2>1. ASSUME NEW d \in Disks, NEW g \in Dirs, ~disk'[d][g].there
        PROVE  disk'[d][g] = None
    <3>1. disk[d][g] = None /\ ~disk[d][g].there
      BY <2>1, <1>1, <1>5
    <3>2. disk'[d][g] = Older(disk[d][g])
      BY DEF Day
    <3> QED
      BY <3>1, <3>2 DEF Older
  <2> QED
    BY <2>1, <1>3, <1>5, <1>7 DEF DisksOK
<1> QED
  BY <1>5, <1>8

\* A tick leaves every disk as full as it was.
LEMMA DaySame ==
  ASSUME TypeInv, Day
  PROVE  \A c \in Disks : Used(c)' = Used(c)
<1>1. \A c \in Disks, h \in Dirs : disk'[c][h].size = disk[c][h].size
  BY DayAges
<1>2. ASSUME NEW c \in Disks
      PROVE  FilesIn(disk'[c]) = FilesIn(disk[c])
  BY <1>1, <1>2 DEF FilesIn
<1>3. \A c : Used(c)' = Cardinality(FilesIn(disk'[c]))
  BY DEF Used, FilesIn
<1> QED
  BY <1>2, <1>3 DEF Used

\* The disks are as they should be after every step.
LEMMA DisksNext ==
  ASSUME TypeInv, [Next]_vars
  PROVE  DisksOK'
<1>1. CASE UNCHANGED <<disk, nStorage>>
  <2>1. /\ disk \in [Disks -> [Dirs -> Entry]]
        /\ \A d \in Disks, g \in Dirs : ~disk[d][g].there => disk[d][g] = None
        /\ \A d \in Disks : Used(d) <= Capacity
    BY DEF TypeInv, TypeOK, Entry
  <2>2. Disks' = Disks /\ \A c : Used(c)' = Used(c)
    BY <1>1 DEF Disks, Used, FilesIn
  <2> QED
    BY <1>1, <2>1, <2>2 DEF DisksOK
<1>2. CASE MakeDirectory \/ WriteFile
  <2>1. UNCHANGED nStorage
    BY <1>2 DEF MakeDirectory, WriteFile, service, shared
  <2> QED
    BY <1>2, <2>1, WriterFills
<1>3. CASE RemoveContents \/ RemoveDirectory
  BY <1>3, RemovalEmpties
<1>4. CASE Day
  BY <1>4, DayAges
<1>5. CASE \/ Start \/ Noon \/ Probe \/ NoneFound \/ Keeps \/ CleanStarts \/ CleanEnds
           \/ UpdateStorage \/ CopyRoot \/ SaveAgain
           \/ (\E g \in Dirs : Visit(g)) \/ (\E g \in Dirs : SaveStarts(g))
           \/ UNCHANGED vars
  <2>1. UNCHANGED <<disk, nStorage>>
    BY <1>5 DEF Start, Noon, Probe, NoneFound, Keeps, CleanStarts, CleanEnds, UpdateStorage, CopyRoot,
                SaveAgain, Visit, SaveStarts, vars, service, shared
  <2> QED
    BY <2>1, <1>1
<1> QED
  BY <1>2, <1>3, <1>4, <1>5 DEF Next, AutoFree, SaveFirst

\* Every step keeps the types.
LEMMA TypeNext ==
  ASSUME TypeInv, [Next]_vars
  PROVE  TypeInv'
<1>1. /\ nStorage \in 1 .. MaxStorage /\ nStorage \in Nat \ {0} /\ Disks = 0 .. nStorage - 1
      /\ iNow \in Nat /\ iNow < nStorage /\ i \in Nat /\ i <= nStorage
      /\ iNew \in Nat /\ iNew <= nStorage /\ Wrap(iNew) \in Disks /\ Next1 \in Disks
  BY Numbers DEF TypeInv, TypeOK
<1>2. /\ iNow \in Disks /\ iStorage \in Disks /\ root \in Disks
      /\ to \in [disk : Disks, dir : Dirs] /\ to.disk \in Disks /\ to.dir \in Dirs
      /\ todo \subseteq Dirs /\ dir \in Dirs
      /\ i \in 0 .. nStorage /\ iNew \in 0 .. nStorage
  BY DEF TypeInv, TypeOK
<1>3. /\ started \in {"starting", "running", "refused"}
      /\ at \in {"sleep", "scan", "found", "none", "clean", "remove", "rmdir", "assign"}
      /\ save \in {"idle", "root", "mkdir", "open", "wait", "ended"}
      /\ crashed \in BOOLEAN /\ stale \in BOOLEAN /\ late \in BOOLEAN
  BY DEF TypeInv, TypeOK
<1>4. DisksOK'
  BY DisksNext
<1>5. nStorage' = nStorage
  BY DEF Next, AutoFree, SaveFirst, Start, Day, Noon, Probe, NoneFound, Keeps, CleanStarts, Visit,
         RemoveContents, RemoveDirectory, CleanEnds, UpdateStorage, CopyRoot, MakeDirectory,
         WriteFile, SaveAgain, SaveStarts, vars, service, shared
<1>6. Disks' = Disks
  BY <1>5 DEF Disks
<1>7. /\ started' \in {"starting", "running", "refused"}
      /\ at' \in {"sleep", "scan", "found", "none", "clean", "remove", "rmdir", "assign"}
  BY <1>3, Zenon DEF Next, AutoFree, SaveFirst, Start, Day, Noon, FindStorage, Probe, NoneFound,
         Keeps,
         CleanStarts, Visit, RemoveContents, RemoveDirectory, CleanEnds, UpdateStorage, CopyRoot,
         MakeDirectory, WriteFile, SaveAgain, SaveStarts, vars, service, shared
<1>8. /\ save' \in {"idle", "root", "mkdir", "open", "wait", "ended"}
      /\ crashed' \in BOOLEAN
  BY <1>3, Zenon DEF Next, AutoFree, SaveFirst, Start, Day, Noon, FindStorage, Probe, NoneFound,
         Keeps,
         CleanStarts, Visit, RemoveContents, RemoveDirectory, CleanEnds, UpdateStorage, CopyRoot,
         MakeDirectory, WriteFile, SaveAgain, SaveStarts, vars, service, writer, shared
<1>9. /\ iNow' \in Disks /\ i' \in 0 .. nStorage /\ iNew' \in 0 .. nStorage
      /\ iStorage' \in Disks /\ root' \in Disks
  <2>1. CASE Probe
    <3>1. PICK d \in Disks : d = Wrap(iNew)
      BY <1>1
    <3>2. /\ i < nStorage /\ UNCHANGED <<iNow, root>>
          /\ \/ iStorage' = d /\ iNew' = d /\ i' = i
             \/ iNew' = d + 1 /\ i' = i + 1 /\ iStorage' = iStorage
      BY <2>1, <3>1 DEF Probe
    <3> QED
      BY <3>1, <3>2, <1>1, <1>2
  <2>2. CASE Noon
    BY <2>2, <1>1, <1>2 DEF Noon, FindStorage
  <2>3. CASE Start \/ CleanEnds \/ UpdateStorage
    BY <2>3, <1>1, <1>2 DEF Start, CleanEnds, UpdateStorage, loop
  <2>4. CASE UNCHANGED <<iNow, i, iNew, iStorage, root>>
    BY <2>4, <1>2
  <2>5. CASE \/ Day \/ NoneFound \/ Keeps \/ CleanStarts \/ RemoveContents \/ RemoveDirectory
             \/ CopyRoot \/ MakeDirectory \/ WriteFile \/ SaveAgain
             \/ (\E g \in Dirs : Visit(g)) \/ (\E g \in Dirs : SaveStarts(g))
             \/ UNCHANGED vars
    <3>1. UNCHANGED <<iNow, i, iNew, iStorage, root>>
      BY <2>5 DEF Day, NoneFound, Keeps, CleanStarts, RemoveContents, RemoveDirectory, CopyRoot,
                  MakeDirectory, WriteFile, SaveAgain, Visit, SaveStarts, vars, loop, shared
    <3> QED
      BY <3>1, <2>4
  <2> QED
    BY <2>1, <2>2, <2>3, <2>5 DEF Next, AutoFree, SaveFirst
<1>10. todo' \subseteq Dirs /\ dir' \in Dirs
  BY <1>2, Zenon DEF Next, AutoFree, SaveFirst, Start, Day, Noon, Probe, NoneFound, Keeps,
         CleanStarts, Visit, RemoveContents, RemoveDirectory, CleanEnds, UpdateStorage, CopyRoot,
         MakeDirectory, WriteFile, SaveAgain, SaveStarts, vars, shared
<1>11. to' \in [disk : Disks, dir : Dirs]
  <2>1. CASE CopyRoot
    BY <2>1, <1>2 DEF CopyRoot, shared
  <2>2. CASE \E g \in Dirs : SaveStarts(g)
    BY <2>2, <1>2 DEF SaveStarts, shared
  <2>3. CASE UNCHANGED to
    BY <2>3, <1>2
  <2>4. CASE \/ Start \/ Day \/ Noon \/ Probe \/ NoneFound \/ Keeps \/ CleanStarts \/ RemoveContents
             \/ RemoveDirectory \/ CleanEnds \/ UpdateStorage \/ MakeDirectory \/ WriteFile
             \/ SaveAgain \/ (\E g \in Dirs : Visit(g)) \/ UNCHANGED vars
    <3>1. UNCHANGED to
      BY <2>4 DEF Start, Day, Noon, Probe, NoneFound, Keeps, CleanStarts, RemoveContents,
                  RemoveDirectory, CleanEnds, UpdateStorage, MakeDirectory, WriteFile, SaveAgain,
                  Visit, vars, writer, shared
    <3> QED
      BY <3>1, <2>3
  <2> QED
    BY <2>1, <2>2, <2>4 DEF Next, AutoFree, SaveFirst
<1>13. stale' \in BOOLEAN /\ late' \in BOOLEAN
  <2>1. CASE WriteFile
    BY <2>1, <1>3, Zenon DEF WriteFile, shared
  <2>2. CASE UpdateStorage
    BY <2>2, <1>3, Zenon DEF UpdateStorage
  <2>3. CASE \/ Start \/ Day \/ Noon \/ Probe \/ NoneFound \/ Keeps \/ CleanStarts
             \/ RemoveContents \/ RemoveDirectory \/ CleanEnds \/ CopyRoot \/ MakeDirectory
             \/ SaveAgain \/ (\E g \in Dirs : Visit(g)) \/ (\E g \in Dirs : SaveStarts(g))
             \/ UNCHANGED vars
    <3>1. stale' \in {stale, FALSE} /\ late' \in {late, FALSE}
      BY <2>3 DEF Start, Day, Noon, Probe, NoneFound, Keeps, CleanStarts, RemoveContents,
                  RemoveDirectory, CleanEnds, CopyRoot, MakeDirectory, SaveAgain, Visit, SaveStarts,
                  vars, writer, shared
    <3> QED
      BY <3>1, <1>3
  <2> QED
    BY <2>1, <2>2, <2>3 DEF Next, AutoFree, SaveFirst
<1>14. errcnt' \in 0 .. FailLimit /\ (save' = "wait" => errcnt' # FailLimit)
  <2>1. /\ errcnt \in 0 .. FailLimit /\ 0 \in 0 .. FailLimit
        /\ save = "wait" => errcnt # FailLimit
    BY SizesAssumption DEF TypeInv, TypeOK
  <2>2. CASE WriteFile
    BY <2>1, <2>2 DEF WriteFile, shared
  <2>3. CASE SaveAgain
    BY <2>1, <2>3, SizesAssumption DEF SaveAgain, shared
  <2>4. CASE (\E g \in Dirs : SaveStarts(g)) \/ CopyRoot \/ MakeDirectory
    <3>1. errcnt' \in {0, errcnt} /\ (save' = "wait" => save = "wait" /\ errcnt' = errcnt)
      BY <2>4 DEF SaveStarts, CopyRoot, MakeDirectory, shared
    <3> QED
      BY <2>1, <3>1
  <2>5. CASE \/ Start \/ Day \/ Noon \/ Probe \/ NoneFound \/ Keeps \/ CleanStarts
             \/ RemoveContents \/ RemoveDirectory \/ CleanEnds \/ UpdateStorage
             \/ (\E g \in Dirs : Visit(g)) \/ UNCHANGED vars
    <3>1. UNCHANGED <<errcnt, save>>
      BY <2>5 DEF Start, Day, Noon, Probe, NoneFound, Keeps, CleanStarts, RemoveContents,
                  RemoveDirectory, CleanEnds, UpdateStorage, Visit, vars, writer
    <3> QED
      BY <2>1, <3>1
  <2> QED
    BY <2>2, <2>3, <2>4, <2>5 DEF Next, AutoFree, SaveFirst
<1>12. TypeOK'
  BY <1>1, <1>4, <1>5, <1>6, <1>7, <1>8, <1>9, <1>10, <1>11, <1>13, <1>14 DEF TypeOK, DisksOK, Entry
<1> QED
  BY <1>4, <1>12, <1>14 DEF TypeInv, DisksOK

\* The types hold from the start and in every state of the service (TransferAgent.cpp,
\* FileWritter.cpp): in particular no disk ever holds more than it can.
THEOREM TypeCorrect == Spec => []TypeOK
<1>1. TypeInv /\ [Next]_vars => TypeInv'
  BY TypeNext
<1>2. TypeInv => TypeOK
  BY DEF TypeInv
<1> QED
  BY TypeInit, <1>1, <1>2, PTL DEF Spec

-----------------------------------------------------------------------------
(* The check and the writer. *)

\* Before the service runs nothing is saved; where it is refused nothing happens.
LEMMA ServiceNext ==
  ASSUME TypeInv, ServiceInv, [Next]_vars
  PROVE  ServiceInv'
<1>1. started \in {"starting", "running", "refused"}
  BY DEF TypeInv, TypeOK
<1>2. CASE Start
  BY <1>2 DEF Start, ServiceInv, writer
<1>3. CASE Probe \/ NoneFound
  <2>1. at = "scan" /\ at' \in {"scan", "found", "none"} /\ UNCHANGED <<started, save>>
    BY <1>3 DEF Probe, NoneFound, service, writer
  <2> QED
    BY <2>1 DEF ServiceInv
<1>4. CASE \/ Day \/ Noon \/ Keeps \/ CleanStarts \/ (\E g \in Dirs : SaveStarts(g))
  <2>1. started = "running" /\ started' = "running"
    BY <1>4 DEF Day, Noon, Keeps, CleanStarts, SaveStarts, Free, service, shared
  <2> QED
    BY <2>1 DEF ServiceInv
<1>5. CASE \/ RemoveContents \/ RemoveDirectory \/ CleanEnds \/ UpdateStorage
           \/ (\E g \in Dirs : Visit(g))
  <2>1. at \in {"remove", "rmdir", "clean", "assign"} /\ UNCHANGED started
    BY <1>5 DEF RemoveContents, RemoveDirectory, CleanEnds, UpdateStorage, Visit, service
  <2>2. started = "running"
    BY <2>1, <1>1 DEF ServiceInv
  <2> QED
    BY <2>1, <2>2 DEF ServiceInv
<1>6. CASE SaveFirst
  <2>1. save # "idle" /\ UNCHANGED started
    BY <1>6 DEF SaveFirst, CopyRoot, MakeDirectory, WriteFile, SaveAgain, service, shared
  <2>2. started = "running"
    BY <2>1, <1>1 DEF ServiceInv
  <2> QED
    BY <2>1, <2>2 DEF ServiceInv
<1>7. CASE UNCHANGED vars
  BY <1>7 DEF ServiceInv, vars, service, writer
<1> QED
  BY <1>2, <1>3, <1>4, <1>5, <1>6, <1>7 DEF Next, AutoFree

\* pathRoot_ is the disk the check began with until it is assigned.
LEMMA RootNext ==
  ASSUME TypeInv, ServiceInv, RootInv, [Next]_vars
  PROVE  RootInv'
<1>1. CASE Start
  BY <1>1 DEF Start, RootInv, Free, Checking
<1>2. CASE Probe \/ NoneFound
  <2>1. /\ at = "scan" /\ at' \in {"scan", "found", "none"}
        /\ UNCHANGED <<started, root, iNow>> /\ (at' = "scan" => iStorage' = iStorage)
    BY <1>2 DEF Probe, NoneFound, service, loop
  <2> QED
    BY <2>1 DEF RootInv, Free, Checking
<1>3. CASE Noon
  <2>1. at = "sleep" /\ Free /\ at' = "scan" /\ iNow' = iStorage /\ UNCHANGED <<iStorage, root>>
    BY <1>3 DEF Noon, FindStorage
  <2> QED
    BY <2>1 DEF RootInv
<1>4. CASE Keeps
  BY <1>4 DEF Keeps, RootInv, Free, Checking, service, loop
<1>5. CASE CleanStarts \/ RemoveContents \/ RemoveDirectory \/ CleanEnds
           \/ (\E g \in Dirs : Visit(g))
  <2>1. /\ at \in {"none", "clean", "remove", "rmdir"}
        /\ at' \in {"clean", "remove", "rmdir", "assign"}
        /\ UNCHANGED <<started, root, iNow>>
    BY <1>5 DEF CleanStarts, RemoveContents, RemoveDirectory, CleanEnds, Visit, service, loop
  <2> QED
    BY <2>1 DEF RootInv, Free, Checking
<1>6. CASE UpdateStorage
  BY <1>6 DEF UpdateStorage, RootInv, Free, Checking
<1>7. CASE Day \/ SaveFirst \/ (\E g \in Dirs : SaveStarts(g)) \/ UNCHANGED vars
  <2>1. UNCHANGED <<started, at, iNow, iStorage, root>>
    BY <1>7 DEF Day, SaveFirst, CopyRoot, MakeDirectory, WriteFile, SaveAgain, SaveStarts, vars,
         service,
                loop, shared
  <2> QED
    BY <2>1 DEF RootInv, Free
<1> QED
  BY <1>1, <1>2, <1>3, <1>4, <1>5, <1>6, <1>7 DEF Next, AutoFree

\* While the check goes on, a save that is not stale stores on the disk the check
\* began with, and that is not the one being cleaned.
LEMMA SavingApart ==
  ASSUME TypeInv, ServiceInv, RootInv, WriterInv, Saving, at \in Checking, nStorage > 1
  PROVE  to.disk = root /\ to.disk # Next1
<1>1. Free
  BY DEF Saving, ServiceInv, Free, TypeInv, TypeOK
<1>2. to.disk = root /\ root = iNow
  BY <1>1 DEF WriterInv, RootInv, Checking
<1>3. iNow # Next1
  BY Numbers DEF Next1, Wrap, TypeInv
<1> QED
  BY <1>2, <1>3

\* A save that is not stale stores on the disk of pathRoot_, and nobody takes its
\* directory away.
LEMMA WriterNext ==
  ASSUME TypeInv, ServiceInv, RootInv, WriterInv, [Next]_vars
  PROVE  WriterInv'
<1>1. CASE Start
  <2>1. save' = "idle"
    BY <1>1 DEF Start, ServiceInv, writer
  <2> QED
    BY <2>1 DEF WriterInv, Saving
<1>2. CASE \/ Noon \/ NoneFound \/ CleanStarts \/ (\E g \in Dirs : Visit(g)) \/ Keeps
  <2>1. at # "assign" /\ UNCHANGED <<nStorage, iStorage, root, disk, save, to, stale>>
    BY <1>2 DEF Noon, NoneFound, CleanStarts, Visit, Keeps, service, writer
  <2> QED
    BY <2>1 DEF WriterInv, Saving
<1>3. CASE Probe \/ CleanEnds
  <2>1. at # "assign" /\ UNCHANGED <<nStorage, root, disk, save, to, stale>>
    BY <1>3 DEF Probe, CleanEnds, service, writer
  <2> QED
    BY <2>1 DEF WriterInv, Saving
<1>4. CASE RemoveContents \/ RemoveDirectory
  <2>1. /\ at \in {"remove", "rmdir"} /\ at' # "assign"
        /\ UNCHANGED <<nStorage, root, save, to, stale>>
    BY <1>4 DEF RemoveContents, RemoveDirectory, service, writer
  <2>2. ASSUME Saving, save = "open", nStorage > 1
        PROVE  disk'[to.disk][to.dir].there
    <3>1. to.disk # Next1
      BY <2>1, <2>2, SavingApart DEF Checking
    <3>2. to.disk \in Disks /\ to.dir \in Dirs
      BY DEF TypeInv, TypeOK
    <3>3. disk'[to.disk][to.dir] = disk[to.disk][to.dir]
      BY <1>4, <3>1, <3>2, RemovalEmpties
    <3> QED
      BY <3>3, <2>2 DEF WriterInv
  <2> QED
    BY <2>1, <2>2 DEF WriterInv, Saving
<1>5. CASE UpdateStorage
  <2>1. /\ at = "assign" /\ root' = iStorage /\ UNCHANGED <<nStorage, iStorage, disk, save, to>>
        /\ ~stale' => ~stale /\ (save \in {"mkdir", "open"} => to.disk = iStorage)
    BY <1>5 DEF UpdateStorage, service
  <2> QED
    BY <2>1 DEF WriterInv, Saving
<1>6. CASE CopyRoot
  <2>1. /\ UNCHANGED <<nStorage, at, iStorage, root, disk>>
        /\ save' # "open"
    BY <1>6 DEF CopyRoot, service, shared
  <2>2. ASSUME save' \in {"mkdir", "open"}
        PROVE  to'.disk = root \/ (at = "assign" /\ to'.disk = iStorage)
    <3>1. \E d \in {root} \cup (IF at = "assign" THEN {iStorage} ELSE {}) :
            to' = [to EXCEPT !.disk = d]
      BY <1>6, <2>2 DEF CopyRoot, shared
    <3>2. to \in [disk : Disks, dir : Dirs]
      BY DEF TypeInv, TypeOK
    <3> QED
      BY <3>1, <3>2
  <2> QED
    BY <2>1, <2>2 DEF WriterInv, Saving
<1>7. CASE MakeDirectory
  <2>1. /\ UNCHANGED <<nStorage, at, iStorage, root, to, stale>> /\ save = "mkdir"
        /\ disk' = [disk EXCEPT ![to.disk][to.dir] =
                      IF @.there THEN @ ELSE [None EXCEPT !.there = TRUE]]
    BY <1>7 DEF MakeDirectory, service, shared
  <2>2. to.disk \in Disks /\ to.dir \in Dirs /\ disk \in [Disks -> [Dirs -> Entry]]
    BY DEF TypeInv, TypeOK, Entry
  <2>3. disk'[to.disk][to.dir] = IF disk[to.disk][to.dir].there THEN disk[to.disk][to.dir]
                                 ELSE [None EXCEPT !.there = TRUE]
    BY <2>1, <2>2
  <2>4. [None EXCEPT !.there = TRUE].there
    BY DEF None
  <2> QED
    BY <2>1, <2>3, <2>4 DEF WriterInv, Saving
<1>8. CASE WriteFile \/ SaveAgain \/ (\E g \in Dirs : SaveStarts(g))
  <2>1. save' \notin {"mkdir", "open"}
    BY <1>8 DEF WriteFile, SaveAgain, SaveStarts, shared
  <2> QED
    BY <2>1 DEF WriterInv, Saving
<1>9. CASE Day
  <2>1. UNCHANGED <<nStorage, at, iStorage, root, save, to, stale>>
    BY <1>9 DEF Day, service, writer
  <2>2. to.disk \in Disks /\ to.dir \in Dirs
    BY DEF TypeInv, TypeOK
  <2>3. disk'[to.disk][to.dir].there = disk[to.disk][to.dir].there
    BY <1>9, <2>2, DayAges
  <2> QED
    BY <2>1, <2>3 DEF WriterInv, Saving
<1>10. CASE UNCHANGED vars
  BY <1>10 DEF WriterInv, Saving, vars, writer, service
<1> QED
  BY <1>1, <1>2, <1>3, <1>4, <1>5, <1>6, <1>7, <1>8, <1>9, <1>10 DEF Next, AutoFree, SaveFirst

\* The directory being removed stays as old and as empty as it was, until a stale
\* save stores into it.
LEMMA RemoveNext ==
  ASSUME TypeInv, ServiceInv, RootInv, WriterInv, RemoveInv, [Next]_vars
  PROVE  RemoveInv'
<1>a. nStorage \in Nat /\ Next1 \in Disks /\ dir \in Dirs
  BY Numbers DEF TypeInv, TypeOK
<1>b. disk \in [Disks -> [Dirs -> Entry]]
  BY DEF TypeInv, TypeOK, Entry
<1>1. CASE \E g \in Dirs : Visit(g)
  <2>1. PICK g \in Dirs : Visit(g)
    BY <1>1
  <2>2. /\ dir' = g /\ UNCHANGED <<nStorage, iNow, disk>>
        /\ at' = "remove" => Expired(disk[Next1][g].age)
        /\ at' # "rmdir"
    BY <2>1 DEF Visit, service, loop
  <2>3. Next1' = Next1
    BY <2>2 DEF Next1, Wrap
  <2> QED
    BY <2>2, <2>3 DEF RemoveInv, Expired
<1>2. CASE \/ Start \/ Noon \/ Probe \/ NoneFound \/ Keeps \/ CleanStarts
           \/ RemoveDirectory \/ CleanEnds \/ UpdateStorage
  <2>1. at' \notin {"remove", "rmdir"}
    BY <1>2 DEF Start, Noon, FindStorage, Probe, NoneFound, Keeps, CleanStarts,
                RemoveDirectory, CleanEnds, UpdateStorage
  <2> QED
    BY <2>1 DEF RemoveInv
<1>3. CASE RemoveContents
  <2>1. /\ at' = "rmdir" /\ UNCHANGED <<nStorage, iNow, dir>>
        /\ disk' = [disk EXCEPT ![Next1][dir].size = 0]
    BY <1>3 DEF RemoveContents, service, loop
  <2>2. Next1' = Next1
    BY <2>1 DEF Next1, Wrap
  <2>3. disk[Next1][dir] \in Entry /\ disk[Next1] \in [Dirs -> Entry]
    BY <1>a, <1>b
  <2>4. disk'[Next1][dir] = [disk[Next1][dir] EXCEPT !.size = 0]
    BY <2>1, <2>3, <1>a, <1>b
  <2>5. disk'[Next1][dir].size = 0
    BY <2>3, <2>4 DEF Entry
  <2> QED
    BY <2>1, <2>2, <2>5 DEF RemoveInv
<1>4. CASE Day
  <2>1. UNCHANGED <<nStorage, at, iNow, dir, late>>
    BY <1>4 DEF Day, service, loop
  <2>2. Next1' = Next1
    BY <2>1 DEF Next1, Wrap
  <2>3. /\ disk'[Next1][dir].size = disk[Next1][dir].size
        /\ disk'[Next1][dir].age >= disk[Next1][dir].age
    BY <1>4, <1>a, DayAges
  <2>4. disk[Next1][dir].age \in Int /\ disk'[Next1][dir].age \in Int
    <3>1. disk' \in [Disks -> [Dirs -> Entry]]
      BY <1>4, DayAges DEF DisksOK, Day, service, Disks
    <3> QED
      BY <3>1, <1>a, <1>b DEF Entry
  <2> QED
    BY <2>1, <2>2, <2>3, <2>4, SizesAssumption DEF RemoveInv, Expired
<1>5. CASE WriteFile
  <2>1. /\ UNCHANGED <<nStorage, at, iNow, dir, to>> /\ save = "open"
        /\ disk[to.disk][to.dir].there =>
             late' = (late \/ (stale /\ to = [disk |-> Next1, dir |-> dir]))
        /\ ~disk[to.disk][to.dir].there => UNCHANGED <<disk, late>>
        /\ disk[to.disk][to.dir].there =>
             disk' = [disk EXCEPT ![to.disk][to.dir] =
                        [there |-> TRUE, age |-> 0,
                         size |-> IF Available(to.disk) > 0 THEN @.size + 1 ELSE @.size]]
    BY <1>5 DEF WriteFile, service, loop, shared
  <2>2. Next1' = Next1
    BY <2>1 DEF Next1, Wrap
  <2>3. CASE ~disk[to.disk][to.dir].there
    BY <2>1, <2>2, <2>3 DEF RemoveInv, Expired
  <2>4. CASE disk[to.disk][to.dir].there
    <3>1. ASSUME at \in {"remove", "rmdir"}, nStorage > 1, ~late'
          PROVE  disk'[Next1][dir] = disk[Next1][dir] /\ ~late
      <4>1. to \in [disk : Disks, dir : Dirs]
        BY DEF TypeInv, TypeOK
      <4>2. ~late /\ (~stale \/ to # [disk |-> Next1, dir |-> dir])
        BY <3>1, <2>1, <2>4
      <4>3. ~stale => to.disk # Next1
        BY <3>1, <2>1, SavingApart DEF Saving, Checking
      <4>4. to.disk # Next1 \/ to.dir # dir
        BY <4>1, <4>2, <4>3
      <4> QED
        BY <2>1, <2>4, <4>1, <4>2, <4>4, <1>a, <1>b
    <3> QED
      BY <2>1, <2>2, <3>1 DEF RemoveInv, Expired
  <2> QED
    BY <2>3, <2>4
<1>6. CASE MakeDirectory
  <2>1. UNCHANGED <<nStorage, at, iNow, dir, late>> /\ save = "mkdir"
    BY <1>6 DEF MakeDirectory, service, loop, shared
  <2>2. Next1' = Next1
    BY <2>1 DEF Next1, Wrap
  <2>3. /\ disk'[Next1][dir].age = disk[Next1][dir].age
        /\ disk'[Next1][dir].size = disk[Next1][dir].size
    <3>1. CASE disk'[Next1][dir] = disk[Next1][dir]
      BY <3>1
    <3>2. CASE disk'[Next1][dir] # disk[Next1][dir]
      <4>1. /\ ~disk[Next1][dir].there
            /\ disk'[Next1][dir] = [None EXCEPT !.there = TRUE]
        BY <1>6, <3>2, <1>a, <1>b DEF MakeDirectory, shared
      <4>2. disk[Next1][dir] = None
        BY <4>1, <1>a DEF TypeInv
      <4> QED
        BY <4>1, <4>2 DEF None
    <3> QED
      BY <3>1, <3>2
  <2> QED
    BY <2>1, <2>2, <2>3 DEF RemoveInv, Expired
<1>7. CASE CopyRoot \/ SaveAgain \/ (\E g \in Dirs : SaveStarts(g)) \/ UNCHANGED vars
  <2>1. UNCHANGED <<nStorage, at, iNow, dir, late, disk>>
    BY <1>7 DEF CopyRoot, SaveAgain, SaveStarts, vars, service, loop, shared
  <2>2. Next1' = Next1
    BY <2>1 DEF Next1, Wrap
  <2> QED
    BY <2>1, <2>2 DEF RemoveInv, Expired
<1> QED
  BY <1>1, <1>2, <1>3, <1>4, <1>5, <1>6, <1>7 DEF Next, AutoFree, SaveFirst

\* The disks found too full stay so while nothing but the writer touches them.
LEMMA StaysTooFull ==
  ASSUME TypeInv, NEW m \in Nat, m <= nStorage, TooFull(m), UNCHANGED <<nStorage, iNow>>,
         MakeDirectory \/ WriteFile \/ Day \/ UNCHANGED disk
  PROVE  TooFull(m)'
<1>1. /\ nStorage \in Nat \ {0} /\ Disks = 0 .. nStorage - 1 /\ iNow \in Nat /\ iNow < nStorage
  BY Numbers DEF TypeInv
<1>2. \A c \in Disks : Available(c) = Capacity - Used(c) /\ Used(c) \in Nat /\ Used(c) <= Capacity
  BY UsedType DEF TypeInv
<1>3. \A c \in Disks : Used(c)' \in Nat
  BY FilesFinite DEF Used
<1>4. \A c \in Disks : Used(c) <= Used(c)' /\ Used(c)' <= Capacity
  <2>1. CASE MakeDirectory \/ WriteFile
    <3>1. DisksOK' /\ \A c \in Disks : Used(c) <= Used(c)'
      BY <2>1, WriterFills
    <3>2. Disks' = Disks
      BY DEF Disks
    <3> QED
      BY <3>1, <3>2 DEF DisksOK
  <2>2. CASE UNCHANGED disk
    <3>1. \A c : Used(c)' = Used(c)
      BY <2>2 DEF Used, FilesIn
    <3> QED
      BY <3>1, <1>2
  <2>3. CASE Day
    <3>1. DisksOK' /\ \A c \in Disks : Used(c)' = Used(c)
      BY <2>3, DayAges, DaySame
    <3>2. Disks' = Disks
      BY DEF Disks
    <3> QED
      BY <3>1, <3>2, <1>2 DEF DisksOK
  <2> QED
    BY <2>1, <2>2, <2>3
<1>5. \A c \in Disks : Available(c)' = Capacity - Used(c)'
  <2>1. ASSUME NEW c \in Disks
        PROVE  Available(c)' = Capacity - Used(c)'
    <3>1. Used(c)' <= Capacity /\ Used(c)' \in Nat
      BY <1>3, <1>4
    <3>2. Available(c)' = IF Used(c)' > Capacity THEN 0 ELSE Capacity - Used(c)'
      BY DEF Available
    <3> QED
      BY <3>1, <3>2, SizesAssumption
  <2> QED
    BY <2>1
<1>6. ASSUME NEW k \in 0 .. m - 1
      PROVE  (Available(Wrap(iNow + k)) < MinFree)'
  <2>1. PICK c \in Disks : c = Wrap(iNow + k)
    BY <1>1, WrapType
  <2>2. (Available(Wrap(iNow + k)))' = Available(c)'
    BY <2>1 DEF Wrap, Available, Used, FilesIn
  <2>3. Available(c) < MinFree
    BY <2>1 DEF TooFull
  <2>4. PICK n \in Nat : n = Used(c)'
    BY <1>3
  <2>5. Capacity - n < MinFree
    BY <2>3, <2>4, <1>2, <1>4, SizesAssumption
  <2> QED
    BY <2>2, <2>4, <2>5, <1>5
<1> QED
  BY <1>6 DEF TooFull

\* The search goes from the disk in use onwards and leaves none out.
LEMMA ProbeNext ==
  ASSUME TypeInv, ProbeInv, [Next]_vars
  PROVE  ProbeInv'
<1>1. /\ nStorage \in Nat \ {0} /\ Disks = 0 .. nStorage - 1
      /\ iNow \in Nat /\ iNow < nStorage /\ i \in Nat /\ i <= nStorage
      /\ iNew \in Nat /\ iNew <= nStorage /\ Wrap(iNew) \in Disks
  BY Numbers DEF TypeInv
<1>2. CASE Probe
  <2>1. PICK d \in Disks : d = Wrap(iNew)
    BY <1>1
  <2>2. at = "scan" /\ i < nStorage /\ UNCHANGED <<nStorage, iNow, disk>>
    BY <1>2 DEF Probe, service
  <2>3. PICK p \in Nat : p = i
    BY <1>1
  <2>4. TooFull(p) /\ d = Wrap(iNow + p) /\ p < nStorage
    BY <2>1, <2>2, <2>3 DEF ProbeInv
  <2>5. CASE Available(d) >= MinFree
    <3>1. at' = "found" /\ iStorage' = d
      BY <1>2, <2>1, <2>5 DEF Probe
    <3>2. iStorage' = Wrap(iNow + p)'
      BY <3>1, <2>2, <2>4 DEF Wrap
    <3>3. p \in 0 .. nStorage' - 1
      BY <2>2, <2>4, <1>1
    <3>4. TooFull(p)'
      BY <2>2, <2>4, <1>1, StaysTooFull
    <3> QED
      BY <3>1, <3>2, <3>3, <3>4 DEF ProbeInv
  <2>6. CASE ~(Available(d) >= MinFree)
    <3>1. at' = "scan" /\ iNew' = d + 1 /\ i' = i + 1
      BY <1>2, <2>1, <2>2, <2>6 DEF Probe
    <3>2. PICK j \in Nat : j = p + 1
      OBVIOUS
    <3>3. Available(d) < MinFree
      <4>1. Available(d) \in Nat
        BY UsedType DEF TypeInv
      <4> QED
        BY <4>1, <2>6, SizesAssumption
    <3>4. TooFull(j)
      <4>1. ASSUME NEW k \in 0 .. j - 1
            PROVE  Available(Wrap(iNow + k)) < MinFree
        <5>1. CASE k = p
          BY <5>1, <3>3, <2>4
        <5>2. CASE k # p
          <6>1. k \in 0 .. p - 1
            BY <5>2, <3>2
          <6> QED
            BY <6>1, <2>4 DEF TooFull
        <5> QED
          BY <5>1, <5>2
      <4> QED
        BY <4>1 DEF TooFull
    <3>5. TooFull(j)'
      BY <3>2, <3>4, <2>2, <2>4, <1>1, StaysTooFull
    <3>6. j < nStorage => Wrap(d + 1) = Wrap(iNow + j)
      BY <3>2, <2>1, <2>4, <1>1 DEF Wrap
    <3>7. i' = j
      BY <3>1, <3>2, <2>3
    <3>8. i' < nStorage' => Wrap(iNew)' = Wrap(iNow + i)'
      BY <3>1, <3>6, <3>7, <2>2 DEF Wrap
    <3>9. TooFull(i)'
      BY <3>5, <3>7 DEF TooFull
    <3> QED
      BY <3>1, <3>8, <3>9 DEF ProbeInv
  <2> QED
    BY <2>5, <2>6
<1>3. CASE Noon
  <2>1. at' = "scan" /\ i' = 0 /\ iNow' = iStorage /\ iNew' = iStorage /\ nStorage' = nStorage
    BY <1>3 DEF Noon, FindStorage, service
  <2>2. Wrap(iNew)' = Wrap(iNow + i)'
    <3>1. iStorage \in Nat
      BY <1>1 DEF TypeInv, TypeOK
    <3> QED
      BY <2>1, <3>1 DEF Wrap
  <2>3. TooFull(i)'
    BY <2>1 DEF TooFull
  <2> QED
    BY <2>1, <2>2, <2>3 DEF ProbeInv
<1>4. CASE NoneFound
  <2>1. at = "scan" /\ i = nStorage /\ at' = "none" /\ UNCHANGED <<nStorage, iNow, disk>>
    BY <1>4 DEF NoneFound, service, loop
  <2>2. PICK p \in Nat : p = nStorage
    BY <1>1
  <2>3. TooFull(p)'
    BY <2>1, <2>2, <1>1, StaysTooFull DEF ProbeInv
  <2>4. TooFull(nStorage)'
    BY <2>1, <2>2, <2>3 DEF TooFull
  <2> QED
    BY <2>1, <2>4 DEF ProbeInv
<1>5. CASE \/ Start \/ Keeps \/ CleanStarts \/ RemoveContents \/ RemoveDirectory
           \/ CleanEnds \/ UpdateStorage \/ (\E g \in Dirs : Visit(g))
  <2>1. at' \notin {"scan", "found", "none"}
    BY <1>5 DEF Start, Keeps, CleanStarts, RemoveContents, RemoveDirectory, CleanEnds,
                UpdateStorage, Visit
  <2> QED
    BY <2>1 DEF ProbeInv
<1>6. CASE Day \/ SaveFirst \/ (\E g \in Dirs : SaveStarts(g)) \/ UNCHANGED vars
  <2>1. UNCHANGED <<nStorage, at, iNow, i, iNew, iStorage>>
    BY <1>6 DEF Day, SaveFirst, CopyRoot, MakeDirectory, WriteFile, SaveAgain, SaveStarts, vars,
         service,
                loop, shared
  <2>2. MakeDirectory \/ WriteFile \/ Day \/ UNCHANGED disk
    BY <1>6 DEF SaveFirst, CopyRoot, SaveAgain, SaveStarts, vars, shared
  <2>3. CASE at = "scan"
    <3>1. TooFull(i)
      BY <2>3 DEF ProbeInv
    <3>2. PICK j \in Nat : j = i
      BY <1>1
    <3>3. TooFull(j)'
      BY <3>1, <3>2, <2>1, <2>2, <1>1, StaysTooFull
    <3>4. TooFull(i)'
      BY <3>2, <3>3, <2>1 DEF TooFull
    <3>5. i' < nStorage' => Wrap(iNew)' = Wrap(iNow + i)'
      BY <2>1, <2>3 DEF ProbeInv, Wrap
    <3> QED
      BY <2>1, <2>3, <3>4, <3>5 DEF ProbeInv
  <2>4. CASE at = "found"
    <3>1. PICK m \in 0 .. nStorage - 1 : iStorage = Wrap(iNow + m) /\ TooFull(m)
      BY <2>4 DEF ProbeInv
    <3>2. TooFull(m)'
      BY <3>1, <2>1, <2>2, <1>1, StaysTooFull
    <3>3. iStorage' = Wrap(iNow + m)'
      BY <3>1, <2>1 DEF Wrap
    <3>4. m \in 0 .. nStorage' - 1
      BY <2>1
    <3> QED
      BY <2>1, <2>4, <3>2, <3>3, <3>4 DEF ProbeInv
  <2>5. CASE at = "none"
    <3>1. PICK n \in Nat : n = nStorage
      BY <1>1
    <3>2. TooFull(n)'
      BY <2>1, <2>2, <2>5, <3>1, <1>1, StaysTooFull DEF ProbeInv
    <3>3. TooFull(nStorage)'
      BY <3>1, <3>2, <2>1 DEF TooFull
    <3> QED
      BY <2>1, <2>5, <3>3 DEF ProbeInv
  <2>6. CASE at \notin {"scan", "found", "none"}
    BY <2>1, <2>6 DEF ProbeInv
  <2> QED
    BY <2>3, <2>4, <2>5, <2>6
<1> QED
  BY <1>2, <1>3, <1>4, <1>5, <1>6 DEF Next, AutoFree

-----------------------------------------------------------------------------
(* The theorems. *)

\* DiskInv is inductive.
LEMMA DiskInvHolds == Spec => []DiskInv
<1>1. Init => DiskInv
  <2> SUFFICES ASSUME Init PROVE DiskInv
    OBVIOUS
  <2>1. TypeInv
    BY TypeInit
  <2>2. started = "starting" /\ at = "scan" /\ save = "idle" /\ i = 0 /\ iNew = iStorage
        /\ iNow = iStorage
    BY DEF Init
  <2>3. ServiceInv /\ RootInv /\ WriterInv /\ RemoveInv
    BY <2>2 DEF ServiceInv, RootInv, WriterInv, RemoveInv, Saving, Free
  <2>4. ProbeInv
    <3>1. iNow \in Nat
      BY <2>1, Numbers DEF TypeInv
    <3>2. TooFull(i) /\ Wrap(iNew) = Wrap(iNow + i)
      BY <2>2, <3>1 DEF TooFull, Wrap
    <3> QED
      BY <2>2, <3>2 DEF ProbeInv
  <2> QED
    BY <2>1, <2>3, <2>4 DEF DiskInv
<1>2. DiskInv /\ [Next]_vars => DiskInv'
  <2> SUFFICES ASSUME DiskInv, [Next]_vars PROVE DiskInv'
    OBVIOUS
  <2>1. TypeInv /\ ServiceInv /\ RootInv /\ WriterInv /\ RemoveInv /\ ProbeInv
    BY DEF DiskInv
  <2>2. TypeInv' /\ ServiceInv' /\ RootInv'
    BY <2>1, TypeNext, ServiceNext, RootNext
  <2>3. WriterInv' /\ RemoveInv' /\ ProbeInv'
    BY <2>1, WriterNext, RemoveNext, ProbeNext
  <2> QED
    BY <2>2, <2>3 DEF DiskInv
<1> QED
  BY <1>1, <1>2, PTL DEF Spec

\* Between two checks pathRoot_ (FileWritter.cpp:36) and param_.iStorage
\* (TransferAgent.cpp:80, 111) name the same disk.
THEOREM PathFollowsConfiguration == Spec => []RootIsCurrent
<1>1. DiskInv => RootIsCurrent
  BY DEF DiskInv, RootInv, RootIsCurrent
<1> QED
  BY <1>1, DiskInvHolds, PTL

\* The loop of find_storage (TransferAgent.cpp:74-81) finds the first disk with room,
\* counted from the one in use, and what it passed over has not got room meanwhile;
\* if it finds none, there is none, and only then are files removed.
THEOREM FirstDiskIsFound == Spec => []FirstWithRoom
<1> DEFINE First == \A k \in 0 .. nStorage - 1 :
                      (\A j \in 0 .. k : Wrap(iNow + j) # iStorage) =>
                        Available(Wrap(iNow + k)) < MinFree
<1>1. ASSUME DiskInv, at = "found"
      PROVE  First
  <2> SUFFICES ASSUME NEW k \in 0 .. nStorage - 1, \A j \in 0 .. k : Wrap(iNow + j) # iStorage
               PROVE  Available(Wrap(iNow + k)) < MinFree
    OBVIOUS
  <2>1. PICK m \in 0 .. nStorage - 1 : iStorage = Wrap(iNow + m) /\ TooFull(m)
    BY <1>1 DEF DiskInv, ProbeInv
  <2>2. nStorage \in Nat
    BY <1>1, Numbers DEF DiskInv, TypeInv
  <2>3. m \notin 0 .. k
    BY <2>1
  <2>4. k \in 0 .. m - 1
    BY <2>2, <2>3
  <2> QED
    BY <2>1, <2>4 DEF TooFull
<1>2. ASSUME DiskInv, at = "none", NEW d \in Disks
      PROVE  Available(d) < MinFree
  <2>1. /\ nStorage \in Nat /\ iNow \in Nat /\ iNow < nStorage
        /\ d \in Nat /\ d < nStorage
    BY <1>2, Numbers DEF DiskInv, TypeInv
  <2>2. PICK k \in 0 .. nStorage - 1 : d = Wrap(iNow + k)
    <3>1. CASE d >= iNow
      <4>1. d - iNow \in 0 .. nStorage - 1 /\ d = Wrap(iNow + (d - iNow))
        BY <2>1, <3>1 DEF Wrap
      <4> QED
        BY <4>1
    <3>2. CASE d < iNow
      <4>1. /\ d + nStorage - iNow \in 0 .. nStorage - 1
            /\ d = Wrap(iNow + (d + nStorage - iNow))
        BY <2>1, <3>2 DEF Wrap
      <4> QED
        BY <4>1
    <3> QED
      BY <2>1, <3>1, <3>2
  <2> QED
    BY <1>2, <2>2 DEF DiskInv, ProbeInv, TooFull
<1>3. DiskInv => FirstWithRoom
  BY <1>1, <1>2 DEF FirstWithRoom
<1> QED
  BY <1>3, DiskInvHolds, PTL

\* free_storage (TransferAgent.cpp:99-106) takes files only from directories nothing
\* was stored in for longer than three days, as long as the local time is not ahead
\* of UTC, although age and removal are two steps and the writer stores between them.
\* The exception is a save that copied pathRoot_ before it was assigned another disk.
THEOREM RecentFilesStay == Spec => RecentIsKept
<1>1. ASSUME DiskInv, [Next]_vars, NEW d \in Disks, NEW g \in Dirs,
             nStorage > 1, Zone <= 0, disk'[d][g].size < disk[d][g].size
      PROVE  disk[d][g].age > Keep \/ late
  <2>1. TypeInv /\ RemoveInv
    BY <1>1 DEF DiskInv
  <2>2. disk[d][g].size \in Nat /\ disk[d][g].age \in Int
    BY <2>1, SizesAssumption DEF TypeInv, TypeOK
  <2>3. disk'[d][g].size # disk[d][g].size
    BY <2>2, <1>1
  <2>4. CASE RemoveContents
    <3>1. at = "remove"
      BY <2>4 DEF RemoveContents
    <3>2. d = Next1 /\ g = dir
      BY <2>1, <2>3, <2>4, RemovalEmpties
    <3>3. ~late => disk[d][g].age + Zone > Keep
      BY <3>1, <3>2, <2>1, <1>1 DEF RemoveInv, Expired
    <3> QED
      BY <3>3, <2>2, <1>1, SizesAssumption
  <2>5. CASE RemoveDirectory
    BY <2>1, <2>3, <2>5, RemovalEmpties
  <2>6. CASE MakeDirectory \/ WriteFile
    <3>1. UNCHANGED nStorage
      BY <2>6 DEF MakeDirectory, WriteFile, service, shared
    <3>2. disk[d][g].size <= disk'[d][g].size
      BY <2>1, <2>6, <3>1, WriterFills
    <3>3. disk'[d][g].size \in Nat
      <4>1. DisksOK' /\ Disks' = Disks
        BY <2>1, <2>6, <3>1, WriterFills DEF Disks
      <4> QED
        BY <4>1, SizesAssumption DEF DisksOK, Entry
    <3> QED
      BY <3>2, <3>3, <2>2, <1>1
  <2>7. CASE Day
    BY <2>1, <2>3, <2>7, DayAges
  <2>8. CASE UNCHANGED disk
    BY <2>3, <2>8
  <2>9. CASE \/ Start \/ Noon \/ Probe \/ NoneFound \/ Keeps \/ CleanStarts \/ CleanEnds
             \/ UpdateStorage \/ CopyRoot \/ SaveAgain
             \/ (\E h \in Dirs : Visit(h)) \/ (\E h \in Dirs : SaveStarts(h))
             \/ UNCHANGED vars
    <3>1. UNCHANGED disk
      BY <2>9 DEF Start, Noon, Probe, NoneFound, Keeps, CleanStarts, CleanEnds, UpdateStorage,
                  CopyRoot, SaveAgain, Visit, SaveStarts, vars, shared
    <3> QED
      BY <3>1, <2>8
  <2> QED
    BY <1>1, <2>4, <2>5, <2>6, <2>7, <2>9 DEF Next, AutoFree, SaveFirst
<1>2. DiskInv /\ [Next]_vars =>
        [\A d \in Disks, g \in Dirs :
           nStorage > 1 /\ Zone <= 0 /\ disk'[d][g].size < disk[d][g].size =>
             disk[d][g].age > Keep \/ late]_vars
  BY <1>1
<1> QED
  BY <1>2, DiskInvHolds, PTL DEF Spec, RecentIsKept

\* Of two disks or more the one being cleaned (TransferAgent.cpp:103-106) is never the
\* one a save uses whose copy of pathRoot_ (FileWritter.cpp:91) is up to date: such a
\* save finds its directory, and remove_all throws at no file of it.
THEOREM CleaningIsApart == Spec => SavesMeetNoCleaning
<1>1. ASSUME DiskInv, [Next]_vars, ~UNCHANGED vars, nStorage > 1
      PROVE  /\ save = "open" /\ ~disk[to.disk][to.dir].there => stale
             /\ at = "rmdir" /\ crashed' => late
  <2>1. save = "open" /\ ~disk[to.disk][to.dir].there => stale
    BY <1>1 DEF DiskInv, WriterInv, Saving
  <2>2. ASSUME at = "rmdir", crashed'
        PROVE  late
    <3>1. ~crashed /\ Next
      BY <1>1 DEF Next
    <3>2. RemoveDirectory
      <4>1. CASE Start \/ UpdateStorage
        BY <4>1, <2>2, <1>1 DEF Start, UpdateStorage
      <4>2. CASE CopyRoot
        BY <4>2, <2>2, <3>1 DEF CopyRoot, shared
      <4>3. CASE \/ Day \/ Noon \/ Probe \/ NoneFound \/ Keeps \/ CleanStarts \/ CleanEnds
                 \/ RemoveContents \/ MakeDirectory \/ WriteFile \/ SaveAgain
                 \/ (\E h \in Dirs : Visit(h)) \/ (\E h \in Dirs : SaveStarts(h))
        <5>1. UNCHANGED crashed
          BY <4>3 DEF Day, Noon, Probe, NoneFound, Keeps, CleanStarts, CleanEnds, RemoveContents,
                      MakeDirectory, WriteFile, SaveAgain, Visit, SaveStarts, shared
        <5> QED
          BY <5>1, <2>2, <3>1
      <4> QED
        BY <3>1, <4>1, <4>2, <4>3 DEF Next, AutoFree, SaveFirst
    <3>3. disk[Next1][dir].size # 0
      BY <3>1, <3>2, <2>2 DEF RemoveDirectory
    <3> QED
      BY <3>3, <2>2, <1>1 DEF DiskInv, RemoveInv
  <2> QED
    BY <2>1, <2>2
<1>2. DiskInv /\ [Next]_vars =>
        [nStorage > 1 => /\ save = "open" /\ ~disk[to.disk][to.dir].there => stale
                         /\ at = "rmdir" /\ crashed' => late]_vars
  BY <1>1
<1> QED
  BY <1>2, DiskInvHolds, PTL DEF Spec, SavesMeetNoCleaning
================================================================================
