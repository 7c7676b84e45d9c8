--------------------------- MODULE RestoreProofs ----------------------------
(***************************************************************************)
(* A cluster that can be started is the backup that was restored, and the  *)
(* cluster it replaces is not touched while it could be started; for any   *)
(* backups, clusters, workers, restores, ends of a command and crashes of  *)
(* the host.  What is excepted is in the properties: files that --force    *)
(* kept for their size and time, and a pg_control whose removal was not    *)
(* synced because the command ended there.                                 *)
(***************************************************************************)
EXTENDS Restore, SequenceTheorems, TLAPS

(***************************************************************************)
(* The inductive invariant.                                                *)
(***************************************************************************)
PCs == {"idle", "control", "removed", "clean", "files", "manifest", "sync", "rename", "rewrite", "move", "global"}
Busy == {"clean", "files", "manifest", "sync", "rename", "rewrite", "move"}
JobType == [file : Names, step : Steps]

TypeOK ==
    /\ pg \in [Names -> FileType \union {None}]
    /\ disk \in [Names -> FileType \union {None}]
    /\ p \in [pc : PCs, label : Labels \union {None}, delta : BOOLEAN, force : BOOLEAN, left : SUBSET Names,
              job : [Workers -> JobType \union {None}]]
    /\ p.pc # "idle" => p.label \in Labels
    /\ unsynced \in BOOLEAN /\ trusted \in SUBSET Files

\* What a host crash would bring back of the files is what they are.
Settled == \A f \in Files \union {Conf} : disk[f] = pg[f]

\* There is a pg_control, or one that a host crash would bring back, only before
\* anything is changed and after everything is done.
ControlInv ==
    /\ p.pc \in Busy \union {"removed"} => pg[Control] = None
    /\ ~unsynced =>
        /\ pg[Control] # None \/ disk[Control] # None =>
            p.pc \in {"idle", "control", "removed", "global"} /\ Settled
        /\ p.pc \in {"idle", "control", "global"} /\ pg[Control] = None => disk[Control] = None

\* Either of them is of a backup that is there, or of the cluster to be replaced.
RestoredInv ==
    /\ StartableIsRestored
    /\ \A l \in Labels : disk[Control] # None /\ disk[Control].data = <<l>> /\ ~unsynced => Restored(l, trusted)

Has(f) == Matches(f, Wanted(p.label, f), trusted)

\* While the workers run a file of the backup is waiting, in work or there.
FilesInv ==
    /\ p.pc # "files" => \A w \in Workers : p.job[w] = None
    /\ p.pc = "files" =>
        /\ p.left \subseteq RestoreJobs(p.label)
        /\ \A f \in Files \ DOMAIN Contents(p.label) : pg[f] = None
        /\ \A w \in Workers : p.job[w] # None =>
            /\ p.job[w].file \in RestoreJobs(p.label) \ p.left
            /\ p.job[w].step # "open" => pg[p.job[w].file] # None
        /\ \A f \in RestoreJobs(p.label) :
            f \in p.left \/ (\E w \in Workers : p.job[w] # None /\ p.job[w].file = f) \/ Has(f)
        /\ ControlTemp \notin RestoreJobs(p.label) \ p.left => pg[ControlTemp] = None

\* After that everything is there, pg_control under its temporary name.
DoneInv ==
    /\ p.pc \in {"manifest", "sync", "rename", "rewrite", "move"} => Restored(p.label, trusted)
    /\ p.pc \in {"manifest", "sync", "rename", "move"} =>
        pg[ControlTemp] = None \/ pg[ControlTemp].data = <<p.label>>
    /\ p.pc \in {"rename", "rewrite", "move"} => Settled
    /\ p.pc = "global" /\ pg[Control] # None =>
        Settled /\ Restored(p.label, trusted) /\ pg[Control].data = <<p.label>>

Inv == TypeOK /\ ControlInv /\ RestoredInv /\ FilesInv /\ DoneInv

-----------------------------------------------------------------------------
(* Names that restore handles itself are different and are not of the      *)
(* backup.                                                                 *)
LEMMA NamesApart ==
  ASSUME RestoreAssumption
  PROVE  /\ Control \in Names /\ ControlTemp \in Names /\ Manifest \in Names /\ Conf \in Names
         /\ Files \subseteq Names
         /\ Control \notin Files /\ ControlTemp \notin Files /\ Manifest \notin Files /\ Conf \notin Files
         /\ Control # ControlTemp /\ Control # Manifest /\ Control # Conf
         /\ ControlTemp # Manifest /\ ControlTemp # Conf /\ Manifest # Conf
  BY DEF RestoreAssumption, Names, Control, ControlTemp, Manifest, Conf

(* A file is never taken for the absence of one.                           *)
LEMMA FileIsFile ==
  ASSUME RestoreAssumption, NEW d \in Seq(Block \union Labels \union {None, Bad}), NEW t \in Nat
  PROVE  /\ File(d, t) \in FileType /\ File(d, t) # None
         /\ File(d, t).data = d /\ File(d, t).ts = t
<1>1. File(d, t) \in FileType
  BY DEF File, FileType
<1> QED
  BY <1>1 DEF RestoreAssumption, File

(* What the backup has for a job is a file.                                *)
LEMMA WantedType ==
  ASSUME RestoreAssumption, NEW l \in Labels, NEW f \in RestoreJobs(l)
  PROVE  Wanted(l, f) \in FileType /\ f \in Names
<1>1. CASE f = ControlTemp
  <2>1. <<l>> \in Seq(Block \union Labels \union {None, Bad})
    OBVIOUS
  <2>2. Wanted(l, f) = File(<<l>>, 1)
    BY <1>1 DEF Wanted
  <2> QED
    BY <1>1, <2>1, <2>2, FileIsFile, NamesApart
<1>2. CASE f # ControlTemp
  <2>1. f \in DOMAIN Contents(l) /\ Wanted(l, f) = Contents(l)[f]
    BY <1>2 DEF Wanted, RestoreJobs
  <2> QED
    BY <2>1, NamesApart DEF RestoreAssumption
<1> QED
  BY <1>1, <1>2

LEMMA ControlData ==
  ASSUME RestoreAssumption, NEW l \in Labels
  PROVE  Wanted(l, ControlTemp) \in FileType /\ Wanted(l, ControlTemp) # None /\ Wanted(l, ControlTemp).data = <<l>>
<1>1. <<l>> \in Seq(Block \union Labels \union {None, Bad})
  OBVIOUS
<1> QED
  BY <1>1, FileIsFile DEF Wanted

(* Data that was spoiled or cut is still data.                             *)
LEMMA SpoiledType ==
  ASSUME NEW S, Bad \in S, NEW d \in Seq(S)
  PROVE  Spoiled(d) \in Seq(S)
<1>1. DOMAIN d = 1 .. Len(d) /\ Len(d) \in Nat
  OBVIOUS
<1>2. Spoiled(d) \in [1 .. Len(d) -> S]
  BY <1>1 DEF Spoiled
<1> QED
  BY <1>1, <1>2, SeqDef

LEMMA CutType ==
  ASSUME RestoreAssumption, TypeOK, p.label \in Labels, NEW f \in RestoreJobs(p.label), pg[f] # None
  PROVE  Cut(f) \in FileType
<1> DEFINE size == Len(Wanted(p.label, f).data)
           S == Block \union Labels \union {None, Bad}
<1>1. Wanted(p.label, f) \in FileType /\ f \in Names
  BY WantedType
<1>2. pg[f] \in FileType
  BY <1>1 DEF TypeOK
<1>3. size \in Nat
  BY <1>1 DEF FileType
<1>4. pg[f].data \in Seq(S) /\ Len(pg[f].data) \in Nat
  BY <1>2 DEF FileType
<1> HIDE DEF size, S
<1>5. ASSUME Len(pg[f].data) > size
      PROVE  File(SubSeq(pg[f].data, 1, size), Now) \in FileType
  <2>1. SubSeq(pg[f].data, 1, size) \in Seq(S)
    <3>1. \A i \in 1 .. size : i \in 1 .. Len(pg[f].data)
      BY <1>3, <1>4, <1>5
    <3> QED
      BY <1>3, <1>4, <3>1, SubSeqProperties
  <2> QED
    BY <2>1, FileIsFile DEF Now, S
<1> QED
  BY <1>2, <1>5 DEF Cut, size

-----------------------------------------------------------------------------
(* Setting a file changes that file only, and creating or removing it      *)
(* leaves what is on disk.                                                 *)
LEMMA SetFileFacts ==
  ASSUME TypeOK, NEW f \in Names, NEW new \in FileType \union {None}, SetFile(f, new)
  PROVE  /\ pg' \in [Names -> FileType \union {None}]
         /\ disk' \in [Names -> FileType \union {None}]
         /\ pg'[f] = new
         /\ \A g \in Names \ {f} : pg'[g] = pg[g] /\ disk'[g] = disk[g]
         /\ disk[f] = None \/ new = None => disk'[f] = disk[f]
  BY DEF TypeOK, SetFile

(* Whether a backup is restored depends on its files and the recovery      *)
(* settings only.                                                          *)
LEMMA RestoredSame ==
  ASSUME NEW l \in Labels, \A f \in Files \union {Conf} : pg'[f] = pg[f], trusted' = trusted
  PROVE  Restored(l, trusted)' <=> Restored(l, trusted)
  BY DEF Restored, Contents, Matches

(* With no pg_control left, or left to come back, nothing can be started.  *)
LEMMA NothingToStart ==
  ASSUME pg'[Control] = None, unsynced' \/ disk'[Control] = None
  PROVE  ControlInv' /\ RestoredInv'
  BY DEF ControlInv, RestoredInv, StartableIsRestored, Startable

(* While the files are replaced there is no pg_control.                    *)
LEMMA ControlGone ==
  ASSUME TypeOK, ControlInv, p.pc \in Busy
  PROVE  pg[Control] = None /\ (unsynced \/ disk[Control] = None)
  BY DEF ControlInv, Busy, TypeOK

(* The workers have work only while files are copied.                      *)
LEMMA NoJobs ==
  ASSUME FilesInv, p.pc # "files", p'.pc # "files", p'.job = p.job
  PROVE  FilesInv'
  BY DEF FilesInv

LEMMA IdleType ==
  ASSUME TypeOK, p' = Idle, unsynced' \in BOOLEAN, trusted' = trusted,
         pg' \in [Names -> FileType \union {None}], disk' \in [Names -> FileType \union {None}]
  PROVE  TypeOK' /\ FilesInv' /\ DoneInv' /\ p'.pc = "idle"
  BY DEF TypeOK, Idle, FilesInv, DoneInv, PCs

(***************************************************************************)
(* One lemma per action.                                                   *)
(***************************************************************************)
LEMMA InitInv ==
  ASSUME RestoreAssumption, Init
  PROVE  Inv
<1>1. PICK c \in Cluster :
        pg = [f \in Names |-> IF f \in DOMAIN c THEN c[f]
                              ELSE IF f = Control /\ c # <<>> THEN File(<<None>>, 1) ELSE None]
  BY DEF Init
<1>2. DOMAIN c \subseteq Files /\ \A f \in DOMAIN c : c[f] \in FileType
  BY DEF RestoreAssumption
<1>3. File(<<None>>, 1) \in FileType /\ File(<<None>>, 1).data = <<None>>
  <2>1. <<None>> \in Seq(Block \union Labels \union {None, Bad})
    OBVIOUS
  <2> QED
    BY <2>1, FileIsFile
<1>4. disk = pg /\ p = Idle /\ unsynced = FALSE /\ trusted = {}
  BY DEF Init
<1>5. pg \in [Names -> FileType \union {None}]
  BY <1>1, <1>2, <1>3
<1>6. TypeOK
  BY <1>4, <1>5 DEF TypeOK, Idle, PCs
<1>7. pg[Control] = None \/ pg[Control].data = <<None>>
  BY <1>1, <1>2, <1>3, NamesApart
<1>8. \A l \in Labels : <<l>> # <<None>>
  BY DEF RestoreAssumption
<1>9. ControlInv /\ FilesInv /\ DoneInv
  BY <1>4 DEF ControlInv, FilesInv, DoneInv, Idle, Settled, Busy
<1>10. RestoredInv
  BY <1>4, <1>7, <1>8 DEF RestoredInv, StartableIsRestored, Startable, Labels
<1> QED
  BY <1>6, <1>9, <1>10 DEF Inv

LEMMA StartInv ==
  ASSUME RestoreAssumption, Inv,
         NEW l \in Labels, NEW delta \in BOOLEAN, NEW force \in BOOLEAN, RestoreStart(l, delta, force)
  PROVE  Inv'
<1>1. /\ p.pc = "idle" /\ UNCHANGED <<pg, disk, unsynced, trusted>>
      /\ p' = [Idle EXCEPT !.pc = "control", !.label = l, !.delta = delta /\ LooksValid,
                           !.force = force /\ LooksValid]
  BY DEF RestoreStart, Is
<1>2. (force /\ LooksValid) \in BOOLEAN /\ (delta /\ LooksValid) \in BOOLEAN
  BY DEF LooksValid
<1>3. p'.pc = "control" /\ TypeOK' /\ p'.job = [w \in Workers |-> None]
  BY <1>1, <1>2 DEF Inv, TypeOK, Idle, PCs
<1>4. ControlInv' /\ FilesInv' /\ DoneInv'
  BY <1>1, <1>3 DEF Inv, ControlInv, FilesInv, DoneInv, Settled, Busy
<1>5. RestoredInv'
  BY <1>1, RestoredSame DEF Inv, RestoredInv, StartableIsRestored, Startable, Labels
<1> QED
  BY <1>3, <1>4, <1>5 DEF Inv

LEMMA RemoveControlInv ==
  ASSUME RestoreAssumption, Inv, RemoveControl
  PROVE  Inv'
<1>1. p.pc = "control" /\ pg[Control] # None /\ SetFile(Control, None) /\ p' = [p EXCEPT !.pc = "removed"]
      /\ UNCHANGED <<unsynced, trusted>>
  BY DEF RemoveControl, Is, Goto
<1>2. /\ pg' \in [Names -> FileType \union {None}] /\ disk' \in [Names -> FileType \union {None}]
      /\ pg'[Control] = None /\ disk'[Control] = disk[Control]
      /\ \A g \in Names \ {Control} : pg'[g] = pg[g] /\ disk'[g] = disk[g]
  BY <1>1, NamesApart, SetFileFacts DEF Inv
<1>3. TypeOK' /\ p'.pc = "removed" /\ p'.job = p.job
  BY <1>1, <1>2 DEF Inv, TypeOK, PCs
<1>4. \A f \in Files \union {Conf} : pg'[f] = pg[f] /\ disk'[f] = disk[f]
  BY <1>2, NamesApart
<1>5. ~unsynced => Settled /\ Settled'
  BY <1>1, <1>4 DEF Inv, ControlInv, Settled
<1>6. ControlInv' /\ FilesInv' /\ DoneInv'
  BY <1>1, <1>2, <1>3, <1>5, NoJobs DEF Inv, ControlInv, DoneInv
<1>7. RestoredInv'
  BY <1>1, <1>2, <1>4, RestoredSame DEF Inv, RestoredInv, StartableIsRestored, Startable
<1> QED
  BY <1>3, <1>6, <1>7 DEF Inv

LEMMA NoControlInv ==
  ASSUME RestoreAssumption, Inv, NoControl
  PROVE  Inv'
<1>1. p.pc = "control" /\ pg[Control] = None /\ p' = [p EXCEPT !.pc = "clean"]
      /\ UNCHANGED <<pg, disk, unsynced, trusted>>
  BY DEF NoControl, Is, Goto
<1>2. TypeOK' /\ p'.pc = "clean" /\ p'.job = p.job
  BY <1>1 DEF Inv, TypeOK, PCs
<1>3. ControlInv' /\ RestoredInv'
  BY <1>1, NothingToStart DEF Inv, ControlInv, TypeOK
<1> QED
  BY <1>1, <1>2, <1>3, NoJobs DEF Inv, DoneInv

LEMMA SyncControlInv ==
  ASSUME RestoreAssumption, Inv, SyncControl
  PROVE  Inv'
<1>1. p.pc = "removed" /\ p' = [p EXCEPT !.pc = "clean"] /\ UNCHANGED <<pg, trusted>> /\ unsynced' = FALSE
      /\ disk' = [f \in Names |-> IF f \in Global THEN pg[f] ELSE disk[f]]
  BY DEF SyncControl, PathSync, Is, Goto
<1>2. TypeOK' /\ p'.pc = "clean" /\ p'.job = p.job
  BY <1>1 DEF Inv, TypeOK, PCs
<1>3. pg'[Control] = None /\ disk'[Control] = None
  BY <1>1, NamesApart DEF Inv, ControlInv, Global
<1>4. ControlInv' /\ RestoredInv'
  BY <1>3, NothingToStart
<1> QED
  BY <1>1, <1>2, <1>4, NoJobs DEF Inv, DoneInv

LEMMA CleanFileInv ==
  ASSUME RestoreAssumption, Inv, NEW f \in Names, CleanFile(f)
  PROVE  Inv'
<1>1. p.pc = "clean" /\ SetFile(f, None) /\ p' = p /\ pg[f] # None /\ UNCHANGED <<unsynced, trusted>>
  BY DEF CleanFile, Is, Invalid
<1>2. pg[Control] = None /\ (unsynced \/ disk[Control] = None)
  BY <1>1, ControlGone DEF Inv, Busy
<1>3. f # Control
  BY <1>1, <1>2
<1>4. /\ pg' \in [Names -> FileType \union {None}] /\ disk' \in [Names -> FileType \union {None}]
      /\ pg'[Control] = None /\ disk'[Control] = disk[Control]
  BY <1>1, <1>2, <1>3, NamesApart, SetFileFacts DEF Inv
<1>5. TypeOK'
  BY <1>1, <1>4 DEF Inv, TypeOK
<1>6. ControlInv' /\ RestoredInv'
  BY <1>1, <1>2, <1>4, NothingToStart
<1> QED
  BY <1>1, <1>5, <1>6, NoJobs DEF Inv, DoneInv

LEMMA ManifestSaveInv ==
  ASSUME RestoreAssumption, Inv, ManifestSave
  PROVE  Inv'
<1> DEFINE new == File(<<p.label>>, Now)
<1>1. /\ p.pc = "clean" /\ SetFile(Manifest, new) /\ \A f \in Names : ~Invalid(f)
      /\ p' = [p EXCEPT !.pc = "files", !.left = RestoreJobs(p.label)]
      /\ UNCHANGED unsynced /\ trusted' = {}
  BY DEF ManifestSave, Is
<1>2. p.label \in Labels
  BY <1>1 DEF Inv, TypeOK
<1>3. new \in FileType
  <2>1. <<p.label>> \in Seq(Block \union Labels \union {None, Bad})
    BY <1>2
  <2> QED
    BY <2>1, FileIsFile DEF Now
<1>4. pg[Control] = None /\ (unsynced \/ disk[Control] = None)
  BY <1>1, ControlGone DEF Inv, Busy
<1> HIDE DEF new
<1>5. /\ pg' \in [Names -> FileType \union {None}] /\ disk' \in [Names -> FileType \union {None}]
      /\ \A g \in Names \ {Manifest} : pg'[g] = pg[g] /\ disk'[g] = disk[g]
  BY <1>1, <1>3, NamesApart, SetFileFacts DEF Inv
<1>6. RestoreJobs(p.label) \subseteq Names
  BY <1>2, WantedType
<1>7. TypeOK' /\ p'.pc = "files" /\ p'.left = RestoreJobs(p.label) /\ p'.label = p.label /\ p'.job = p.job
  BY <1>1, <1>5, <1>6 DEF Inv, TypeOK, PCs
<1>8. ControlInv' /\ RestoredInv'
  BY <1>1, <1>4, <1>5, NothingToStart, NamesApart
<1>9. (\A f \in Files \ DOMAIN Contents(p.label) : pg'[f] = None) /\ pg'[ControlTemp] = None
  BY <1>1, <1>2, <1>5, NamesApart DEF Invalid, RestoreAssumption
<1>10. \A w \in Workers : p'.job[w] = None
  BY <1>1, <1>7 DEF Inv, FilesInv
<1> QED
  BY <1>7, <1>8, <1>9, <1>10 DEF Inv, FilesInv, DoneInv, RestoreJobs, Contents

(* What a worker does to the file of a job disturbs no other file.         *)
LEMMA WorkerSets ==
  ASSUME RestoreAssumption, Inv, p.pc = "files", NEW f \in RestoreJobs(p.label), NEW new \in FileType, SetFile(f, new),
         unsynced' = unsynced
  PROVE  /\ pg' \in [Names -> FileType \union {None}] /\ disk' \in [Names -> FileType \union {None}]
         /\ ControlInv' /\ RestoredInv'
         /\ \A g \in Files \ DOMAIN Contents(p.label) : pg'[g] = None
         /\ \A g \in Names : pg[g] # None => pg'[g] # None
         /\ \A g \in (RestoreJobs(p.label) \union {ControlTemp}) \ {f} : pg'[g] = pg[g]
         /\ pg'[f] = new /\ new # None
<1>1. p.label \in Labels
  BY DEF Inv, TypeOK
<1>2. f \in Names /\ RestoreJobs(p.label) \subseteq Names
  BY <1>1, WantedType
<1>3. new # None
  BY DEF RestoreAssumption
<1>4. /\ pg' \in [Names -> FileType \union {None}] /\ disk' \in [Names -> FileType \union {None}]
      /\ pg'[f] = new
      /\ \A g \in Names \ {f} : pg'[g] = pg[g] /\ disk'[g] = disk[g]
  BY <1>2, SetFileFacts DEF Inv
<1>5. f # Control /\ f \notin Files \ DOMAIN Contents(p.label)
  BY <1>1, NamesApart DEF RestoreJobs, RestoreAssumption
<1>6. pg[Control] = None /\ (unsynced \/ disk[Control] = None)
  BY ControlGone DEF Inv, Busy
<1>7. ControlInv' /\ RestoredInv'
  BY <1>4, <1>5, <1>6, NothingToStart, NamesApart
<1>8. \A g \in Files \ DOMAIN Contents(p.label) : pg[g] = None
  BY DEF Inv, FilesInv
<1> QED
  BY <1>2, <1>3, <1>4, <1>5, <1>7, <1>8, NamesApart

LEMMA RestoreCheckInv ==
  ASSUME RestoreAssumption, Inv, NEW w \in Workers, NEW f \in Names, RestoreCheck(w, f)
  PROVE  Inv'
<1> DEFINE job == [file |-> f, step |-> "open"]
           kept == pg[f] # None /\ Preserve(f, Cut(f))
<1>1. /\ p.pc = "files" /\ p.job[w] = None /\ f \in p.left
      /\ p' = [p EXCEPT !.left = @ \ {f}, !.job[w] = IF kept THEN None ELSE job]
      /\ UNCHANGED unsynced /\ trusted' = IF kept /\ p.force THEN trusted \union {f} ELSE trusted
  BY DEF RestoreCheck, Is
<1>2. p.label \in Labels /\ p.left \subseteq RestoreJobs(p.label) /\ f \in RestoreJobs(p.label)
  BY <1>1 DEF Inv, TypeOK, FilesInv
<1>0. trusted \subseteq trusted' /\ trusted' \in SUBSET Files /\ (kept => f \in Files)
  <2>1. kept => f # ControlTemp
    BY <1>1 DEF Inv, FilesInv
  <2>2. f \in Files \union {ControlTemp}
    BY <1>2 DEF RestoreJobs, RestoreAssumption
  <2> QED
    BY <1>1, <2>1, <2>2 DEF Inv, TypeOK
<1>3. job \in JobType /\ job # None
  <2>1. job \in JobType
    BY DEF JobType, Steps
  <2> QED
    BY <2>1 DEF RestoreAssumption, JobType
<1>4. job.file = f /\ job.step = "open"
  OBVIOUS
<1> HIDE DEF job, kept
<1>5. /\ p'.pc = "files" /\ p'.label = p.label /\ p'.delta = p.delta /\ p'.force = p.force
      /\ p'.left = p.left \ {f}
      /\ p'.job = [p.job EXCEPT ![w] = IF kept THEN None ELSE job]
  BY <1>1 DEF Inv, TypeOK
<1>6. p'.job[w] = (IF kept THEN None ELSE job) /\ \A v \in Workers \ {w} : p'.job[v] = p.job[v]
  BY <1>5 DEF Inv, TypeOK
<1>7. p' \in [pc : PCs, label : Labels \union {None}, delta : BOOLEAN, force : BOOLEAN, left : SUBSET Names,
              job : [Workers -> JobType \union {None}]]
  BY <1>1, <1>3 DEF Inv, TypeOK
<1>8. /\ pg' \in [Names -> FileType \union {None}] /\ disk' \in [Names -> FileType \union {None}]
      /\ ControlInv' /\ RestoredInv'
      /\ \A g \in Files \ DOMAIN Contents(p.label) : pg'[g] = None
      /\ \A g \in Names : pg[g] # None => pg'[g] # None
      /\ \A g \in (RestoreJobs(p.label) \union {ControlTemp}) \ {f} : pg'[g] = pg[g]
      /\ kept => Matches(f, Wanted(p.label, f), trusted)'
      /\ f = ControlTemp => ~kept
  <2>1. CASE pg[f] = None
    <3>1. UNCHANGED <<pg, disk>>
      BY <2>1 DEF RestoreCheck
    <3>2. pg[Control] = None /\ (unsynced \/ disk[Control] = None)
      BY <1>1, ControlGone DEF Inv, Busy
    <3>3. ControlInv' /\ RestoredInv'
      BY <1>1, <3>1, <3>2, NothingToStart
    <3> QED
      BY <1>1, <2>1, <3>1, <3>3 DEF Inv, TypeOK, FilesInv, kept
  <2>2. CASE pg[f] # None
    <3> DEFINE cut == Cut(f)
               new == IF Preserve(f, cut) THEN File(cut.data, Wanted(p.label, f).ts) ELSE cut
    <3>1. SetFile(f, new)
      BY <2>2 DEF RestoreCheck
    <3>2. cut \in FileType
      BY <1>2, <2>2, CutType DEF Inv
    <3>3. Wanted(p.label, f) \in FileType
      BY <1>2, WantedType
    <3>4. ASSUME Preserve(f, cut)
          PROVE  /\ new \in FileType /\ new.ts = Wanted(p.label, f).ts
                 /\ \/ new.data = Wanted(p.label, f).data
                    \/ f \in trusted' /\ Len(new.data) = Len(Wanted(p.label, f).data)
      <4>0. kept
        BY <2>2, <3>4 DEF kept
      <4>1. \/ cut.data = Wanted(p.label, f).data
            \/ f \in trusted' /\ Len(cut.data) = Len(Wanted(p.label, f).data)
        BY <1>1, <3>4, <4>0 DEF Preserve, Inv, TypeOK
      <4>2. cut.data \in Seq(Block \union Labels \union {None, Bad}) /\ Wanted(p.label, f).ts \in Nat
        BY <3>2, <3>3 DEF FileType
      <4> HIDE DEF cut
      <4>3. new = File(cut.data, Wanted(p.label, f).ts)
        BY <3>4
      <4> HIDE DEF new
      <4> QED
        BY <4>1, <4>2, <4>3, FileIsFile
    <3>5. new \in FileType
      BY <3>2, <3>4
    <3>6. kept <=> Preserve(f, cut)
      BY <2>2 DEF kept
    <3> HIDE DEF cut, new
    <3> QED
      BY <1>0, <1>1, <1>2, <3>1, <3>4, <3>5, <3>6, WorkerSets, NamesApart DEF Matches
  <2> QED
    BY <2>1, <2>2
<1>9. TypeOK'
  BY <1>0, <1>1, <1>2, <1>5, <1>7, <1>8 DEF TypeOK, Inv
<1>10. DoneInv'
  BY <1>5 DEF DoneInv
<1>11. ASSUME NEW v \in Workers, p'.job[v] # None
       PROVE  /\ p'.job[v].file \in RestoreJobs(p.label) \ p'.left
              /\ p'.job[v].step # "open" => pg'[p'.job[v].file] # None
  <2>1. CASE v = w
    BY <1>2, <1>4, <1>5, <1>6, <1>11, <2>1
  <2>2. CASE v # w
    <3>1. p'.job[v] = p.job[v]
      BY <1>6, <2>2
    <3>2. p.job[v].file \in RestoreJobs(p.label) \ p.left /\ (p.job[v].step # "open" => pg[p.job[v].file] # None)
      BY <1>1, <1>11, <3>1 DEF Inv, FilesInv
    <3>3. p.job[v].file \in Names
      BY <1>2, <3>2, WantedType
    <3> QED
      BY <1>5, <1>8, <3>1, <3>2, <3>3
  <2> QED
    BY <2>1, <2>2
<1>12. ASSUME NEW g \in RestoreJobs(p.label)
       PROVE  \/ g \in p'.left
              \/ \E v \in Workers : p'.job[v] # None /\ p'.job[v].file = g
              \/ Matches(g, Wanted(p.label, g), trusted)'
  <2>1. CASE g = f
    BY <1>3, <1>4, <1>6, <1>8, <2>1
  <2>2. CASE g # f
    <3>1. \/ g \in p.left
          \/ \E v \in Workers : p.job[v] # None /\ p.job[v].file = g
          \/ Has(g)
      BY <1>1 DEF Inv, FilesInv
    <3>2. CASE g \in p.left
      BY <1>5, <2>2, <3>2
    <3>3. CASE \E v \in Workers : p.job[v] # None /\ p.job[v].file = g
      BY <1>1, <1>6, <3>3
    <3>4. CASE Has(g)
      <4>1. pg'[g] = pg[g]
        BY <1>8, <2>2
      <4> QED
        BY <1>0, <1>5, <3>4, <4>1 DEF Has, Matches, Wanted, Contents
    <3> QED
      BY <3>1, <3>2, <3>3, <3>4
  <2> QED
    BY <2>1, <2>2
<1>13. ASSUME ControlTemp \notin RestoreJobs(p.label) \ p'.left
       PROVE  pg'[ControlTemp] = None
  <2>1. f # ControlTemp /\ pg[ControlTemp] = None
    BY <1>1, <1>2, <1>5, <1>13 DEF Inv, FilesInv
  <2> QED
    BY <1>8, <2>1
<1>14. FilesInv'
  BY <1>2, <1>5, <1>8, <1>11, <1>12, <1>13 DEF FilesInv, Has, RestoreJobs, Contents, Wanted
<1> QED
  BY <1>8, <1>9, <1>10, <1>14 DEF Inv

(* The next step of a job, which writes its file.                          *)
LEMMA JobGoesOn ==
  ASSUME RestoreAssumption, Inv, NEW w \in Workers, p.pc = "files", p.job[w] # None,
         NEW new \in FileType, SetFile(p.job[w].file, new),
         NEW step \in {"copy", "verify"}, p' = [p EXCEPT !.job[w].step = step], UNCHANGED <<unsynced, trusted>>
  PROVE  Inv'
<1> DEFINE f == p.job[w].file
           job == [p.job[w] EXCEPT !.step = step]
<1>1. p.label \in Labels /\ p.left \subseteq RestoreJobs(p.label) /\ f \in RestoreJobs(p.label) \ p.left
  BY DEF Inv, TypeOK, FilesInv
<1>2. p.job[w] \in JobType
  BY DEF Inv, TypeOK
<1>3. job \in JobType /\ job.file = f /\ job.step = step
  BY <1>2 DEF JobType, Steps
<1>4. job # None
  BY <1>3 DEF RestoreAssumption, JobType
<1> HIDE DEF job
<1>5. /\ p'.pc = "files" /\ p'.label = p.label /\ p'.left = p.left
      /\ p'.job = [p.job EXCEPT ![w] = job]
  BY DEF Inv, TypeOK, job
<1>6. p'.job[w] = job /\ \A v \in Workers \ {w} : p'.job[v] = p.job[v]
  BY <1>5 DEF Inv, TypeOK
<1>7. p' \in [pc : PCs, label : Labels \union {None}, delta : BOOLEAN, force : BOOLEAN, left : SUBSET Names,
              job : [Workers -> JobType \union {None}]]
  <2>1. p' = [p EXCEPT !.job = [p.job EXCEPT ![w] = job]]
    BY DEF job
  <2>2. [p.job EXCEPT ![w] = job] \in [Workers -> JobType \union {None}]
    BY <1>3 DEF Inv, TypeOK
  <2> QED
    BY <2>1, <2>2 DEF Inv, TypeOK
<1>8. /\ pg' \in [Names -> FileType \union {None}] /\ disk' \in [Names -> FileType \union {None}]
      /\ ControlInv' /\ RestoredInv'
      /\ \A g \in Files \ DOMAIN Contents(p.label) : pg'[g] = None
      /\ \A g \in Names : pg[g] # None => pg'[g] # None
      /\ \A g \in (RestoreJobs(p.label) \union {ControlTemp}) \ {f} : pg'[g] = pg[g]
      /\ pg'[f] # None
  BY <1>1, WorkerSets
<1> HIDE DEF f
<1>9. TypeOK'
  BY <1>1, <1>5, <1>7, <1>8 DEF TypeOK, Inv
<1>10. DoneInv'
  BY <1>5 DEF DoneInv
<1>11. ASSUME NEW v \in Workers, p'.job[v] # None
       PROVE  /\ p'.job[v].file \in RestoreJobs(p.label) \ p'.left
              /\ p'.job[v].step # "open" => pg'[p'.job[v].file] # None
  <2>1. CASE v = w
    BY <1>1, <1>3, <1>5, <1>6, <1>8, <2>1
  <2>2. CASE v # w
    <3>1. p'.job[v] = p.job[v]
      BY <1>6, <2>2
    <3>2. p.job[v].file \in RestoreJobs(p.label) \ p.left /\ (p.job[v].step # "open" => pg[p.job[v].file] # None)
      BY <1>11, <3>1 DEF Inv, FilesInv
    <3>3. p.job[v].file \in Names
      BY <1>1, <3>2, WantedType
    <3> QED
      BY <1>5, <1>8, <3>1, <3>2, <3>3
  <2> QED
    BY <2>1, <2>2
<1>12. ASSUME NEW g \in RestoreJobs(p.label)
       PROVE  \/ g \in p'.left
              \/ \E v \in Workers : p'.job[v] # None /\ p'.job[v].file = g
              \/ Matches(g, Wanted(p.label, g), trusted)'
  <2>1. CASE g = f
    BY <1>3, <1>4, <1>6, <2>1
  <2>2. CASE g # f
    <3>1. \/ g \in p.left
          \/ \E v \in Workers : p.job[v] # None /\ p.job[v].file = g
          \/ Has(g)
      BY DEF Inv, FilesInv
    <3>2. CASE \E v \in Workers : p.job[v] # None /\ p.job[v].file = g
      BY <1>6, <2>2, <3>2 DEF f
    <3>3. CASE Has(g)
      <4>1. pg'[g] = pg[g]
        BY <1>8, <2>2
      <4> QED
        BY <3>3, <4>1 DEF Has, Matches
    <3> QED
      BY <1>5, <3>1, <3>2, <3>3
  <2> QED
    BY <2>1, <2>2
<1>13. ASSUME ControlTemp \notin RestoreJobs(p.label) \ p'.left
       PROVE  pg'[ControlTemp] = None
  <2>1. f # ControlTemp /\ pg[ControlTemp] = None
    BY <1>1, <1>5, <1>13 DEF Inv, FilesInv
  <2> QED
    BY <1>8, <2>1
<1>14. FilesInv'
  BY <1>1, <1>5, <1>8, <1>11, <1>12, <1>13 DEF FilesInv, Has, RestoreJobs, Contents, Wanted
<1> QED
  BY <1>8, <1>9, <1>10, <1>14 DEF Inv

LEMMA RestoreOpenInv ==
  ASSUME RestoreAssumption, Inv, NEW w \in Workers, RestoreOpen(w)
  PROVE  Inv'
<1>1. p.pc = "files" /\ p.job[w] # None /\ SetFile(p.job[w].file, File(<<>>, Now))
      /\ p' = [p EXCEPT !.job[w].step = "copy"] /\ UNCHANGED <<unsynced, trusted>>
  BY DEF RestoreOpen, Working, Is
<1>2. <<>> \in Seq(Block \union Labels \union {None, Bad})
  OBVIOUS
<1>3. File(<<>>, Now) \in FileType
  BY <1>2, FileIsFile DEF Now
<1> QED
  BY <1>1, <1>3, JobGoesOn

LEMMA RestoreCloseInv ==
  ASSUME RestoreAssumption, Inv, NEW w \in Workers, RestoreClose(w)
  PROVE  Inv'
<1> DEFINE want == Wanted(p.label, p.job[w].file)
           S == Block \union Labels \union {None, Bad}
<1>1. /\ p.pc = "files" /\ p.job[w] # None
      /\ p' = [p EXCEPT !.job[w].step = "verify"] /\ UNCHANGED <<unsynced, trusted>>
  BY DEF RestoreClose, Working, Is
<1>2. PICK data \in {want.data, Spoiled(want.data)} : SetFile(p.job[w].file, File(data, want.ts))
  BY DEF RestoreClose
<1>3. p.label \in Labels /\ p.job[w].file \in RestoreJobs(p.label)
  BY <1>1 DEF Inv, TypeOK, FilesInv
<1>4. want \in FileType
  BY <1>3, WantedType
<1>5. want.data \in Seq(S) /\ want.ts \in Nat
  BY <1>4 DEF FileType
<1> HIDE DEF want
<1>6. Bad \in S
  OBVIOUS
<1>7. data \in Seq(S)
  <2> HIDE DEF S
  <2> QED
    BY <1>5, <1>6, SpoiledType
<1>8. File(data, want.ts) \in FileType
  BY <1>5, <1>7, FileIsFile
<1> QED
  BY <1>1, <1>2, <1>8, JobGoesOn

LEMMA RestoreVerifyInv ==
  ASSUME RestoreAssumption, Inv, NEW w \in Workers, RestoreVerify(w)
  PROVE  Inv'
<1> DEFINE f == p.job[w].file
<1>1. /\ p.pc = "files" /\ p.job[w] # None /\ p.job[w].step = "verify"
      /\ UNCHANGED <<pg, disk, unsynced, trusted>>
      /\ p' = IF Verified(f) THEN [p EXCEPT !.job[w] = None] ELSE Idle
  BY DEF RestoreVerify, Working, Is
<1>2. pg[Control] = None /\ (unsynced \/ disk[Control] = None)
  BY <1>1, ControlGone DEF Inv, Busy
<1>3. ControlInv' /\ RestoredInv'
  BY <1>1, <1>2, NothingToStart
<1>4. CASE ~Verified(f)
  BY <1>1, <1>3, <1>4, IdleType DEF Inv, TypeOK
<1>5. CASE Verified(f)
  <2>1. p' = [p EXCEPT !.job[w] = None]
    BY <1>1, <1>5
  <2>2. /\ p'.pc = "files" /\ p'.label = p.label /\ p'.left = p.left
        /\ p'.job = [p.job EXCEPT ![w] = None]
    BY <1>1, <2>1 DEF Inv, TypeOK
  <2>3. TypeOK'
    BY <1>1, <2>1 DEF Inv, TypeOK
  <2>4. p'.job[w] = None /\ \A v \in Workers \ {w} : p'.job[v] = p.job[v]
    BY <2>2 DEF Inv, TypeOK
  <2>5. Has(f)
    BY <1>1, <1>5 DEF Inv, FilesInv, Has, Verified, Matches
  <2> HIDE DEF f
  <2>6. ASSUME NEW g \in RestoreJobs(p.label)
        PROVE  \/ g \in p'.left
               \/ \E v \in Workers : p'.job[v] # None /\ p'.job[v].file = g
               \/ Has(g)
    <3>1. \/ g \in p.left
          \/ \E v \in Workers : p.job[v] # None /\ p.job[v].file = g
          \/ Has(g)
      BY <1>1 DEF Inv, FilesInv
    <3>2. CASE \E v \in Workers : p.job[v] # None /\ p.job[v].file = g
      BY <2>4, <2>5, <3>2 DEF f
    <3> QED
      BY <2>2, <3>1, <3>2
  <2>7. FilesInv'
    <3>1. \A v \in Workers : p'.job[v] # None => p'.job[v] = p.job[v]
      BY <2>4
    <3> QED
      BY <1>1, <2>2, <2>6, <3>1 DEF Inv, FilesInv, Has, Matches, RestoreJobs, Contents, Wanted
  <2> QED
    BY <1>3, <2>2, <2>3, <2>7 DEF Inv, DoneInv
<1> QED
  BY <1>4, <1>5

LEMMA RecoveryWriteInv ==
  ASSUME RestoreAssumption, Inv, RecoveryWrite
  PROVE  Inv'
<1> DEFINE new == File(<<p.label>>, Now)
<1>1. /\ p.pc = "files" /\ p.left = {} /\ (\A w \in Workers : p.job[w] = None)
      /\ SetFile(Conf, new) /\ p' = [p EXCEPT !.pc = "manifest"] /\ UNCHANGED <<unsynced, trusted>>
  BY DEF RecoveryWrite, Is, Goto
<1>2. p.label \in Labels
  BY <1>1 DEF Inv, TypeOK
<1>3. new \in FileType /\ new # None /\ new.data = <<p.label>>
  <2>1. <<p.label>> \in Seq(Block \union Labels \union {None, Bad})
    BY <1>2
  <2> QED
    BY <2>1, FileIsFile DEF Now
<1>4. pg[Control] = None /\ (unsynced \/ disk[Control] = None)
  BY <1>1, ControlGone DEF Inv, Busy
<1> HIDE DEF new
<1>5. /\ pg' \in [Names -> FileType \union {None}] /\ disk' \in [Names -> FileType \union {None}]
      /\ pg'[Conf] = new
      /\ \A g \in Names \ {Conf} : pg'[g] = pg[g] /\ disk'[g] = disk[g]
  BY <1>1, <1>3, NamesApart, SetFileFacts DEF Inv
<1>6. TypeOK' /\ p'.pc = "manifest" /\ p'.label = p.label /\ p'.job = p.job
  BY <1>1, <1>5 DEF Inv, TypeOK, PCs
<1>7. ControlInv' /\ RestoredInv'
  BY <1>1, <1>4, <1>5, NothingToStart, NamesApart
<1>8. \A f \in RestoreJobs(p.label) : Has(f)
  BY <1>1 DEF Inv, FilesInv
<1>9. \A f \in Files \ DOMAIN Contents(p.label) : pg[f] = None
  BY <1>1 DEF Inv, FilesInv
<1>10. \A f \in DOMAIN Contents(p.label) : Matches(f, Contents(p.label)[f], trusted)
  BY <1>2, <1>8, NamesApart DEF Has, RestoreJobs, Wanted, RestoreAssumption
<1>11. Restored(p.label, trusted)'
  BY <1>1, <1>3, <1>5, <1>6, <1>9, <1>10, NamesApart DEF Restored, Contents, Matches
<1>12. pg'[ControlTemp] = None \/ pg'[ControlTemp].data = <<p'.label>>
  <2>1. pg'[ControlTemp] = pg[ControlTemp]
    BY <1>5, NamesApart
  <2>2. CASE ControlTemp \in RestoreJobs(p.label)
    <3>1. Wanted(p.label, ControlTemp).data = <<p.label>>
      BY <1>2, ControlData
    <3>2. ControlTemp \notin trusted
      BY NamesApart DEF Inv, TypeOK
    <3> QED
      BY <1>6, <1>8, <2>1, <2>2, <3>1, <3>2 DEF Has, Matches
  <2>3. CASE ControlTemp \notin RestoreJobs(p.label)
    BY <1>1, <2>1, <2>3 DEF Inv, FilesInv
  <2> QED
    BY <2>2, <2>3
<1>13. FilesInv' /\ DoneInv'
  BY <1>1, <1>6, <1>11, <1>12 DEF FilesInv, DoneInv
<1> QED
  BY <1>6, <1>7, <1>13 DEF Inv

LEMMA ManifestRemoveInv ==
  ASSUME RestoreAssumption, Inv, ManifestRemove
  PROVE  Inv'
<1>1. p.pc = "manifest" /\ SetFile(Manifest, None) /\ p' = [p EXCEPT !.pc = "sync"]
      /\ UNCHANGED <<unsynced, trusted>>
  BY DEF ManifestRemove, Is, Goto
<1>2. pg[Control] = None /\ (unsynced \/ disk[Control] = None)
  BY <1>1, ControlGone DEF Inv, Busy
<1>3. /\ pg' \in [Names -> FileType \union {None}] /\ disk' \in [Names -> FileType \union {None}]
      /\ \A g \in Names \ {Manifest} : pg'[g] = pg[g] /\ disk'[g] = disk[g]
  BY <1>1, NamesApart, SetFileFacts DEF Inv
<1>4. TypeOK' /\ p'.pc = "sync" /\ p'.label = p.label /\ p'.job = p.job /\ p.label \in Labels
  BY <1>1, <1>3 DEF Inv, TypeOK, PCs
<1>5. ControlInv' /\ RestoredInv'
  BY <1>1, <1>2, <1>3, NothingToStart, NamesApart
<1>6. \A f \in Files \union {Conf} : pg'[f] = pg[f]
  BY <1>3, NamesApart
<1>7. Restored(p.label, trusted)'
  BY <1>1, <1>4, <1>6, RestoredSame DEF Inv, DoneInv, Restored
<1>8. pg'[ControlTemp] = pg[ControlTemp]
  BY <1>3, NamesApart
<1> QED
  BY <1>1, <1>4, <1>5, <1>7, <1>8, NoJobs DEF Inv, DoneInv

LEMMA SyncPathsInv ==
  ASSUME RestoreAssumption, Inv, SyncPaths
  PROVE  Inv'
<1>1. p.pc = "sync" /\ p' = [p EXCEPT !.pc = "rename"] /\ UNCHANGED <<pg, unsynced, trusted>>
      /\ disk' = [f \in Names |-> IF f \in Names \ Global THEN pg[f] ELSE disk[f]]
  BY DEF SyncPaths, PathSync, Is, Goto
<1>2. pg[Control] = None /\ (unsynced \/ disk[Control] = None)
  BY <1>1, ControlGone DEF Inv, Busy
<1>3. TypeOK' /\ p'.pc = "rename" /\ p'.label = p.label /\ p'.job = p.job /\ p.label \in Labels
  BY <1>1 DEF Inv, TypeOK, PCs
<1>4. ControlInv' /\ RestoredInv'
  BY <1>1, <1>2, NothingToStart, NamesApart DEF Global
<1>5. Settled'
  BY <1>1, NamesApart DEF Settled, Global
<1>6. Restored(p.label, trusted)'
  BY <1>1, <1>3, RestoredSame DEF Inv, DoneInv, Restored
<1> QED
  BY <1>1, <1>3, <1>4, <1>5, <1>6, NoJobs DEF Inv, DoneInv

(* pg_control.tmp is written again: no other file changes.                 *)
LEMMA RewriteInv ==
  ASSUME RestoreAssumption, Inv, RewriteOpen \/ RewriteClose
  PROVE  Inv'
<1>1. /\ p.pc \in {"rename", "rewrite"} /\ UNCHANGED <<unsynced, trusted>>
      /\ \/ SetFile(ControlTemp, File(<<>>, Now)) /\ p' = [p EXCEPT !.pc = "rewrite"]
         \/ SetFile(ControlTemp, Wanted(p.label, ControlTemp)) /\ p' = [p EXCEPT !.pc = "move"]
  BY DEF RewriteOpen, RewriteClose, Is, Goto
<1>2. p.label \in Labels
  BY <1>1 DEF Inv, TypeOK
<1>3. <<>> \in Seq(Block \union Labels \union {None, Bad})
  OBVIOUS
<1>4. File(<<>>, Now) \in FileType
  BY <1>3, FileIsFile DEF Now
<1>5. /\ pg' \in [Names -> FileType \union {None}] /\ disk' \in [Names -> FileType \union {None}]
      /\ \A g \in Names \ {ControlTemp} : pg'[g] = pg[g] /\ disk'[g] = disk[g]
      /\ p'.pc = "move" => pg'[ControlTemp].data = <<p.label>>
  <2>1. p'.pc = "move" => SetFile(ControlTemp, Wanted(p.label, ControlTemp))
    BY <1>1 DEF Inv, TypeOK
  <2> QED
    BY <1>1, <1>2, <1>4, <2>1, ControlData, SetFileFacts, NamesApart DEF Inv
<1>6. TypeOK' /\ p'.pc \in {"rewrite", "move"} /\ p'.label = p.label /\ p'.job = p.job
  BY <1>1, <1>5 DEF Inv, TypeOK, PCs
<1>7. pg[Control] = None /\ (unsynced \/ disk[Control] = None)
  BY <1>1, ControlGone DEF Inv, Busy
<1>8. ControlInv' /\ RestoredInv'
  BY <1>1, <1>5, <1>7, NothingToStart, NamesApart
<1>9. \A f \in Files \union {Conf} : pg'[f] = pg[f] /\ disk'[f] = disk[f]
  BY <1>5, NamesApart
<1>10. Restored(p.label, trusted)' /\ Settled'
  BY <1>1, <1>2, <1>6, <1>9, RestoredSame DEF Inv, DoneInv, Settled, Restored
<1> QED
  BY <1>1, <1>5, <1>6, <1>8, <1>10, NoJobs DEF Inv, DoneInv

(* Here a cluster becomes startable: everything else is there, and a crash *)
(* of the host cannot take it away again.                                  *)
LEMMA RenameControlInv ==
  ASSUME RestoreAssumption, Inv, RenameControl
  PROVE  Inv'
<1>1. /\ p.pc \in {"rename", "move"} /\ p' = [p EXCEPT !.pc = "global"] /\ UNCHANGED <<disk, unsynced, trusted>>
      /\ pg' = IF pg[ControlTemp] = None THEN pg
               ELSE [pg EXCEPT ![Control] = pg[ControlTemp], ![ControlTemp] = None]
  BY DEF RenameControl, Is, Goto
<1>2. TypeOK' /\ p'.pc = "global" /\ p'.label = p.label /\ p'.job = p.job /\ p.label \in Labels
  BY <1>1, NamesApart DEF Inv, TypeOK, PCs
<1>3. pg[Control] = None /\ (unsynced \/ disk[Control] = None)
  BY <1>1, ControlGone DEF Inv, Busy
<1>4. \A f \in Files \union {Conf} : pg'[f] = pg[f]
  BY <1>1, NamesApart DEF Inv, TypeOK
<1>5. Settled' /\ Restored(p.label, trusted)'
  BY <1>1, <1>2, <1>4, RestoredSame DEF Inv, DoneInv, Settled
<1>6. CASE pg[ControlTemp] = None
  <2>1. pg'[Control] = None
    BY <1>1, <1>3, <1>6
  <2> QED
    BY <1>1, <1>2, <1>3, <2>1, NothingToStart, NoJobs DEF Inv, DoneInv
<1>7. CASE pg[ControlTemp] # None
  <2>1. pg'[Control] = pg[ControlTemp] /\ pg'[Control] # None /\ pg'[Control].data = <<p.label>>
    BY <1>1, <1>7, NamesApart DEF Inv, TypeOK, DoneInv
  <2>2. ASSUME NEW l \in Labels, pg'[Control].data = <<l>>
        PROVE  l = p.label
    <3>1. <<l>>[1] = <<p.label>>[1]
      BY <2>1, <2>2
    <3> QED
      BY <3>1
  <2>3. RestoredInv'
    BY <1>1, <1>3, <1>5, <2>1, <2>2 DEF RestoredInv, StartableIsRestored, Startable, Labels
  <2>4. DoneInv' /\ FilesInv'
    BY <1>1, <1>2, <1>5, <2>1, NoJobs DEF Inv, DoneInv, Restored
  <2>5. ControlInv'
    BY <1>1, <1>2, <1>5, <2>1 DEF ControlInv, Busy
  <2> QED
    BY <1>2, <2>3, <2>4, <2>5 DEF Inv
<1> QED
  BY <1>6, <1>7

(* The end: what is there is of this restore, whatever was to come back.   *)
LEMMA SyncGlobalInv ==
  ASSUME RestoreAssumption, Inv, SyncGlobal
  PROVE  Inv'
<1>1. p.pc = "global" /\ p' = Idle /\ UNCHANGED <<pg, trusted>> /\ unsynced' = FALSE
      /\ disk' = [f \in Names |-> IF f \in Global THEN pg[f] ELSE disk[f]]
  BY DEF SyncGlobal, PathSync, Is
<1>2. disk' \in [Names -> FileType \union {None}] /\ pg' \in [Names -> FileType \union {None}]
  BY <1>1 DEF Inv, TypeOK
<1>3. TypeOK' /\ FilesInv' /\ DoneInv' /\ p'.pc = "idle"
  BY <1>1, <1>2, IdleType DEF Inv
<1>4. disk'[Control] = pg[Control] /\ \A f \in Files \union {Conf} : disk'[f] = disk[f]
  BY <1>1, NamesApart DEF Global
<1>5. CASE pg[Control] = None
  BY <1>1, <1>3, <1>4, <1>5, NothingToStart DEF Inv
<1>6. CASE pg[Control] # None
  <2>1. Settled /\ Restored(p.label, trusted) /\ pg[Control].data = <<p.label>> /\ p.label \in Labels
    BY <1>1, <1>6 DEF Inv, DoneInv, TypeOK
  <2>2. ControlInv'
    BY <1>1, <1>3, <1>4, <2>1, <1>6 DEF ControlInv, Settled, Busy
  <2>3. ASSUME NEW l \in Labels, pg[Control].data = <<l>>
        PROVE  Restored(l, trusted)'
    <3>1. <<l>>[1] = <<p.label>>[1]
      BY <2>1, <2>3
    <3>2. l = p.label
      BY <3>1
    <3> QED
      BY <1>1, <2>1, <3>2, RestoredSame
  <2>4. RestoredInv'
    BY <1>1, <1>4, <2>3 DEF RestoredInv, StartableIsRestored, Startable, Labels
  <2> QED
    BY <1>3, <2>2, <2>4 DEF Inv
<1> QED
  BY <1>5, <1>6

(* A command may end anywhere; before the sync pg_control may come back.   *)
LEMMA AbortInv ==
  ASSUME RestoreAssumption, Inv, Abort
  PROVE  Inv'
<1>1. p' = Idle /\ UNCHANGED <<pg, disk, trusted>> /\ unsynced' = (unsynced \/ p.pc = "removed")
  BY DEF Abort, Is
<1>2. TypeOK' /\ FilesInv' /\ DoneInv' /\ p'.pc = "idle"
  BY <1>1, IdleType DEF Inv, TypeOK
<1>3. ~unsynced' => ~unsynced /\ p.pc # "removed"
  BY <1>1 DEF Inv, TypeOK
<1>4. ControlInv'
  BY <1>1, <1>2, <1>3 DEF Inv, ControlInv, Settled, Busy, TypeOK, PCs
<1>5. RestoredInv'
  BY <1>1, <1>3, RestoredSame DEF Inv, RestoredInv, StartableIsRestored, Startable, Labels
<1> QED
  BY <1>2, <1>4, <1>5 DEF Inv

(* The host goes down: files differ from what is on disk only when there   *)
(* is no pg_control that could come back.                                  *)
LEMMA HostCrashInv ==
  ASSUME RestoreAssumption, Inv, HostCrash
  PROVE  Inv'
<1>1. PICK S \in SUBSET {f \in Names : pg[f] # disk[f]} :
        pg' = [f \in Names |-> IF f \in S THEN disk[f] ELSE pg[f]]
  BY DEF HostCrash
<1>2. disk' = pg' /\ p' = Idle /\ UNCHANGED <<unsynced, trusted>>
  BY DEF HostCrash
<1>3. pg' \in [Names -> FileType \union {None}]
  BY <1>1 DEF Inv, TypeOK
<1>4. TypeOK' /\ FilesInv' /\ DoneInv' /\ p'.pc = "idle"
  BY <1>2, <1>3, IdleType DEF Inv, TypeOK
<1>5. ControlInv'
  BY <1>2, <1>4 DEF ControlInv, Settled, Busy
<1>6. pg'[Control] \in {pg[Control], disk[Control]}
  BY <1>1, NamesApart
<1>7. CASE pg[Control] = None /\ disk[Control] = None
  BY <1>2, <1>4, <1>6, <1>7, NothingToStart DEF Inv
<1>0. CASE unsynced
  BY <1>0, <1>2, <1>4, <1>5 DEF Inv, RestoredInv, StartableIsRestored
<1>8. CASE ~unsynced /\ (pg[Control] # None \/ disk[Control] # None)
  <2>1. Settled
    BY <1>8 DEF Inv, ControlInv
  <2>2. \A f \in Files \union {Conf} : pg'[f] = pg[f]
    BY <1>1, <2>1, NamesApart DEF Settled
  <2>3. RestoredInv'
    BY <1>2, <1>6, <2>2, RestoredSame DEF Inv, RestoredInv, StartableIsRestored, Startable, Labels
  <2> QED
    BY <1>4, <1>5, <2>3 DEF Inv
<1> QED
  BY <1>0, <1>7, <1>8

-----------------------------------------------------------------------------
LEMMA NextInv ==
  ASSUME RestoreAssumption, Inv, [Next]_vars
  PROVE  Inv'
<1>1. CASE \E l \in DOMAIN Backups, delta, force \in BOOLEAN : RestoreStart(l, delta, force)
  BY <1>1, StartInv DEF Labels
<1>2. CASE RemoveControl \/ NoControl \/ SyncControl \/ ManifestSave
  BY <1>2, RemoveControlInv, NoControlInv, SyncControlInv, ManifestSaveInv
<1>3. CASE \E f \in Names : CleanFile(f)
  BY <1>3, CleanFileInv
<1>4. CASE \E w \in Workers : \/ \E f \in Names : RestoreCheck(w, f)
                              \/ RestoreOpen(w) \/ RestoreClose(w) \/ RestoreVerify(w)
  BY <1>4, RestoreCheckInv, RestoreOpenInv, RestoreCloseInv, RestoreVerifyInv
<1>5. CASE RecoveryWrite \/ ManifestRemove \/ SyncPaths \/ RewriteOpen \/ RewriteClose \/ RenameControl \/ SyncGlobal
  BY <1>5, RecoveryWriteInv, ManifestRemoveInv, SyncPathsInv, RewriteInv, RenameControlInv, SyncGlobalInv
<1>6. CASE Abort \/ HostCrash
  BY <1>6, AbortInv, HostCrashInv
<1>7. CASE UNCHANGED vars
  <2>1. UNCHANGED <<pg, disk, p, unsynced, trusted>>
    BY <1>7 DEF vars
  <2>2. TypeOK' /\ ControlInv' /\ FilesInv' /\ DoneInv'
    BY <2>1 DEF Inv, TypeOK, ControlInv, FilesInv, DoneInv, Settled, Has, Matches, Restored
  <2>3. RestoredInv'
    BY <2>1, RestoredSame DEF Inv, RestoredInv, StartableIsRestored, Startable, Labels
  <2> QED
    BY <2>2, <2>3 DEF Inv
<1> QED
  BY <1>1, <1>2, <1>3, <1>4, <1>5, <1>6, <1>7 DEF Next

(* The inductive invariant of cmdRestore(): there is a pg_control only     *)
(* before anything was changed and after everything was synced, and while  *)
(* workers run every file of the backup is waiting, in work or there.      *)
THEOREM RestoreInvariant ==
  ASSUME RestoreAssumption
  PROVE  Spec => []Inv
<1>1. Init => Inv
  BY InitInv
<1>2. Inv /\ [Next]_vars => Inv'
  BY NextInv
<1> QED
  BY <1>1, <1>2, PTL DEF Spec

(* A cluster that can be started is the backup that was restored, for any  *)
(* backups, any cluster found, any number of workers, of restores that     *)
(* failed or were killed, and of crashes of the host (restore.c:246-252);  *)
(* except for files that --force kept and a removal that was not synced.   *)
THEOREM RestoreStartableIsRestored ==
  ASSUME RestoreAssumption
  PROVE  Spec => []StartableIsRestored
<1>1. Inv => StartableIsRestored
  BY DEF Inv, RestoredInv
<1> QED
  BY <1>1, RestoreInvariant, PTL

(* No step changes a file of the cluster that is replaced while its        *)
(* pg_control is there or would be after a crash of the host               *)
(* (clean.c.inc:504-512), unless a command ended before the sync.          *)
THEOREM RestoreReplacedIsUntouched ==
  ASSUME RestoreAssumption
  PROVE  Spec => ReplacedIsUntouched
<1>1. ASSUME Inv, [Next]_vars, NEW f \in Files, pg'[f] # pg[f], ~unsynced
      PROVE  pg[Control] = None /\ disk[Control] = None
  <2>1. CASE p.pc \in Busy
    BY <1>1, <2>1, ControlGone DEF Inv
  <2>2. CASE HostCrash
    <3>1. disk[f] # pg[f]
      BY <1>1, <2>2, NamesApart DEF HostCrash, Inv, TypeOK
    <3> QED
      BY <1>1, <3>1 DEF Inv, ControlInv, Settled
  <2>3. CASE RemoveControl
    <3>1. SetFile(Control, None)
      BY <2>3 DEF RemoveControl
    <3> QED
      BY <1>1, <3>1, NamesApart DEF SetFile, Inv, TypeOK
  <2>4. CASE \/ \E l \in DOMAIN Backups, delta, force \in BOOLEAN : RestoreStart(l, delta, force)
             \/ NoControl \/ SyncControl \/ SyncGlobal \/ Abort \/ UNCHANGED vars
    BY <1>1, <2>4 DEF RestoreStart, NoControl, SyncControl, SyncGlobal, Abort, vars
  <2>5. \/ p.pc \in Busy
        \/ HostCrash \/ RemoveControl
        \/ \E l \in DOMAIN Backups, delta, force \in BOOLEAN : RestoreStart(l, delta, force)
        \/ NoControl \/ SyncControl \/ SyncGlobal \/ Abort \/ UNCHANGED vars
    BY <1>1 DEF Next, ManifestSave, CleanFile, RestoreCheck, RestoreOpen, RestoreClose, RestoreVerify, Working,
                RecoveryWrite, ManifestRemove, SyncPaths, RewriteOpen, RewriteClose, RenameControl, Is, Busy
  <2> QED
    BY <2>1, <2>2, <2>3, <2>4, <2>5
<1>2. Inv /\ [Next]_vars => [OnlyReplaced]_vars
  BY <1>1 DEF OnlyReplaced, Replaceable
<1> QED
  BY <1>2, RestoreInvariant, PTL DEF Spec, ReplacedIsUntouched
=============================================================================
