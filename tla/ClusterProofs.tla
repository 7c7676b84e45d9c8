---------------------------- MODULE ClusterProofs ---------------------------
(***************************************************************************)
(* For any number of repositories, segments, background processes, faults  *)
(* and rival hosts: what PostgreSQL may recycle is in every repository, or *)
(* was dropped with a warning.  For any number of clusters and records, of *)
(* which one is promoted: a backup that copied from a standby is           *)
(* consistent with the WAL of its primary.                                 *)
(***************************************************************************)
EXTENDS MCCluster, Sequences, NatSets, TLAPS

-----------------------------------------------------------------------------
Safe(s) == Archived(s) \/ s \in dropped

(* Acknowledged in the spool or by PostgreSQL, or about to be.             *)
StatusSafe == \A s \in ok \cup done : Safe(s)

FgSafe ==
  /\ fg.pc # "idle" => fg.seg \in Seg
  /\ fg.pc = "success" => Safe(fg.seg)

(* A call of archivePushFile() for segment s with progress j: unless it    *)
(* has collected an error, each repository either has the segment or is    *)
(* still to be looked into or written to. The job's state tells which of   *)
(* the two lists is left.                                                  *)
Covered(j, s) == \A r \in Repo : r \in j.find \cup j.copy \/ "ours" \in archive[r][s]

JobOK(j, s) ==
  /\ j.st = "find" => j.find # {}
  /\ j.st = "copy" => j.find = {} /\ j.copy # {}
  /\ j.st = "done" => j.find = {} /\ j.copy = {}
  /\ j.st # "none" /\ ~j.err => Covered(j, s)

JobSafe == \A x \in Pusher, s \in Seg : JobOK(job[x][s], s)

PushInv == PushTypeOK /\ StatusSafe /\ FgSafe /\ JobSafe

-----------------------------------------------------------------------------
(* The archive only grows.                                                 *)
Grows ==
  \A r \in Repo, s \in Seg : "ours" \in archive[r][s] => "ours" \in archive'[r][s]

LEMMA GrowsUnchanged == archive' = archive => Grows
BY DEF Grows

LEMMA SafeStays ==
  ASSUME Grows, dropped \subseteq dropped', NEW s \in Seg, Safe(s)
  PROVE  Safe(s)'
BY DEF Grows, Safe, Archived

LEMMA CoveredStays ==
  ASSUME Grows, NEW s \in Seg, NEW j \in JobRec, Covered(j, s)
  PROVE  Covered(j, s)'
BY DEF Grows, Covered

LEMMA JobOKStays ==
  ASSUME Grows, NEW s \in Seg, NEW j \in JobRec, JobOK(j, s)
  PROVE  JobOK(j, s)'
<1>1. Covered(j, s) => Covered(j, s)'
  BY CoveredStays
<1> QED
  BY <1>1 DEF JobOK

LEMMA JobsUnchanged ==
  ASSUME JobTypeOK, JobSafe, Grows, job' = job
  PROVE  JobTypeOK' /\ JobSafe'
<1>1. JobTypeOK'
  BY DEF JobTypeOK
<1>2. ASSUME NEW x \in Pusher, NEW s \in Seg PROVE JobOK(job[x][s], s)'
  <2>1. job[x][s] \in JobRec /\ JobOK(job[x][s], s)
    BY DEF JobTypeOK, JobSafe
  <2>2. PICK j \in JobRec : j = job[x][s]
    BY <2>1
  <2>3. JobOK(j, s)'
    BY <2>1, <2>2, JobOKStays
  <2>4. job'[x][s] = j
    BY <2>2
  <2> QED
    BY <2>3, <2>4 DEF JobOK, Covered
<1> QED
  BY <1>1, <1>2 DEF JobSafe

(* One call makes progress, the others keep theirs.                        *)
LEMMA JobAssign ==
  ASSUME JobTypeOK, JobSafe, Grows, NEW x \in Pusher, NEW s \in Seg,
         NEW v \in JobRec, JobOK(v, s)', job' = [job EXCEPT ![x][s] = v]
  PROVE  JobTypeOK' /\ JobSafe'
<1>1. JobTypeOK'
  BY DEF JobTypeOK
<1>2. ASSUME NEW y \in Pusher, NEW t \in Seg
      PROVE  job'[y][t] = IF y = x /\ t = s THEN v ELSE job[y][t]
  BY DEF JobTypeOK
<1>3. ASSUME NEW y \in Pusher, NEW t \in Seg PROVE JobOK(job[y][t], t)'
  <2>1. job[y][t] \in JobRec /\ JobOK(job[y][t], t)
    BY DEF JobTypeOK, JobSafe
  <2>2. PICK j \in JobRec : j = job[y][t]
    BY <2>1
  <2>3. JobOK(j, t)'
    BY <2>1, <2>2, JobOKStays
  <2>4. CASE y = x /\ t = s
    <3>1. job'[y][t] = v
      BY <1>2, <2>4
    <3> QED
      BY <2>4, <3>1 DEF JobOK, Covered
  <2>5. CASE ~(y = x /\ t = s)
    <3>1. job'[y][t] = j
      BY <1>2, <2>2, <2>5
    <3> QED
      BY <2>3, <3>1 DEF JobOK, Covered
  <2> QED
    BY <2>4, <2>5
<1> QED
  BY <1>1, <1>3 DEF JobSafe

-----------------------------------------------------------------------------
(* What a step of archivePushFile() makes of its progress.                 *)
LEMMA FirstRepo ==
  ASSUME NEW S \in SUBSET Repo, S # {}
  PROVE  First(S) \in S
BY FirstIn, PushAssumption

LEMMA NoJobOK ==
  ASSUME NEW s \in Seg
  PROVE  NoJob \in JobRec /\ JobOK(NoJob, s)'
BY DEF NoJob, JobRec, JobOK

LEMMA JobNewOK ==
  ASSUME NEW valid \in SUBSET Repo, NEW s \in Seg
  PROVE  JobNew(valid) \in JobRec /\ JobOK(JobNew(valid), s)'
<1>1. JobNew(valid) \in JobRec
  BY DEF JobNew, JobRec
<1>2. valid = {} => valid # Repo
  BY PushAssumption
<1> QED
  BY <1>1, <1>2 DEF JobNew, JobOK, Covered

LEMMA JobThrownOK ==
  ASSUME NEW s \in Seg
  PROVE  JobThrown \in JobRec /\ JobOK(JobThrown, s)'
BY DEF JobThrown, JobRec, JobOK

(* A repository leaves the list of those to look into because it has the   *)
(* segment, because it is to be written to, or with an error.              *)
LEMMA JobFoundOK ==
  ASSUME NEW j \in JobRec, NEW s \in Seg, NEW copy \in BOOLEAN, NEW error \in BOOLEAN,
         JobOK(j, s), j.st = "find", archive' = archive,
         copy \/ error \/ "ours" \in archive[First(j.find)][s]
  PROVE  JobFound(j, copy, error) \in JobRec /\ JobOK(JobFound(j, copy, error), s)'
<1> DEFINE r == First(j.find)
<1> DEFINE k == JobFound(j, copy, error)
<1>1. j.find \in SUBSET Repo /\ j.find # {} /\ j.copy \in SUBSET Repo
  BY DEF JobOK, JobRec
<1>2. r \in j.find
  BY <1>1, FirstRepo
<1>3. k \in JobRec
  BY <1>1, <1>2 DEF JobFound, JobRec
<1>4. /\ k.find = j.find \ {r}
      /\ k.copy = IF copy THEN j.copy \cup {r} ELSE j.copy
      /\ k.err = (j.err \/ error)
      /\ k.st = IF j.find # {r} THEN "find"
                ELSE IF copy \/ j.copy # {} THEN "copy" ELSE "done"
  BY DEF JobFound, JobRec
<1> HIDE DEF k, r
<1>5. /\ k.st = "find" => k.find # {}
      /\ k.st = "copy" => k.find = {} /\ k.copy # {}
      /\ k.st = "done" => k.find = {} /\ k.copy = {}
  BY <1>1, <1>2, <1>4
<1>6. ASSUME ~k.err PROVE Covered(k, s)'
  <2>1. ~j.err /\ ~error
    BY <1>4, <1>6
  <2>2. Covered(j, s)
    BY <2>1 DEF JobOK
  <2>3. copy \/ "ours" \in archive[r][s]
    BY <2>1 DEF r
  <2> QED
    BY <1>4, <2>2, <2>3 DEF Covered
<1>7. JobOK(k, s)'
  BY <1>5, <1>6 DEF JobOK
<1> QED
  BY <1>3, <1>7 DEF k

LEMMA JobCopiedOK ==
  ASSUME NEW j \in JobRec, NEW s \in Seg, NEW error \in BOOLEAN,
         JobOK(j, s), j.st = "copy", Grows,
         error \/ "ours" \in archive'[First(j.copy)][s]
  PROVE  JobCopied(j, error) \in JobRec /\ JobOK(JobCopied(j, error), s)'
<1> DEFINE r == First(j.copy)
<1> DEFINE k == JobCopied(j, error)
<1>1. j.find = {} /\ j.copy \in SUBSET Repo /\ j.copy # {}
  BY DEF JobOK, JobRec
<1>2. r \in j.copy
  BY <1>1, FirstRepo
<1>3. k \in JobRec
  BY <1>1, <1>2 DEF JobCopied, JobRec
<1>4. /\ k.find = {} /\ k.copy = j.copy \ {r}
      /\ k.err = (j.err \/ error)
      /\ k.st = IF j.copy = {r} THEN "done" ELSE "copy"
  BY <1>1 DEF JobCopied, JobRec
<1> HIDE DEF k, r
<1>5. /\ k.st # "find"
      /\ k.st = "copy" => k.find = {} /\ k.copy # {}
      /\ k.st = "done" => k.find = {} /\ k.copy = {}
  BY <1>1, <1>2, <1>4
<1>6. ASSUME ~k.err PROVE Covered(k, s)'
  <2>1. ~j.err /\ ~error
    BY <1>4, <1>6
  <2>2. Covered(j, s)'
    BY <2>1, CoveredStays DEF JobOK
  <2>3. "ours" \in archive'[r][s]
    BY <2>1 DEF r
  <2> QED
    BY <1>1, <1>4, <2>2, <2>3 DEF Covered
<1>7. JobOK(k, s)'
  BY <1>5, <1>6 DEF JobOK
<1> QED
  BY <1>3, <1>7 DEF k

-----------------------------------------------------------------------------
(* The parts of the invariant that a step leaves alone.                    *)
LEMMA StatusStays ==
  ASSUME PgTypeOK, SpoolTypeOK, StatusSafe, Grows, dropped \subseteq dropped',
         ok' \cup done' \subseteq ok \cup done
  PROVE  StatusSafe'
<1> SUFFICES ASSUME NEW s \in ok' \cup done' PROVE Safe(s)'
  BY DEF StatusSafe
<1>1. s \in Seg /\ Safe(s)
  BY DEF PgTypeOK, SpoolTypeOK, StatusSafe
<1> QED
  BY <1>1, SafeStays

LEMMA FgStays ==
  ASSUME FgTypeOK, FgSafe, Grows, dropped \subseteq dropped', fg' = fg
  PROVE  FgTypeOK' /\ FgSafe'
<1>1. FgTypeOK'
  BY DEF FgTypeOK
<1>2. ASSUME fg.pc = "success" PROVE Safe(fg.seg)'
  <2>1. fg.seg \in Seg /\ Safe(fg.seg)
    BY <1>2 DEF FgSafe
  <2>2. PICK s \in Seg : s = fg.seg
    BY <2>1
  <2>3. Safe(s)'
    BY <2>1, <2>2, SafeStays
  <2> QED
    BY <2>2, <2>3 DEF Safe, Archived
<1> QED
  BY <1>1, <1>2 DEF FgSafe

(* A foreground that has not succeeded promises nothing.                   *)
LEMMA FgMoves ==
  ASSUME FgTypeOK', fg'.pc # "success", fg'.pc # "idle" => fg'.seg \in Seg
  PROVE  FgSafe'
BY DEF FgSafe

LEMMA FgIdleOK ==
  ASSUME fg' = FgIdle
  PROVE  FgTypeOK' /\ FgSafe'
BY DEF FgIdle, FgTypeOK, FgSafe

(* Moving the foreground on with the segment it has.                       *)
LEMMA FgGoesOn ==
  ASSUME FgTypeOK, FgSafe, fg.pc # "idle", FgTypeOK',
         fg'.seg = fg.seg, fg'.pc # "success"
  PROVE  FgSafe'
BY DEF FgSafe

LEMMA FgSucceeds ==
  ASSUME FgTypeOK, FgSafe, fg.pc # "idle", Safe(fg.seg)',
         fg' = [fg EXCEPT !.pc = "success"]
  PROVE  FgTypeOK' /\ FgSafe'
<1>1. fg.seg \in Seg
  BY DEF FgSafe
<1>2. FgTypeOK'
  BY DEF FgTypeOK
<1>3. fg'.pc = "success" /\ fg'.seg = fg.seg
  BY DEF FgTypeOK
<1> QED
  BY <1>1, <1>2, <1>3 DEF FgSafe

LEMMA OthersUnchanged ==
  ASSUME PgTypeOK, AsyncTypeOK, ArchiveTypeOK, UNCHANGED <<pgVars, async, archive>>
  PROVE  PgTypeOK' /\ AsyncTypeOK' /\ ArchiveTypeOK' /\ Grows
BY DEF PgTypeOK, AsyncTypeOK, ArchiveTypeOK, Grows, pgVars

LEMMA InitPushInv == Init => PushInv
<1> SUFFICES ASSUME Init PROVE PushInv
  OBVIOUS
<1>1. PgTypeOK /\ SpoolTypeOK /\ FgTypeOK
  <2>1. PgTypeOK
    BY PushAssumption DEF Init, PgTypeOK
  <2>2. SpoolTypeOK
    BY PushAssumption DEF Init, SpoolTypeOK
  <2>3. FgTypeOK
    BY DEF Init, FgTypeOK, FgIdle
  <2> QED
    BY <2>1, <2>2, <2>3
<1>2. AsyncTypeOK /\ JobTypeOK /\ ArchiveTypeOK
  BY DEF Init, AsyncTypeOK, AsyncRec, AsyncNone, JobTypeOK, JobRec, NoJob, ArchiveTypeOK
<1>3. StatusSafe /\ FgSafe
  BY DEF Init, StatusSafe, FgSafe, FgIdle
<1>4. JobSafe
  BY DEF Init, JobSafe, JobOK, NoJob
<1> QED
  BY <1>1, <1>2, <1>3, <1>4 DEF PushInv, PushTypeOK

-----------------------------------------------------------------------------
(* PostgreSQL *)

LEMMA FirstSeg ==
  ASSUME NEW S \in SUBSET Seg, S # {}
  PROVE  First(S) \in S
<1>1. S \in SUBSET Nat
  BY DEF Seg
<1> QED
  BY <1>1, FirstIn

LEMMA WalSwitchInv ==
  ASSUME PushInv, WalSwitch
  PROVE  PushInv'
<1> USE DEF PushInv, PushTypeOK
<1>1. PgTypeOK'
  BY PushAssumption DEF WalSwitch, PgTypeOK, Seg
<1>2. SpoolTypeOK' /\ AsyncTypeOK' /\ ArchiveTypeOK' /\ Grows
  BY DEF WalSwitch, SpoolTypeOK, AsyncTypeOK, ArchiveTypeOK, Grows, spool
<1>3. StatusSafe' /\ FgTypeOK' /\ FgSafe'
  BY <1>2, StatusStays, FgStays DEF WalSwitch, spool
<1>4. JobTypeOK' /\ JobSafe'
  BY <1>2, JobsUnchanged DEF WalSwitch
<1> QED
  BY <1>1, <1>2, <1>3, <1>4

LEMMA ArchiveCommandInv ==
  ASSUME PushInv, ArchiveCommand
  PROVE  PushInv'
<1> USE DEF PushInv, PushTypeOK
<1>1. PgTypeOK' /\ AsyncTypeOK' /\ ArchiveTypeOK' /\ Grows
  BY OthersUnchanged DEF ArchiveCommand
<1>2. SpoolTypeOK' /\ StatusSafe'
  BY <1>1, StatusStays DEF ArchiveCommand, SpoolTypeOK, spool, pgVars
<1>3. First(ready) \in Seg
  BY FirstSeg DEF ArchiveCommand, PgTypeOK
<1>4. FgTypeOK' /\ FgSafe'
  BY <1>3 DEF ArchiveCommand, FgTypeOK, FgSafe, FgIdle
<1>5. JobTypeOK' /\ JobSafe'
  BY <1>1, JobsUnchanged DEF ArchiveCommand
<1> QED
  BY <1>1, <1>2, <1>4, <1>5

LEMMA AcknowledgeInv ==
  ASSUME PushInv, Acknowledge
  PROVE  PushInv'
<1> USE DEF PushInv, PushTypeOK
<1>1. fg.seg \in Seg /\ Safe(fg.seg)
  BY DEF Acknowledge, FgSafe
<1>2. PgTypeOK'
  BY <1>1 DEF Acknowledge, PgTypeOK
<1>3. SpoolTypeOK' /\ AsyncTypeOK' /\ ArchiveTypeOK' /\ Grows
  BY DEF Acknowledge, SpoolTypeOK, AsyncTypeOK, ArchiveTypeOK, Grows, spool
<1>4. StatusSafe'
  BY <1>1 DEF Acknowledge, StatusSafe, Safe, Archived, spool
<1>5. FgTypeOK' /\ FgSafe'
  BY FgIdleOK DEF Acknowledge
<1>6. JobTypeOK' /\ JobSafe'
  BY <1>3, JobsUnchanged DEF Acknowledge
<1> QED
  BY <1>2, <1>3, <1>4, <1>5, <1>6

-----------------------------------------------------------------------------
(* The foreground process in asynchronous mode.                            *)

(* A step that only moves the foreground, and perhaps clears errors, the   *)
(* lock or the list of faults to come.                                     *)
LEMMA ForegroundStep ==
  ASSUME PushInv, UNCHANGED <<pgVars, ok, dropped, async, job, archive>>,
         SpoolTypeOK', FgTypeOK', FgSafe'
  PROVE  PushInv'
<1> USE DEF PushInv, PushTypeOK
<1>1. PgTypeOK' /\ AsyncTypeOK' /\ ArchiveTypeOK' /\ Grows
  BY OthersUnchanged
<1>2. StatusSafe'
  BY <1>1, StatusStays DEF pgVars
<1>3. JobTypeOK' /\ JobSafe'
  BY <1>1, JobsUnchanged
<1> QED
  BY <1>1, <1>2, <1>3

LEMMA StatusExistsInv ==
  ASSUME PushInv, StatusExists
  PROVE  PushInv'
<1> USE DEF PushInv, PushTypeOK
<1>1. SpoolTypeOK'
  BY DEF StatusExists, SpoolTypeOK, spool
<1>2. FgTypeOK' /\ fg'.seg = fg.seg /\ fg'.pc # "success"
  BY DEF StatusExists, GoesOn, FgTypeOK
<1>3. FgSafe'
  BY <1>2, FgGoesOn DEF StatusExists
<1> QED
  BY <1>1, <1>2, <1>3, ForegroundStep DEF StatusExists, spool

LEMMA StatusContentInv ==
  ASSUME PushInv, StatusContent
  PROVE  PushInv'
<1> USE DEF PushInv, PushTypeOK
<1>1. SpoolTypeOK'
  BY DEF StatusContent, SpoolTypeOK, spool
<1>2. FgTypeOK' /\ FgSafe'
  <2>1. CASE fg' = FgIdle
    BY <2>1, FgIdleOK
  <2>2. CASE fg.pc = "ok" /\ fg.seg \in ok /\ fg' = [fg EXCEPT !.pc = "success"]
    <3>1. Safe(fg.seg)
      BY <2>2 DEF StatusSafe
    <3>2. Safe(fg.seg)'
      BY <2>2, <3>1 DEF Safe, Archived, StatusContent, FgTypeOK, spool
    <3> QED
      BY <2>2, <3>2, FgSucceeds
  <2>3. CASE fg.pc # "idle" /\ fg' = [fg EXCEPT !.pc = GoesOn]
    <3>1. FgTypeOK' /\ fg'.seg = fg.seg /\ fg'.pc # "success"
      BY <2>3 DEF FgTypeOK, GoesOn
    <3> QED
      BY <2>3, <3>1, FgGoesOn DEF StatusContent
  <2> QED
    BY <2>1, <2>2, <2>3 DEF StatusContent
<1> QED
  BY <1>1, <1>2, ForegroundStep DEF StatusContent, spool

LEMMA ForkLockInv ==
  ASSUME PushInv, ForkLock
  PROVE  PushInv'
<1> USE DEF PushInv, PushTypeOK
<1>1. SpoolTypeOK'
  BY DEF ForkLock, SpoolTypeOK, Pusher
<1>2. FgTypeOK' /\ fg'.seg = fg.seg /\ fg'.pc # "success"
  BY DEF ForkLock, FgTypeOK
<1>3. FgSafe'
  BY <1>2, FgGoesOn DEF ForkLock
<1> QED
  BY <1>1, <1>2, <1>3, ForegroundStep DEF ForkLock

LEMMA WaitInv ==
  ASSUME PushInv, WaitMore \/ ArchiveTimeout
  PROVE  PushInv'
<1> USE DEF PushInv, PushTypeOK
<1>1. SpoolTypeOK'
  BY DEF WaitMore, ArchiveTimeout, SpoolTypeOK, spool
<1>2. CASE WaitMore
  <2>1. FgTypeOK' /\ fg'.seg = fg.seg /\ fg'.pc # "success"
    BY <1>2 DEF WaitMore, FgTypeOK
  <2>2. FgSafe'
    BY <1>2, <2>1, FgGoesOn DEF WaitMore
  <2> QED
    BY <1>1, <1>2, <2>1, <2>2, ForegroundStep DEF WaitMore, spool
<1>3. CASE ArchiveTimeout
  BY <1>1, <1>3, FgIdleOK, ForegroundStep DEF ArchiveTimeout, spool
<1> QED
  BY <1>2, <1>3

LEMMA ForkExecInv ==
  ASSUME PushInv, ForkExec
  PROVE  PushInv'
<1> USE DEF PushInv, PushTypeOK
<1>1. PgTypeOK' /\ ArchiveTypeOK' /\ Grows
  BY DEF ForkExec, PgTypeOK, ArchiveTypeOK, Grows, pgVars
<1>2. AsyncTypeOK'
  <2>1. PICK a \in Async :
          async' = [async EXCEPT ![a] = [AsyncNone EXCEPT !.pc = "start"]]
    BY DEF ForkExec
  <2>2. [AsyncNone EXCEPT !.pc = "start"] \in AsyncRec
    BY DEF AsyncNone, AsyncRec
  <2> QED
    BY <2>1, <2>2 DEF AsyncTypeOK
<1>3. SpoolTypeOK'
  BY DEF ForkExec, SpoolTypeOK, spool
<1>4. StatusSafe'
  BY <1>1, StatusStays DEF ForkExec, spool, pgVars
<1>5. FgTypeOK' /\ fg'.seg = fg.seg /\ fg'.pc # "success"
  BY DEF ForkExec, FgTypeOK
<1>6. FgSafe'
  BY <1>5, FgGoesOn DEF ForkExec
<1>7. JobTypeOK' /\ JobSafe'
  BY <1>1, JobsUnchanged DEF ForkExec
<1> QED
  BY <1>1, <1>2, <1>3, <1>4, <1>5, <1>6, <1>7

-----------------------------------------------------------------------------
(* archivePushFile() *)

LEMMA FaultsLeft ==
  ASSUME SpoolTypeOK, faults' = faults \/ (faults > 0 /\ faults' = faults - 1)
  PROVE  faults' \in Nat
BY DEF SpoolTypeOK

LEMMA JobStep ==
  ASSUME PushInv, NEW x \in Pusher, NEW s \in Seg, NEW v \in JobRec, JobOK(v, s)',
         job' = [job EXCEPT ![x][s] = v], Grows, ArchiveTypeOK', faults' \in Nat,
         UNCHANGED <<pgVars, spool, lock, fg, async>>
  PROVE  PushInv'
<1> USE DEF PushInv, PushTypeOK
<1>1. PgTypeOK' /\ SpoolTypeOK' /\ AsyncTypeOK'
  BY DEF PgTypeOK, SpoolTypeOK, AsyncTypeOK, pgVars, spool
<1>2. StatusSafe' /\ FgTypeOK' /\ FgSafe'
  BY StatusStays, FgStays DEF pgVars, spool
<1>3. JobTypeOK' /\ JobSafe'
  BY JobAssign
<1> QED
  BY <1>1, <1>2, <1>3

LEMMA JobFindInv ==
  ASSUME PushInv, NEW x \in Pusher, NEW s \in Seg, JobFind(x, s)
  PROVE  PushInv'
<1>1. PICK j \in JobRec : j = job[x][s] /\ JobOK(j, s)
  BY DEF PushInv, PushTypeOK, JobTypeOK, JobSafe
<1>2. j.st = "find" /\ archive' = archive
  BY <1>1 DEF JobFind
<1>3. faults' \in Nat
  <2>1. faults' = faults \/ (faults > 0 /\ faults' = faults - 1)
    BY Zenon DEF JobFind
  <2> QED
    BY <2>1, FaultsLeft DEF PushInv, PushTypeOK
<1>4. Grows /\ ArchiveTypeOK'
  BY <1>2 DEF Grows, ArchiveTypeOK, PushInv, PushTypeOK
<1>5. \E v \in JobRec : JobOK(v, s)' /\ job' = [job EXCEPT ![x][s] = v]
  <2>1. CASE job' = [job EXCEPT ![x][s] = JobFound(j, TRUE, FALSE)]
    BY <1>1, <1>2, <2>1, JobFoundOK
  <2>2. CASE /\ job' = [job EXCEPT ![x][s] = JobFound(j, FALSE, FALSE)]
             /\ archive[First(j.find)][s] = {"ours"}
    BY <1>1, <1>2, <2>2, JobFoundOK
  <2>3. CASE job' = [job EXCEPT ![x][s] = JobThrown]
    BY <2>3, JobThrownOK
  <2>4. CASE job' = [job EXCEPT ![x][s] = JobFound(j, FALSE, TRUE)]
    BY <1>1, <1>2, <2>4, JobFoundOK
  <2> QED
    BY <1>1, <2>1, <2>2, <2>3, <2>4 DEF JobFind
<1> QED
  BY <1>3, <1>4, <1>5, JobStep DEF JobFind

LEMMA JobCopyInv ==
  ASSUME PushInv, NEW x \in Pusher, NEW s \in Seg, JobCopy(x, s)
  PROVE  PushInv'
<1>1. PICK j \in JobRec : j = job[x][s] /\ JobOK(j, s)
  BY DEF PushInv, PushTypeOK, JobTypeOK, JobSafe
<1>2. j.st = "copy"
  BY <1>1 DEF JobCopy
<1>3. First(j.copy) \in Repo
  BY <1>2, <1>1, FirstRepo DEF JobOK, JobRec
<1>4. PICK r \in Repo : r = First(j.copy)
  BY <1>3
<1>5. faults' \in Nat
  <2>1. faults' = faults \/ (faults > 0 /\ faults' = faults - 1)
    BY Zenon DEF JobCopy
  <2> QED
    BY <2>1, FaultsLeft DEF PushInv, PushTypeOK
<1>6. CASE /\ archive' = [archive EXCEPT ![r][s] = @ \cup {"ours"}]
           /\ job' = [job EXCEPT ![x][s] = JobCopied(j, FALSE)]
  <2>1. ArchiveTypeOK' /\ Grows /\ "ours" \in archive'[r][s]
    BY <1>6 DEF ArchiveTypeOK, Grows, PushInv, PushTypeOK
  <2>2. JobCopied(j, FALSE) \in JobRec /\ JobOK(JobCopied(j, FALSE), s)'
    BY <1>1, <1>2, <1>4, <2>1, JobCopiedOK
  <2> QED
    BY <1>5, <1>6, <2>1, <2>2, JobStep DEF JobCopy
<1>7. CASE archive' = archive /\ job' = [job EXCEPT ![x][s] = JobCopied(j, TRUE)]
  <2>1. ArchiveTypeOK' /\ Grows
    BY <1>7 DEF ArchiveTypeOK, Grows, PushInv, PushTypeOK
  <2>2. JobCopied(j, TRUE) \in JobRec /\ JobOK(JobCopied(j, TRUE), s)'
    BY <1>1, <1>2, <2>1, JobCopiedOK
  <2> QED
    BY <1>5, <1>7, <2>1, <2>2, JobStep DEF JobCopy
<1> QED
  BY <1>1, <1>4, <1>6, <1>7 DEF JobCopy

LEMMA JobFailInv ==
  ASSUME PushInv, NEW x \in Pusher, NEW s \in Seg, JobFail(x, s)
  PROVE  PushInv'
<1>1. faults' \in Nat /\ ArchiveTypeOK' /\ Grows
  BY DEF JobFail, PushInv, PushTypeOK, SpoolTypeOK, ArchiveTypeOK, Grows
<1>2. JobThrown \in JobRec /\ JobOK(JobThrown, s)'
  BY JobThrownOK
<1> QED
  BY <1>1, <1>2, JobStep DEF JobFail

LEMMA RivalPushInv ==
  ASSUME PushInv, RivalPush
  PROVE  PushInv'
<1> USE DEF PushInv, PushTypeOK
<1>1. PgTypeOK' /\ SpoolTypeOK' /\ AsyncTypeOK'
  BY DEF RivalPush, PgTypeOK, SpoolTypeOK, AsyncTypeOK, pgVars, spool
<1>2. ArchiveTypeOK' /\ Grows
  <2>1. PICK r \in Repo, s \in Seg : archive' = [archive EXCEPT ![r][s] = @ \cup {"rival"}]
    BY DEF RivalPush
  <2> QED
    BY <2>1 DEF ArchiveTypeOK, Grows
<1>3. StatusSafe' /\ FgTypeOK' /\ FgSafe'
  BY <1>2, StatusStays, FgStays DEF RivalPush, pgVars, spool
<1>4. JobTypeOK' /\ JobSafe'
  BY <1>2, JobsUnchanged DEF RivalPush
<1> QED
  BY <1>1, <1>2, <1>3, <1>4

-----------------------------------------------------------------------------
(* The background process *)

(* A step that touches neither the archive, nor fg, nor the jobs.          *)
LEMMA AsyncStep ==
  ASSUME PushInv, AsyncTypeOK', SpoolTypeOK', StatusSafe', dropped \subseteq dropped',
         UNCHANGED <<pgVars, fg, job, archive>>
  PROVE  PushInv'
<1> USE DEF PushInv, PushTypeOK
<1>1. PgTypeOK' /\ ArchiveTypeOK' /\ Grows
  BY DEF PgTypeOK, ArchiveTypeOK, Grows, pgVars
<1>2. FgTypeOK' /\ FgSafe'
  BY <1>1, FgStays
<1>3. JobTypeOK' /\ JobSafe'
  BY <1>1, JobsUnchanged
<1> QED
  BY <1>1, <1>2, <1>3

(* Two fields at once.                                                     *)
LEMMA AsyncMoves ==
  ASSUME AsyncTypeOK, NEW a \in Async, NEW c \in {"remove", "drop", "check", "work"},
         NEW t \in SUBSET Seg, NEW valid \in SUBSET Repo,
         \/ async' = [async EXCEPT ![a].pc = c, ![a].todo = t]
         \/ async' = [async EXCEPT ![a].pc = c, ![a].valid = valid]
  PROVE  AsyncTypeOK'
<1> DEFINE mid == [async EXCEPT ![a].pc = c]
<1>1. mid \in [Async -> AsyncRec]
  BY DEF AsyncTypeOK, AsyncRec
<1>2. \/ async' = [mid EXCEPT ![a].todo = t]
      \/ async' = [mid EXCEPT ![a].valid = valid]
  BY Zenon
<1> HIDE DEF mid
<1> QED
  BY <1>1, <1>2 DEF AsyncTypeOK, AsyncRec

LEMMA AsyncNoneOK == AsyncNone \in AsyncRec
BY DEF AsyncNone, AsyncRec

LEMMA AsyncStartInv ==
  ASSUME PushInv, NEW a \in Async, AsyncStart(a)
  PROVE  PushInv'
<1> USE DEF PushInv, PushTypeOK
<1>1. AsyncTypeOK'
  <2>1. CASE async' = [async EXCEPT ![a].pc = "status"]
    BY <2>1 DEF AsyncTypeOK, AsyncRec
  <2>2. CASE async' = [async EXCEPT ![a] = AsyncNone]
    BY <2>2, AsyncNoneOK DEF AsyncTypeOK
  <2> QED
    BY <2>1, <2>2 DEF AsyncStart
<1>2. SpoolTypeOK'
  BY DEF AsyncStart, SpoolTypeOK, spool, Pusher
<1>3. StatusSafe'
  BY StatusStays, GrowsUnchanged DEF AsyncStart, spool, pgVars
<1> QED
  BY <1>1, <1>2, <1>3, AsyncStep DEF AsyncStart, spool

(* The end of the process, with or without a global error.                 *)
LEMMA AsyncEndOK ==
  ASSUME AsyncTypeOK, SpoolTypeOK, NEW a \in Async, NEW thrown \in BOOLEAN,
         AsyncEnd(a, thrown)
  PROVE  AsyncTypeOK' /\ gerr' \in BOOLEAN /\ lock' \in Pusher \cup {NoLock}
<1>1. AsyncTypeOK'
  BY AsyncNoneOK DEF AsyncEnd, AsyncTypeOK
<1> QED
  BY <1>1 DEF AsyncEnd

LEMMA ProcessListStatusInv ==
  ASSUME PushInv, NEW a \in Async, ProcessListStatus(a)
  PROVE  PushInv'
<1> USE DEF PushInv, PushTypeOK
<1>1. AsyncTypeOK' /\ SpoolTypeOK'
  <2>1. CASE /\ async' = [async EXCEPT ![a].pc = "ready", ![a].okList = ok]
             /\ err' = {} /\ gerr' = FALSE
             /\ UNCHANGED <<lock, faults>>
    <3>1. AsyncTypeOK'
      BY <2>1 DEF AsyncTypeOK, AsyncRec, SpoolTypeOK
    <3> QED
      BY <2>1, <3>1 DEF ProcessListStatus, SpoolTypeOK
  <2>2. CASE faults > 0 /\ faults' = faults - 1 /\ AsyncEnd(a, TRUE) /\ UNCHANGED err
    <3>1. AsyncTypeOK' /\ gerr' \in BOOLEAN /\ lock' \in Pusher \cup {NoLock}
      BY <2>2, AsyncEndOK
    <3> QED
      BY <2>2, <3>1 DEF ProcessListStatus, SpoolTypeOK
  <2> QED
    BY <2>1, <2>2 DEF ProcessListStatus
<1>2. StatusSafe'
  BY StatusStays, GrowsUnchanged DEF ProcessListStatus, pgVars
<1> QED
  BY <1>1, <1>2, AsyncStep DEF ProcessListStatus

LEMMA ProcessListReadyInv ==
  ASSUME PushInv, NEW a \in Async, ProcessListReady(a)
  PROVE  PushInv'
<1> USE DEF PushInv, PushTypeOK
<1>1. AsyncTypeOK'
  BY AsyncMoves DEF ProcessListReady, PgTypeOK
<1>2. SpoolTypeOK'
  BY DEF ProcessListReady, SpoolTypeOK, spool
<1>3. StatusSafe'
  BY StatusStays, GrowsUnchanged DEF ProcessListReady, spool, pgVars
<1> QED
  BY <1>1, <1>2, <1>3, AsyncStep DEF ProcessListReady, spool

LEMMA ProcessListRemoveInv ==
  ASSUME PushInv, NEW a \in Async, ProcessListRemove(a)
  PROVE  PushInv'
<1> USE DEF PushInv, PushTypeOK
<1> DEFINE remove == async[a].okList \ async[a].todo
           todo == async[a].todo \ async[a].okList
<1>0. todo \in SUBSET Seg /\ async[a].okList \ {First(remove)} \in SUBSET Seg
  BY DEF AsyncTypeOK, AsyncRec
<1>1. ok' \subseteq ok
  BY DEF ProcessListRemove
<1>2. AsyncTypeOK' /\ gerr' \in BOOLEAN /\ lock' \in Pusher \cup {NoLock}
  <2>1. CASE AsyncEnd(a, TRUE)
    BY <2>1, AsyncEndOK
  <2>2. CASE /\ async' = [async EXCEPT ![a].okList = @ \ {First(remove)}]
             /\ UNCHANGED <<gerr, lock>>
    <3>1. PICK l \in SUBSET Seg : l = async[a].okList \ {First(remove)}
      BY <1>0
    <3>2. async' = [async EXCEPT ![a].okList = l]
      BY <2>2, <3>1
    <3>3. AsyncTypeOK'
      BY <3>2 DEF AsyncTypeOK, AsyncRec
    <3> QED
      BY <2>2, <3>3 DEF SpoolTypeOK
  <2>3. CASE /\ async' = [async EXCEPT
                  ![a].pc = IF Cardinality(todo) > QueueMax THEN "drop" ELSE "check",
                  ![a].todo = todo]
             /\ UNCHANGED <<gerr, lock>>
    <3>1. PICK c \in {"drop", "check"} :
            async' = [async EXCEPT ![a].pc = c, ![a].todo = todo]
      BY <2>3
    <3> HIDE DEF todo
    <3>2. AsyncTypeOK'
      BY <1>0, <3>1, AsyncMoves
    <3> QED
      BY <2>3, <3>2 DEF SpoolTypeOK
  <2> QED
    BY <2>1, <2>2, <2>3 DEF ProcessListRemove
<1>3. SpoolTypeOK'
  BY <1>1, <1>2 DEF ProcessListRemove, SpoolTypeOK
<1>4. StatusSafe'
  BY <1>1, StatusStays, GrowsUnchanged DEF ProcessListRemove, pgVars
<1> QED
  BY <1>2, <1>3, <1>4, AsyncStep DEF ProcessListRemove

LEMMA AsyncDropInv ==
  ASSUME PushInv, NEW a \in Async, AsyncDrop(a)
  PROVE  PushInv'
<1> USE DEF PushInv, PushTypeOK
<1>1. CASE async[a].todo # {} /\ async[a].pc = "drop" /\ UNCHANGED <<gerr, lock>>
           /\ LET s == First(async[a].todo) IN
                /\ ok' = ok \cup {s} /\ dropped' = dropped \cup {s}
                /\ async' = [async EXCEPT ![a].todo = @ \ {s}]
  <2>1. async[a].todo \in SUBSET Seg
    BY DEF AsyncTypeOK, AsyncRec
  <2>2. PICK s \in Seg : s = First(async[a].todo)
    BY <1>1, <2>1, FirstSeg
  <2>3. ok' = ok \cup {s} /\ dropped' = dropped \cup {s}
    BY <1>1, <2>2
  <2>4. AsyncTypeOK'
    BY <1>1, <2>2 DEF AsyncTypeOK, AsyncRec
  <2>5. SpoolTypeOK'
    BY <1>1, <2>3 DEF AsyncDrop, SpoolTypeOK
  <2>6. StatusSafe'
    <3> SUFFICES ASSUME NEW t \in ok' \cup done' PROVE Safe(t)'
      BY DEF StatusSafe
    <3>1. CASE t = s
      BY <2>3, <3>1 DEF Safe
    <3>2. CASE t \in ok \cup done
      <4>1. Safe(t) /\ t \in Seg
        BY <3>2 DEF StatusSafe, SpoolTypeOK, PgTypeOK
      <4> QED
        BY <2>3, <4>1, SafeStays, GrowsUnchanged DEF AsyncDrop
    <3> QED
      BY <2>3, <3>1, <3>2 DEF AsyncDrop, pgVars
  <2> QED
    BY <2>3, <2>4, <2>5, <2>6, AsyncStep DEF AsyncDrop
<1>2. CASE AsyncEnd(a, FALSE) /\ UNCHANGED <<ok, dropped>>
  <2>1. AsyncTypeOK' /\ gerr' \in BOOLEAN /\ lock' \in Pusher \cup {NoLock}
    BY <1>2, AsyncEndOK
  <2>2. SpoolTypeOK'
    BY <1>2, <2>1 DEF AsyncDrop, SpoolTypeOK
  <2>3. StatusSafe'
    BY <1>2, StatusStays, GrowsUnchanged DEF AsyncDrop, pgVars
  <2> QED
    BY <1>2, <2>1, <2>2, <2>3, AsyncStep DEF AsyncDrop
<1> QED
  BY <1>1, <1>2 DEF AsyncDrop

LEMMA AsyncCheckInv ==
  ASSUME PushInv, NEW a \in Async, AsyncCheck(a)
  PROVE  PushInv'
<1> USE DEF PushInv, PushTypeOK
<1>1. PICK valid \in SUBSET Repo :
        /\ CheckedRepos(valid)
        /\ IF valid = {}
           THEN AsyncEnd(a, TRUE)
           ELSE /\ async' = [async EXCEPT ![a].pc = "work", ![a].valid = valid]
                /\ UNCHANGED <<gerr, lock>>
  BY Zenon DEF AsyncCheck
<1>2. AsyncTypeOK' /\ gerr' \in BOOLEAN /\ lock' \in Pusher \cup {NoLock}
  <2>1. CASE valid = {}
    BY <1>1, <2>1, AsyncEndOK
  <2>2. CASE valid # {}
    BY <1>1, <2>2, AsyncMoves DEF SpoolTypeOK
  <2> QED
    BY <2>1, <2>2
<1>3. faults' \in Nat
  BY <1>1, FaultsLeft DEF CheckedRepos
<1>4. SpoolTypeOK'
  BY <1>2, <1>3 DEF AsyncCheck, SpoolTypeOK
<1>5. StatusSafe'
  BY StatusStays, GrowsUnchanged DEF AsyncCheck, pgVars
<1> QED
  BY <1>2, <1>4, <1>5, AsyncStep DEF AsyncCheck

LEMMA AsyncJobInv ==
  ASSUME PushInv, NEW a \in Async, AsyncJob(a)
  PROVE  PushInv'
<1> USE DEF PushInv, PushTypeOK
<1>1. async[a].todo \in SUBSET Seg /\ async[a].valid \in SUBSET Repo
  BY DEF AsyncTypeOK, AsyncRec
<1>2. PICK s \in Seg : s = First(async[a].todo)
  BY <1>1, FirstSeg DEF AsyncJob
<1>3. PICK valid \in SUBSET Repo : valid = async[a].valid
  BY <1>1
<1>4. /\ job' = [job EXCEPT ![a][s] = JobNew(valid)]
      /\ async' = [async EXCEPT ![a].todo = @ \ {s}]
  BY <1>2, <1>3 DEF AsyncJob
<1>5. AsyncTypeOK'
  BY <1>4 DEF AsyncTypeOK, AsyncRec
<1>6. PgTypeOK' /\ SpoolTypeOK' /\ ArchiveTypeOK' /\ Grows
  BY DEF AsyncJob, PgTypeOK, SpoolTypeOK, ArchiveTypeOK, Grows, pgVars, spool
<1>7. StatusSafe' /\ FgTypeOK' /\ FgSafe'
  BY <1>6, StatusStays, FgStays DEF AsyncJob, pgVars, spool
<1>8. JobTypeOK' /\ JobSafe'
  BY <1>4, <1>6, JobNewOK, JobAssign DEF Pusher
<1> QED
  BY <1>5, <1>6, <1>7, <1>8

(* The result of a job without errors, in terms of the archive.            *)
LEMMA DoneJobArchived ==
  ASSUME PushInv, NEW x \in Pusher, NEW s \in Seg,
         job[x][s].st = "done", ~job[x][s].err
  PROVE  Archived(s)
<1>1. PICK j \in JobRec : j = job[x][s] /\ JobOK(j, s)
  BY DEF PushInv, PushTypeOK, JobTypeOK, JobSafe
<1>2. Covered(j, s) /\ j.find = {} /\ j.copy = {}
  BY <1>1 DEF JobOK
<1> QED
  BY <1>2 DEF Covered, Archived

LEMMA AsyncResultInv ==
  ASSUME PushInv, NEW a \in Async, NEW s \in Seg, AsyncResult(a, s)
  PROVE  PushInv'
<1> USE DEF PushInv, PushTypeOK
<1>1. PgTypeOK' /\ AsyncTypeOK' /\ ArchiveTypeOK' /\ Grows
  BY OthersUnchanged DEF AsyncResult
<1>2. SpoolTypeOK'
  BY DEF AsyncResult, SpoolTypeOK
<1>3. FgTypeOK' /\ FgSafe'
  BY <1>1, FgStays DEF AsyncResult
<1>4. JobTypeOK' /\ JobSafe'
  BY <1>1, NoJobOK, JobAssign DEF AsyncResult, Pusher
<1>5. StatusSafe'
  <2>1. CASE job[a][s].err
    BY <1>1, <2>1, StatusStays DEF AsyncResult, pgVars
  <2>2. CASE ~job[a][s].err
    <3>1. Archived(s)
      BY <2>2, DoneJobArchived DEF AsyncResult, Pusher
    <3>2. ok' = ok \cup {s} /\ done' = done /\ archive' = archive /\ dropped' = dropped
      BY <2>2 DEF AsyncResult, pgVars
    <3> QED
      BY <3>1, <3>2 DEF StatusSafe, Safe, Archived
  <2> QED
    BY <2>1, <2>2
<1> QED
  BY <1>1, <1>2, <1>3, <1>4, <1>5

LEMMA AsyncFinishInv ==
  ASSUME PushInv, NEW a \in Async, AsyncFinish(a)
  PROVE  PushInv'
<1> USE DEF PushInv, PushTypeOK
<1>1. AsyncTypeOK' /\ gerr' \in BOOLEAN /\ lock' \in Pusher \cup {NoLock}
  BY AsyncEndOK DEF AsyncFinish
<1>2. SpoolTypeOK'
  BY <1>1 DEF AsyncFinish, SpoolTypeOK
<1>3. StatusSafe'
  BY StatusStays, GrowsUnchanged DEF AsyncFinish, pgVars
<1> QED
  BY <1>1, <1>2, <1>3, AsyncStep DEF AsyncFinish

LEMMA AsyncLostInv ==
  ASSUME PushInv, NEW a \in Async, NEW s \in Seg, AsyncLost(a, s)
  PROVE  PushInv'
<1> USE DEF PushInv, PushTypeOK
<1>1. AsyncTypeOK' /\ gerr' \in BOOLEAN /\ lock' \in Pusher \cup {NoLock}
  BY AsyncEndOK DEF AsyncLost
<1>2. faults' \in Nat
  BY FaultsLeft DEF AsyncLost
<1>3. PgTypeOK' /\ SpoolTypeOK' /\ ArchiveTypeOK' /\ Grows
  BY <1>1, <1>2 DEF AsyncLost, PgTypeOK, SpoolTypeOK, ArchiveTypeOK, Grows, pgVars
<1>4. StatusSafe' /\ FgTypeOK' /\ FgSafe'
  BY <1>3, StatusStays, FgStays DEF AsyncLost, pgVars
<1>5. JobTypeOK' /\ JobSafe'
  BY <1>3, NoJobOK, JobAssign DEF AsyncLost, Pusher
<1> QED
  BY <1>1, <1>3, <1>4, <1>5

LEMMA AsyncCrashInv ==
  ASSUME PushInv, NEW a \in Async, AsyncCrash(a)
  PROVE  PushInv'
<1> USE DEF PushInv, PushTypeOK
<1>1. AsyncTypeOK'
  BY AsyncNoneOK DEF AsyncCrash, AsyncTypeOK
<1>2. faults' \in Nat
  BY FaultsLeft DEF AsyncCrash
<1>3. SpoolTypeOK'
  BY <1>2 DEF AsyncCrash, SpoolTypeOK, spool
<1>4. StatusSafe'
  BY StatusStays, GrowsUnchanged DEF AsyncCrash, pgVars, spool
<1> QED
  BY <1>1, <1>3, <1>4, AsyncStep DEF AsyncCrash, spool

LEMMA WorkerExitInv ==
  ASSUME PushInv, NEW a \in Async, NEW s \in Seg, WorkerExit(a, s)
  PROVE  PushInv'
<1>1. faults' \in Nat /\ ArchiveTypeOK' /\ Grows
  BY DEF WorkerExit, PushInv, PushTypeOK, SpoolTypeOK, ArchiveTypeOK, Grows
<1> QED
  BY <1>1, NoJobOK, JobStep DEF WorkerExit, Pusher

-----------------------------------------------------------------------------
(* The foreground process in synchronous mode *)

LEMMA SyncPushInv ==
  ASSUME PushInv, SyncPush
  PROVE  PushInv'
<1> USE DEF PushInv, PushTypeOK
<1>1. PgTypeOK' /\ AsyncTypeOK' /\ ArchiveTypeOK' /\ Grows
  BY OthersUnchanged DEF SyncPush
<1>2. PICK s \in Seg : s = fg.seg
  BY DEF SyncPush, FgSafe
<1>3. CASE /\ dropped' = dropped \cup {s} /\ fg' = [fg EXCEPT !.pc = "success"]
           /\ UNCHANGED <<job, faults>>
  <2>1. SpoolTypeOK'
    BY <1>3 DEF SyncPush, SpoolTypeOK
  <2>2. StatusSafe'
    BY <1>1, <1>3, StatusStays DEF SyncPush, pgVars
  <2>3. FgTypeOK' /\ fg'.seg = s
    BY <1>2, <1>3 DEF FgTypeOK
  <2>4. FgSafe'
    BY <1>3, <2>3 DEF FgSafe, Safe
  <2>5. JobTypeOK' /\ JobSafe'
    BY <1>1, <1>3, JobsUnchanged
  <2> QED
    BY <1>1, <2>1, <2>2, <2>3, <2>4, <2>5
<1>4. ASSUME NEW valid \in SUBSET Repo, CheckedRepos(valid),
             job' = [job EXCEPT ![FG][s] = JobNew(valid)],
             fg' = [fg EXCEPT !.pc = "push"], UNCHANGED dropped
      PROVE  PushInv'
  <2>1. faults' \in Nat
    BY <1>4, FaultsLeft DEF CheckedRepos
  <2>2. SpoolTypeOK'
    BY <1>4, <2>1 DEF SyncPush, SpoolTypeOK
  <2>3. StatusSafe'
    BY <1>1, <1>4, StatusStays DEF SyncPush, pgVars
  <2>4. FgTypeOK' /\ fg'.seg = fg.seg /\ fg'.pc # "success"
    BY <1>4 DEF FgTypeOK
  <2>5. FgSafe'
    BY <2>4, FgGoesOn DEF SyncPush
  <2>6. JobTypeOK' /\ JobSafe'
    BY <1>1, <1>4, JobNewOK, JobAssign DEF Pusher
  <2> QED
    BY <1>1, <2>2, <2>3, <2>4, <2>5, <2>6
<1> QED
  BY <1>2, <1>3, <1>4 DEF SyncPush

LEMMA SyncResultInv ==
  ASSUME PushInv, SyncResult
  PROVE  PushInv'
<1> USE DEF PushInv, PushTypeOK
<1>1. PgTypeOK' /\ AsyncTypeOK' /\ ArchiveTypeOK' /\ Grows
  BY OthersUnchanged DEF SyncResult
<1>2. SpoolTypeOK' /\ StatusSafe'
  BY <1>1, StatusStays DEF SyncResult, SpoolTypeOK, spool, pgVars
<1>3. PICK s \in Seg : s = fg.seg
  BY DEF SyncResult, FgSafe
<1>4. JobTypeOK' /\ JobSafe'
  BY <1>1, <1>3, NoJobOK, JobAssign DEF SyncResult, Pusher
<1>5. FgTypeOK' /\ FgSafe'
  <2>1. CASE job[FG][s].err
    BY <1>3, <2>1, FgIdleOK DEF SyncResult
  <2>2. CASE ~job[FG][s].err
    <3>1. Archived(s)
      BY <1>3, <2>2, DoneJobArchived DEF SyncResult, Pusher
    <3>2. fg' = [fg EXCEPT !.pc = "success"] /\ archive' = archive
      BY <1>3, <2>2 DEF SyncResult
    <3>3. FgTypeOK' /\ fg'.seg = s
      BY <1>3, <3>2 DEF FgTypeOK
    <3> QED
      BY <3>1, <3>2, <3>3 DEF FgSafe, Safe, Archived
  <2> QED
    BY <2>1, <2>2
<1> QED
  BY <1>1, <1>2, <1>4, <1>5

LEMMA FgCrashInv ==
  ASSUME PushInv, FgCrash
  PROVE  PushInv'
<1> USE DEF PushInv, PushTypeOK
<1>1. PgTypeOK' /\ AsyncTypeOK' /\ ArchiveTypeOK' /\ Grows
  BY OthersUnchanged DEF FgCrash
<1>2. faults' \in Nat
  BY FaultsLeft DEF FgCrash
<1>3. SpoolTypeOK' /\ StatusSafe'
  BY <1>1, <1>2, StatusStays DEF FgCrash, SpoolTypeOK, spool, pgVars
<1>4. FgTypeOK' /\ FgSafe'
  BY FgIdleOK DEF FgCrash
<1>5. JobTypeOK'
  BY NoJobOK DEF FgCrash, JobTypeOK
<1>6. ASSUME NEW x \in Pusher, NEW s \in Seg PROVE JobOK(job[x][s], s)'
  <2>1. CASE x = FG
    <3>1. job'[x][s] = NoJob
      BY <2>1 DEF FgCrash, JobTypeOK
    <3> QED
      BY <3>1, NoJobOK DEF JobOK, NoJob
  <2>2. CASE x # FG
    <3>1. PICK j \in JobRec : j = job[x][s] /\ JobOK(j, s)
      BY DEF JobTypeOK, JobSafe
    <3>2. job'[x][s] = j
      BY <2>2, <3>1 DEF FgCrash, JobTypeOK
    <3>3. JobOK(j, s)'
      BY <1>1, <3>1, JobOKStays
    <3> QED
      BY <3>2, <3>3 DEF JobOK, Covered
  <2> QED
    BY <2>1, <2>2
<1> QED
  BY <1>1, <1>3, <1>4, <1>5, <1>6 DEF JobSafe

-----------------------------------------------------------------------------
LEMMA NextPushInv == PushInv /\ [Next]_vars => PushInv'
<1> SUFFICES ASSUME PushInv, [Next]_vars PROVE PushInv'
  OBVIOUS
<1>1. CASE WalSwitch \/ Foreground \/ FgCrash \/ RivalPush
  BY <1>1, WalSwitchInv, FgCrashInv, RivalPushInv, ArchiveCommandInv, AcknowledgeInv,
     StatusExistsInv, StatusContentInv, ForkLockInv, ForkExecInv, WaitInv, SyncPushInv,
     SyncResultInv
  DEF Foreground
<1>2. ASSUME NEW a \in Async, Background(a) \/ AsyncCrash(a) \/ \E s \in Seg : AsyncLost(a, s)
      PROVE  PushInv'
  BY <1>2, AsyncStartInv, ProcessListStatusInv, ProcessListReadyInv, ProcessListRemoveInv, AsyncDropInv,
     AsyncCheckInv, AsyncJobInv, AsyncResultInv, AsyncFinishInv, AsyncCrashInv,
     AsyncLostInv, WorkerExitInv
  DEF Background
<1>3. ASSUME NEW x \in Pusher, NEW s \in Seg, Job(x, s) PROVE PushInv'
  BY <1>3, JobFindInv, JobCopyInv, JobFailInv DEF Job
<1>4. CASE UNCHANGED vars
  <2>1. SpoolTypeOK' /\ FgTypeOK' /\ FgSafe'
    BY <1>4, FgStays, GrowsUnchanged DEF vars, PushInv, PushTypeOK, SpoolTypeOK
  <2> QED
    BY <1>4, <2>1, ForegroundStep DEF vars, pgVars
<1> QED
  BY <1>1, <1>2, <1>3, <1>4 DEF Next

(* The inductive invariant holds in every reachable state.                 *)
THEOREM PushInvariant == Spec => []PushInv
BY InitPushInv, NextPushInv, PTL DEF Spec

(* For any number of segments, repositories, background processes and      *)
(* rival hosts, and whatever outages and crashes: a segment that           *)
(* archive-push acknowledged to PostgreSQL is in all repositories with the *)
(* contents PostgreSQL wrote, unless it was dropped with a warning.        *)
THEOREM PushDoneIsArchived == Spec => []DoneIsArchived
<1>1. PushInv => DoneIsArchived
  BY DEF PushInv, StatusSafe, Safe, DoneIsArchived
<1> QED
  BY <1>1, PushInvariant, PTL

-----------------------------------------------------------------------------
(* Why the ok file stays: a background process lists the ok files before   *)
(* it lists the ready files, so that an ok file it finds without a ready   *)
(* file is of a segment that is done and will not be ready again; and a    *)
(* foreground process asks only for a segment that is ready.               *)
Past == 1 .. wal

Listed(b) ==
  /\ b.okList \subseteq Past /\ b.todo \subseteq Past
  /\ b.pc = "remove" => (b.okList \ b.todo) \cap ready = {}

OkInv ==
  /\ ready \subseteq Past /\ ok \subseteq Past
  /\ fg.pc # "idle" => fg.seg \in ready
  /\ fg.pc = "ok" => fg.seg \in ok
  /\ \A a \in Async : Listed(async[a])
  /\ \A x \in Pusher, s \in Seg : job[x][s].st # "none" => s \in Past

(* A step of the foreground that leaves the spool's ok files alone.        *)
LEMMA OkForeground ==
  ASSUME OkInv, UNCHANGED <<pgVars, ok, async>>,
         fg'.pc # "idle" => fg'.seg \in ready, fg'.pc = "ok" => fg'.seg \in ok,
         \A x \in Pusher, s \in Seg : job'[x][s].st # "none" => s \in Past
  PROVE  OkInv'
<1>1. \A a \in Async : Listed(async[a])'
  BY DEF OkInv, Listed, pgVars, Past
<1> QED
  BY <1>1 DEF OkInv, pgVars, Past

(* A step of background process a, or of its workers.                      *)
LEMMA OkBackground ==
  ASSUME OkInv, NEW a \in Async, UNCHANGED <<pgVars, fg>>,
         \A b \in Async \ {a} : async'[b] = async[b], Listed(async'[a]),
         ok' \subseteq Past, ok \cap ready \subseteq ok',
         \A x \in Pusher, s \in Seg : job'[x][s].st # "none" => s \in Past
  PROVE  OkInv'
<1>1. \A b \in Async : Listed(async[b])'
  BY DEF OkInv, Listed, pgVars, Past
<1> QED
  BY <1>1 DEF OkInv, pgVars, Past

(* What a step does to the progress of one segment it does to no other.    *)
LEMMA JobOther ==
  ASSUME JobTypeOK, NEW x \in Pusher, NEW s \in Seg, NEW v,
         job' = [job EXCEPT ![x][s] = v]
  PROVE  \A y \in Pusher, q \in Seg :
           job'[y][q] = IF y = x /\ q = s THEN v ELSE job[y][q]
BY DEF JobTypeOK

LEMMA OkNext == PushInv /\ OkInv /\ [Next]_vars => OkInv'
<1> SUFFICES ASSUME PushInv, OkInv, [Next]_vars PROVE OkInv'
  OBVIOUS
<1> USE DEF PushInv, PushTypeOK
<1>1. CASE WalSwitch
  <2>1. Past \subseteq Past' /\ wal + 1 \in Past' /\ wal + 1 \notin Past
    BY <1>1 DEF WalSwitch, Past, PgTypeOK
  <2>2. ready' = ready \cup {wal + 1}
        /\ UNCHANGED <<ok, fg, async, job>>
    BY <1>1 DEF WalSwitch, spool
  <2>3. \A a \in Async : Listed(async[a])'
    BY <2>1, <2>2 DEF OkInv, Listed
  <2> QED
    BY <2>1, <2>2, <2>3 DEF OkInv
<1>2. CASE ArchiveCommand
  <2>1. ready # {} /\ ready \in SUBSET Seg /\ UNCHANGED <<pgVars, ok, async, job>>
    BY <1>2 DEF ArchiveCommand, PgTypeOK, spool
  <2>2. First(ready) \in ready
    BY <2>1, FirstSeg
  <2>3. fg'.seg = First(ready) /\ fg'.pc # "ok"
    BY <1>2 DEF ArchiveCommand, FgIdle
  <2> QED
    BY <2>1, <2>2, <2>3, OkForeground DEF OkInv
<1>3. CASE Acknowledge
  <2>1. ready' \subseteq ready /\ fg'.pc = "idle" /\ UNCHANGED <<ok, wal, async, job>>
    BY <1>3 DEF Acknowledge, FgIdle, spool
  <2>2. \A a \in Async : Listed(async[a])'
    BY <2>1 DEF OkInv, Listed, Past
  <2> QED
    BY <2>1, <2>2 DEF OkInv, Past
<1>4. CASE StatusExists \/ StatusContent
  <2>1. UNCHANGED <<pgVars, ok, async, job>> /\ fg.pc # "idle"
    BY <1>4 DEF StatusExists, StatusContent, spool
  <2>2. (fg'.pc # "idle" => fg'.seg = fg.seg) /\ (fg'.pc = "ok" => fg.seg \in ok)
    BY <1>4 DEF StatusExists, StatusContent, GoesOn, FgTypeOK, FgIdle
  <2>3. fg'.pc = "ok" => fg'.seg \in ok
    BY <2>2
  <2> QED
    BY <2>1, <2>2, <2>3, OkForeground DEF OkInv
<1>5. CASE ForkLock \/ WaitMore \/ ArchiveTimeout
  <2>1. UNCHANGED <<pgVars, ok, async, job>> /\ fg.pc # "idle"
    BY <1>5 DEF ForkLock, WaitMore, ArchiveTimeout, spool
  <2>2. (fg'.pc # "idle" => fg'.seg = fg.seg) /\ fg'.pc # "ok"
    <3>1. \/ \E c \in {"fork", "wait"} : fg' = [fg EXCEPT !.pc = c]
          \/ fg' = [fg EXCEPT !.pc = "poll", !.throw = TRUE]
          \/ fg' = FgIdle
      BY <1>5 DEF ForkLock, WaitMore, ArchiveTimeout
    <3>2. CASE fg' = FgIdle
      BY <3>2 DEF FgIdle
    <3>3. ASSUME NEW c \in {"fork", "wait"}, fg' = [fg EXCEPT !.pc = c]
          PROVE  fg'.seg = fg.seg /\ fg'.pc # "ok"
      BY <3>3 DEF FgTypeOK
    <3>4. CASE fg' = [fg EXCEPT !.pc = "poll", !.throw = TRUE]
      BY <3>4 DEF FgTypeOK
    <3> QED
      BY <3>1, <3>2, <3>3, <3>4
  <2> QED
    BY <2>1, <2>2, OkForeground DEF OkInv
<1>6. CASE ForkExec
  <2>1. UNCHANGED <<pgVars, ok, job>> /\ fg.pc # "idle" /\ fg'.pc = "wait" /\ fg'.seg = fg.seg
    BY <1>6 DEF ForkExec, FgTypeOK, spool
  <2>2. PICK a \in Async : async' = [async EXCEPT ![a] = [AsyncNone EXCEPT !.pc = "start"]]
    BY <1>6 DEF ForkExec
  <2>3. Listed([AsyncNone EXCEPT !.pc = "start"])
    BY DEF Listed, AsyncNone
  <2>4. \A b \in Async : Listed(async[b])'
    BY <2>1, <2>2, <2>3 DEF OkInv, AsyncTypeOK, Listed, Past, pgVars
  <2> QED
    BY <2>1, <2>4 DEF OkInv, Past, pgVars
<1>7. CASE SyncPush \/ SyncResult \/ FgCrash
  <2>1. UNCHANGED <<pgVars, ok, async>> /\ fg.pc # "idle"
    BY <1>7 DEF SyncPush, SyncResult, FgCrash, spool
  <2>2. (fg'.pc # "idle" => fg'.seg = fg.seg) /\ fg'.pc # "ok"
    BY <1>7 DEF SyncPush, SyncResult, FgCrash, FgTypeOK, FgIdle
  <2>3. ASSUME NEW x \in Pusher, NEW s \in Seg, job'[x][s].st # "none" PROVE s \in Past
    <3>1. job[x][s].st # "none" \/ s = fg.seg
      BY <1>7, <2>3 DEF SyncPush, SyncResult, FgCrash, JobTypeOK, NoJob
    <3> QED
      BY <2>1, <3>1 DEF OkInv
  <2> QED
    BY <2>1, <2>2, <2>3, OkForeground DEF OkInv
<1>8. CASE RivalPush \/ UNCHANGED vars
  <2>1. UNCHANGED <<pgVars, ok, async, job, fg>>
    BY <1>8 DEF RivalPush, vars, pgVars, spool
  <2> QED
    BY <2>1, OkForeground DEF OkInv
<1>9. ASSUME NEW a \in Async, Background(a) \/ AsyncCrash(a) \/ \E s \in Seg : AsyncLost(a, s)
      PROVE  OkInv'
  <2> USE <1>9 DEF AsyncTypeOK
  <2>0. Listed(async[a]) /\ Listed(AsyncNone) /\ async[a] \in AsyncRec
    BY DEF OkInv, Listed, AsyncNone
  <2>1. CASE AsyncStart(a) \/ AsyncCheck(a) \/ AsyncFinish(a) \/ AsyncCrash(a) \/ ProcessListStatus(a)
    <3>1. UNCHANGED <<pgVars, fg, ok, job>> /\ \A b \in Async \ {a} : async'[b] = async[b]
      BY <2>1 DEF AsyncStart, AsyncCheck, AsyncFinish, AsyncCrash, ProcessListStatus, AsyncEnd, spool
    <3>2. \/ async'[a] = AsyncNone
          \/ async'[a].pc # "remove" /\ async'[a].todo = async[a].todo
             /\ async'[a].okList \in {async[a].okList, ok}
      BY <2>0, <2>1 DEF AsyncStart, AsyncCheck, AsyncFinish, AsyncCrash, ProcessListStatus, AsyncEnd, AsyncRec
    <3>3. Listed(async'[a])
      BY <2>0, <3>2 DEF Listed, OkInv
    <3> QED
      BY <3>1, <3>3, OkBackground DEF OkInv
  <2>2. CASE ProcessListReady(a)
    <3>1. UNCHANGED <<pgVars, fg, ok, job>> /\ \A b \in Async \ {a} : async'[b] = async[b]
      BY <2>2 DEF ProcessListReady, spool
    <3>2. async'[a].todo = ready /\ async'[a].okList = async[a].okList
      BY <2>0, <2>2 DEF ProcessListReady, AsyncRec
    <3>3. Listed(async'[a])
      BY <2>0, <3>2 DEF Listed, OkInv
    <3> QED
      BY <3>1, <3>3, OkBackground DEF OkInv
  <2>3. CASE ProcessListRemove(a)
    <3> DEFINE remove == async[a].okList \ async[a].todo
    <3>1. UNCHANGED <<pgVars, fg, job>> /\ (\A b \in Async \ {a} : async'[b] = async[b])
          /\ async[a].pc = "remove"
      BY <2>3 DEF ProcessListRemove, AsyncEnd
    <3>2. ok' = ok \/ (remove # {} /\ ok' = ok \ {First(remove)})
      BY <2>3 DEF ProcessListRemove
    <3>3. remove # {} => First(remove) \in remove
      <4>1. remove \in SUBSET Seg
        BY <2>0 DEF AsyncRec
      <4> QED
        BY <4>1, FirstSeg
    <3>4. remove \cap ready = {}
      BY <2>0, <3>1 DEF Listed
    <3>5. Listed(async'[a])
      <4>1. CASE async' = [async EXCEPT ![a] = AsyncNone]
        BY <2>0, <4>1
      <4>2. CASE async' = [async EXCEPT ![a].okList = @ \ {First(remove)}]
        <5>1. /\ async'[a].okList = async[a].okList \ {First(remove)}
              /\ async'[a].todo = async[a].todo
          BY <2>0, <4>2 DEF AsyncRec
        <5> QED
          BY <2>0, <3>1, <5>1 DEF Listed
      <4>3. CASE async' = [async EXCEPT
                   ![a].pc = IF Cardinality(async[a].todo \ async[a].okList) > QueueMax
                             THEN "drop" ELSE "check",
                   ![a].todo = async[a].todo \ async[a].okList]
        <5>1. /\ async'[a].todo \subseteq async[a].todo /\ async'[a].pc # "remove"
              /\ async'[a].okList = async[a].okList
          BY <2>0, <4>3 DEF AsyncRec
        <5> QED
          BY <2>0, <5>1 DEF Listed
      <4> QED
        BY <2>3, <4>1, <4>2, <4>3 DEF ProcessListRemove, AsyncEnd
    <3>6. ok' \subseteq Past /\ ok \cap ready \subseteq ok'
      BY <3>2, <3>3, <3>4 DEF OkInv
    <3> QED
      BY <3>1, <3>5, <3>6, OkBackground DEF OkInv
  <2>4. CASE AsyncDrop(a) \/ AsyncJob(a)
    <3>1. UNCHANGED <<pgVars, fg>> /\ (\A b \in Async \ {a} : async'[b] = async[b]) /\ ok \subseteq ok'
      BY <2>4 DEF AsyncDrop, AsyncJob, AsyncEnd, spool
    <3>2. async[a].todo # {} => First(async[a].todo) \in async[a].todo
      <4>1. async[a].todo \in SUBSET Seg
        BY <2>0 DEF AsyncRec
      <4> QED
        BY <4>1, FirstSeg
    <3>3. \/ async'[a] = AsyncNone
          \/ async'[a].pc # "remove" /\ async'[a].todo \subseteq async[a].todo
             /\ async'[a].okList = async[a].okList
      BY <2>0, <2>4 DEF AsyncDrop, AsyncJob, AsyncEnd, AsyncRec
    <3>4. Listed(async'[a])
      BY <2>0, <3>3 DEF Listed
    <3>5. ok' \subseteq Past
      BY <2>0, <2>4, <3>2 DEF AsyncDrop, AsyncJob, AsyncEnd, OkInv, Listed, spool
    <3>6. ASSUME NEW x \in Pusher, NEW s \in Seg, job'[x][s].st # "none" PROVE s \in Past
      <4>1. job[x][s].st # "none" \/ s \in async[a].todo
        <5>1. CASE AsyncDrop(a)
          BY <3>6, <5>1 DEF AsyncDrop
        <5>2. CASE AsyncJob(a)
          BY <3>2, <3>6, <5>2, JobOther DEF AsyncJob, Pusher
        <5> QED
          BY <2>4, <5>1, <5>2
      <4> QED
        BY <2>0, <4>1 DEF OkInv, Listed
    <3> QED
      BY <3>1, <3>4, <3>5, <3>6, OkBackground
  <2>5. ASSUME NEW s \in Seg, AsyncResult(a, s) \/ WorkerExit(a, s) \/ AsyncLost(a, s) PROVE OkInv'
    <3>1. /\ UNCHANGED <<pgVars, fg>> /\ \A b \in Async \ {a} : async'[b] = async[b]
          /\ async'[a] \in {async[a], AsyncNone}
          /\ ok \subseteq ok' /\ ok' \subseteq ok \cup {s} /\ job[a][s].st # "none"
      BY <2>5 DEF AsyncResult, WorkerExit, AsyncLost, AsyncEnd, spool
    <3>2. a \in Pusher
      BY DEF Pusher
    <3>3. ok' \subseteq Past /\ Listed(async'[a])
      BY <2>0, <3>1, <3>2 DEF OkInv
    <3>4. ASSUME NEW x \in Pusher, NEW q \in Seg, job'[x][q].st # "none" PROVE q \in Past
      <4>1. job[x][q].st # "none"
        <5>1. job' = [job EXCEPT ![a][s] = NoJob]
          BY <2>5 DEF AsyncResult, WorkerExit, AsyncLost
        <5>2. \/ x = a /\ q = s /\ job'[x][q] = NoJob
              \/ job'[x][q] = job[x][q]
          BY <3>2, <5>1, JobOther
        <5> QED
          BY <3>4, <5>2 DEF NoJob
      <4> QED
        BY <4>1 DEF OkInv
    <3> QED
      BY <3>1, <3>3, <3>4, OkBackground
  <2> QED
    BY <2>1, <2>2, <2>3, <2>4, <2>5 DEF Background
<1>10. ASSUME NEW x \in Pusher, NEW s \in Seg, Job(x, s) PROVE OkInv'
  <2>1. UNCHANGED <<pgVars, ok, async, fg>> /\ job[x][s].st # "none"
    BY <1>10 DEF Job, JobFind, JobCopy, JobFail, spool
  <2>2. \A y \in Pusher, q \in Seg : ~(y = x /\ q = s) => job'[y][q] = job[y][q]
    <3>1. \E v : job' = [job EXCEPT ![x][s] = v]
      BY <1>10 DEF Job, JobFind, JobCopy, JobFail
    <3> QED
      BY <3>1, JobOther
  <2> QED
    BY <2>1, <2>2, OkForeground DEF OkInv
<1> QED
  BY <1>1, <1>2, <1>3, <1>4, <1>5, <1>6, <1>7, <1>8, <1>9, <1>10 DEF Next, Foreground

(* OkStaysForReader: an ok file that archiveAsyncStatus() found is there   *)
(* when it is read, for any number of segments, background processes,      *)
(* outages and crashes, although archivePushProcessList() removes ok files *)
(* by lists that are old by then.                                          *)
THEOREM PushOkStaysForReader == Spec => []OkStaysForReader
<1>1. Init => OkInv
  BY DEF Init, OkInv, Listed, AsyncNone, NoJob, FgIdle, Past
<1>2. OkInv => OkStaysForReader
  BY DEF OkInv, OkStaysForReader
<1> QED
  BY <1>1, <1>2, OkNext, PushInvariant, PTL DEF Spec

-----------------------------------------------------------------------------
(* The backup from a standby.                                              *)
Record == [tl : Nat, ckpt : BOOLEAN]
Prefix(v, w) == Len(v) <= Len(w) /\ \A i \in 1..Len(v) : v[i] = w[i]

IsPrimary(c) == cluster[c].role = "primary"
IsStandby(c) == cluster[c].role = "standby"

ClusterRecord(N) == [role : {"primary", "standby"}, up : BOOLEAN, wal : Seq(Record), tl : Nat,
                     checkpoint : Nat, upstream : N, incarnation : Nat]
ClusterTypeOK ==
    1 \in Stb!Names /\ promotions \in 0..1 /\ cluster \in [Stb!Names -> ClusterRecord(Stb!Names)]

(* The WAL of a cluster ends on the timeline of the cluster, and the       *)
(* checkpoint is one of its records.                                       *)
WalForm ==
    \A c \in Stb!Names :
        LET w == cluster[c].wal
        IN  /\ Len(w) >= 1 /\ w[Len(w)].tl = cluster[c].tl /\ cluster[c].tl <= promotions + 1
            /\ cluster[c].checkpoint \in 1..Len(w) /\ w[cluster[c].checkpoint].ckpt = TRUE

(* Only primaries are followed; one cluster was promoted.                  *)
Roles ==
    /\ IsPrimary(1)
    /\ \A c \in Stb!Names : IsPrimary(cluster[c].upstream)
    /\ \A c \in Stb!Names : IsPrimary(c) /\ c # 1 => promotions = 1
    /\ \A c, d \in Stb!Names : IsPrimary(c) /\ IsPrimary(d) /\ c # 1 /\ d # 1 => c = d

(* A timeline has one writer, and whoever has a record of it has what the  *)
(* writer has up to there.                                                 *)
OneWriter == \A c, d \in Stb!Names : IsPrimary(c) /\ IsPrimary(d) /\ cluster[c].tl = cluster[d].tl => c = d
Writer(q, w, i) ==
    IsPrimary(q) /\ cluster[q].tl = w[i].tl /\ i <= Len(cluster[q].wal) /\ \A j \in 1..i : cluster[q].wal[j] = w[j]
FromWriter ==
    \A c \in Stb!Names : \A i \in 1..Len(cluster[c].wal) : \E q \in Stb!Names : Writer(q, cluster[c].wal, i)

ClusterInv == ClusterTypeOK /\ WalForm /\ Roles /\ OneWriter /\ FromWriter

(* Who has a record of the timeline of primary q since s follows q, and    *)
(* no standby follows another primary that has one.                        *)
Since(c, q, s) == \E i \in 1..Len(cluster[c].wal) : i >= s /\ cluster[c].wal[i].tl = cluster[q].tl
Followed(q, s) ==
    \A c \in Stb!Names : IsStandby(c) =>
        /\ Since(c, q, s) => cluster[c].upstream = q /\ Prefix(cluster[c].wal, cluster[q].wal)
        /\ cluster[c].upstream # q => ~Since(cluster[c].upstream, q, s)

AfterStart == {"ahead", "replay", "checkpoint", "checkpointed", "copy", "ping", "stop", "done"}
BackupRecord(N) ==
    [pc : AfterStart \cup {"get", "start", "failed"}, next : Nat, primary : N \cup {NoCluster}, standby : N \cup {NoCluster},
     control : [N -> [checkpoint : Nat, timeline : Nat]], session : [N -> Nat], start : Nat, copied : Seq(Record)]

(* The primary that was found is one, and up if it is the one it was.      *)
Primary == backup.primary
Source == backup.standby
Same == cluster[Primary].incarnation = backup.session[Primary]
Found ==
    /\ backup \in BackupRecord(Stb!Names)
    /\ Primary # NoCluster =>
           IsPrimary(Primary) /\ backup.session[Primary] <= cluster[Primary].incarnation /\ (Same => cluster[Primary].up)
    /\ backup.pc \notin {"get", "failed"} => Primary # NoCluster /\ Source # NoCluster

(* The backup has started on the timeline of the primary.                  *)
Started ==
    backup.pc \in AfterStart =>
        backup.control[Primary].timeline = cluster[Primary].tl /\ (Same => Followed(Primary, backup.start))

(* What was copied.                                                        *)
Copied ==
    /\ backup.pc \in {"get", "start", "ahead", "replay", "checkpoint", "checkpointed"} => backup.copied = <<>>
    /\ backup.pc = "copy" => cluster[Source].checkpoint >= backup.start /\ Since(Source, Primary, backup.start)
    /\ backup.pc \in {"ping", "stop", "done"} \/ (backup.pc = "copy" /\ backup.copied # <<>>) =>
           Len(backup.copied) >= backup.start - 1
    /\ backup.pc = "copy" /\ IsStandby(Source) /\ Same => Prefix(backup.copied, cluster[Primary].wal)
    /\ backup.pc = "ping" /\ IsStandby(Source) => Prefix(backup.copied, cluster[Primary].wal)
    /\ backup.pc \in {"stop", "done"} => Prefix(backup.copied, cluster[Primary].wal)

BackupInv == Found /\ Started /\ Copied
StandbyInv == part = "standby" => ClusterInv /\ BackupInv

-----------------------------------------------------------------------------
LEMMA PrefixAppend ==
  ASSUME NEW R, NEW w \in Seq(R), NEW x \in R
  PROVE  /\ Append(w, x) \in Seq(R) /\ Len(Append(w, x)) = Len(w) + 1 /\ Append(w, x)[Len(w) + 1] = x
         /\ \A i \in 1..Len(w) : Append(w, x)[i] = w[i]
         /\ \A i \in 1..Len(Append(w, x)) : i \in 1..Len(w) \/ i = Len(w) + 1
         /\ Prefix(w, Append(w, x))
  BY DEF Prefix

LEMMA PrefixTrans ==
  ASSUME NEW R, NEW u \in Seq(R), NEW v \in Seq(R), NEW w \in Seq(R), Prefix(u, v), Prefix(v, w)
  PROVE  Prefix(u, w)
  BY DEF Prefix

LEMMA IsPrefixPointwise ==
  ASSUME NEW R, NEW v \in Seq(R), NEW w \in Seq(R)
  PROVE  Stb!IsPrefix(v, w) <=> Prefix(v, w)
<1>1. Len(v) \in Nat /\ Len(w) \in Nat
  OBVIOUS
<1>2. ASSUME Len(v) <= Len(w) PROVE SubSeq(v, 1, Len(v)) = SubSeq(w, 1, Len(v)) <=> \A i \in 1..Len(v) : v[i] = w[i]
  <2> DEFINE a == SubSeq(v, 1, Len(v))
             b == SubSeq(w, 1, Len(v))
  <2>1. a \in Seq(R) /\ b \in Seq(R) /\ Len(a) = Len(v) /\ Len(b) = Len(v)
    BY <1>1, <1>2
  <2>2. \A i \in 1..Len(v) : a[i] = v[i] /\ b[i] = w[i]
    BY <1>1, <1>2
  <2> HIDE DEF a, b
  <2>3. (\A i \in 1..Len(v) : a[i] = b[i]) => a = b
    BY <2>1
  <2> QED
    BY <2>2, <2>3 DEF a, b
<1> QED
  BY <1>1, <1>2 DEF Prefix, Stb!IsPrefix

(* One cluster changes.                                                    *)
LEMMA OneChanges ==
  ASSUME ClusterTypeOK, NEW c \in Stb!Names, NEW r, cluster' = [cluster EXCEPT ![c] = r]
  PROVE  /\ Stb!Names' = Stb!Names /\ cluster'[c] = r
         /\ \A d \in Stb!Names \ {c} : cluster'[d] = cluster[d]
  BY DEF ClusterTypeOK, Stb!Names

LEMMA OneChangesType ==
  ASSUME ClusterTypeOK, NEW c \in Stb!Names, NEW r \in ClusterRecord(Stb!Names), cluster' = [cluster EXCEPT ![c] = r],
         promotions' \in 0..1
  PROVE  ClusterTypeOK'
  BY OneChanges DEF ClusterTypeOK, ClusterRecord, Stb!Names

LEMMA AppendedFields ==
  ASSUME NEW N, NEW cl \in ClusterRecord(N), NEW ckpt \in BOOLEAN
  PROVE  LET r == Stb!Appended(cl, ckpt)
             x == [tl |-> cl.tl, ckpt |-> ckpt]
         IN  /\ r \in ClusterRecord(N) /\ x \in Record
             /\ r.role = cl.role /\ r.up = cl.up /\ r.tl = cl.tl /\ r.upstream = cl.upstream
             /\ r.incarnation = cl.incarnation /\ r.wal = Append(cl.wal, x)
             /\ r.checkpoint = IF ckpt THEN Len(cl.wal) + 1 ELSE cl.checkpoint
<1> DEFINE x == [tl |-> cl.tl, ckpt |-> ckpt]
           v == Append(cl.wal, x)
           k == IF ckpt THEN Len(v) ELSE cl.checkpoint
           r == [cl EXCEPT !.wal = v, !.checkpoint = k]
<1>1. x \in Record /\ cl.wal \in Seq(Record) /\ cl.checkpoint \in Nat
  BY DEF ClusterRecord, Record
<1>2. v \in Seq(Record) /\ Len(v) = Len(cl.wal) + 1 /\ Len(cl.wal) \in Nat
  <2> HIDE DEF x
  <2> QED
    BY <1>1
<1>3. k \in Nat /\ k = IF ckpt THEN Len(cl.wal) + 1 ELSE cl.checkpoint
  BY <1>1, <1>2
<1>4. Stb!Appended(cl, ckpt) = r
  BY DEF Stb!Appended
<1> HIDE DEF k, v, x
<1>5. /\ r \in ClusterRecord(N) /\ r.role = cl.role /\ r.tl = cl.tl /\ r.upstream = cl.upstream
      /\ r.incarnation = cl.incarnation /\ r.wal = v /\ r.checkpoint = k
  BY <1>2, <1>3 DEF ClusterRecord
<1>6. r.up = cl.up
  BY DEF ClusterRecord
<1> QED
  BY <1>1, <1>3, <1>4, <1>5, <1>6 DEF v, x

(* What ClusterInv says of one cluster.                                    *)
LEMMA ClusterFields ==
  ASSUME ClusterTypeOK, NEW c \in Stb!Names
  PROVE  /\ cluster[c] \in ClusterRecord(Stb!Names) /\ cluster[c].wal \in Seq(Record) /\ Len(cluster[c].wal) \in Nat
         /\ cluster[c].tl \in Nat /\ cluster[c].checkpoint \in Nat /\ cluster[c].upstream \in Stb!Names
         /\ cluster[c].incarnation \in Nat /\ cluster[c].role \in {"primary", "standby"}
  BY DEF ClusterTypeOK, ClusterRecord

LEMMA WalFields ==
  ASSUME ClusterTypeOK, WalForm, NEW c \in Stb!Names
  PROVE  /\ Len(cluster[c].wal) >= 1 /\ cluster[c].wal[Len(cluster[c].wal)].tl = cluster[c].tl
         /\ cluster[c].tl <= promotions + 1
         /\ cluster[c].checkpoint \in 1..Len(cluster[c].wal) /\ cluster[c].wal[cluster[c].checkpoint].ckpt = TRUE
         /\ \A i \in 1..Len(cluster[c].wal) : cluster[c].wal[i] \in Record
<1>1. cluster[c].wal \in Seq(Record)
  BY ClusterFields
<1> QED
  BY <1>1 DEF WalForm

(* A cluster that is a primary then writes a record of its timeline: it is *)
(* the writer of the record.                                               *)
LEMMA Appends ==
  ASSUME ClusterInv, NEW c \in Stb!Names, NEW r \in ClusterRecord(Stb!Names), cluster' = [cluster EXCEPT ![c] = r],
         promotions' \in 0..1, promotions' >= promotions, r.role = "primary",
         NEW x \in Record, r.wal = Append(cluster[c].wal, x), x.tl = r.tl, r.tl <= promotions' + 1,
         IsPrimary(c) => r.tl = cluster[c].tl,
         r.checkpoint \in 1..Len(r.wal), r.wal[r.checkpoint].ckpt = TRUE
  PROVE  ClusterTypeOK' /\ WalForm' /\ FromWriter'
<1> DEFINE w == cluster[c].wal
           v == Append(w, x)
<1>1. ClusterTypeOK /\ WalForm /\ FromWriter /\ promotions \in Nat /\ promotions' \in Nat
  BY DEF ClusterInv, ClusterTypeOK
<1>2. w \in Seq(Record) /\ Len(w) \in Nat /\ Len(w) >= 1
  BY <1>1, ClusterFields, WalFields
<1>3. /\ v \in Seq(Record) /\ Len(v) = Len(w) + 1 /\ v[Len(w) + 1] = x
      /\ \A i \in 1..Len(w) : v[i] = w[i]
      /\ \A i \in 1..Len(v) : i \in 1..Len(w) \/ i = Len(w) + 1
  BY <1>2, PrefixAppend
<1>4. r.wal = v
  OBVIOUS
<1>5. /\ Stb!Names' = Stb!Names /\ cluster'[c] = r
      /\ \A d \in Stb!Names \ {c} : cluster'[d] = cluster[d]
  BY <1>1, OneChanges
<1>6. ClusterTypeOK'
  BY <1>1, OneChangesType
<1>7. r.tl \in Nat /\ cluster[c].tl \in Nat
  BY <1>1, ClusterFields DEF ClusterRecord
<1> HIDE DEF v
<1>8. WalForm'
  <2> SUFFICES ASSUME NEW d \in Stb!Names
               PROVE  /\ Len(cluster'[d].wal) >= 1 /\ cluster'[d].wal[Len(cluster'[d].wal)].tl = cluster'[d].tl
                      /\ cluster'[d].tl <= promotions' + 1
                      /\ cluster'[d].checkpoint \in 1..Len(cluster'[d].wal)
                      /\ cluster'[d].wal[cluster'[d].checkpoint].ckpt = TRUE
    BY <1>5 DEF WalForm
  <2>1. CASE d # c
    <3>1. cluster'[d] = cluster[d]
      BY <1>5, <2>1
    <3>2. cluster[d].tl <= promotions' + 1
      <4>1. cluster[d].tl \in Nat /\ cluster[d].tl <= promotions + 1
        BY <1>1, ClusterFields, WalFields
      <4> QED
        BY <1>1, <4>1
    <3> QED
      BY <1>1, <3>1, <3>2, WalFields
  <2>2. CASE d = c
    BY <1>2, <1>3, <1>4, <1>5, <2>2
  <2> QED
    BY <2>1, <2>2
<1>9. FromWriter'
  <2> SUFFICES ASSUME NEW d \in Stb!Names, NEW i \in 1..Len(cluster'[d].wal)
               PROVE  \E q \in Stb!Names : Writer(q, cluster[d].wal, i)'
    BY <1>5, Zenon DEF FromWriter
  <2>0. ASSUME NEW q \in Stb!Names, cluster'[q].role = "primary", cluster'[q].tl = cluster'[d].wal[i].tl,
               i <= Len(cluster'[q].wal), \A j \in 1..i : cluster'[q].wal[j] = cluster'[d].wal[j]
        PROVE  Writer(q, cluster[d].wal, i)'
    BY <2>0 DEF Writer, IsPrimary
  <2> SUFFICES \E q \in Stb!Names : /\ cluster'[q].role = "primary" /\ cluster'[q].tl = cluster'[d].wal[i].tl
                                    /\ i <= Len(cluster'[q].wal)
                                    /\ \A j \in 1..i : cluster'[q].wal[j] = cluster'[d].wal[j]
    BY <2>0
  <2>1. CASE d = c /\ i = Len(w) + 1
    BY <1>3, <1>4, <1>5, <2>1
  <2>2. CASE i \in 1..Len(cluster[d].wal) /\ \A j \in 1..i : cluster'[d].wal[j] = cluster[d].wal[j]
    <3>1. PICK q \in Stb!Names : /\ cluster[q].role = "primary" /\ cluster[q].tl = cluster[d].wal[i].tl
                                 /\ i <= Len(cluster[q].wal) /\ \A j \in 1..i : cluster[q].wal[j] = cluster[d].wal[j]
      BY <1>1, <2>2 DEF FromWriter, Writer, IsPrimary
    <3>2. i \in 1..i /\ i \in Nat
      BY <2>2
    <3>3. CASE q # c
      <4>1. cluster'[q] = cluster[q]
        BY <1>5, <3>3
      <4>2. cluster'[d].wal[i] = cluster[d].wal[i]
        BY <2>2, <3>2
      <4>3. \A j \in 1..i : cluster'[q].wal[j] = cluster'[d].wal[j]
        BY <2>2, <3>1, <4>1
      <4> QED
        BY <3>1, <4>1, <4>2, <4>3
    <3>4. CASE q = c
      <4>1. \A j \in 1..i : v[j] = w[j]
        BY <1>2, <1>3, <3>1, <3>2, <3>4
      <4>2. r.tl = cluster[c].tl
        BY <3>1, <3>4 DEF IsPrimary
      <4>3. i <= Len(v)
        BY <1>2, <1>3, <3>1, <3>2, <3>4
      <4>4. \A j \in 1..i : cluster'[c].wal[j] = cluster'[d].wal[j]
        BY <1>4, <1>5, <2>2, <3>1, <3>4, <4>1
      <4>5. cluster'[c].tl = cluster'[d].wal[i].tl
        BY <1>5, <2>2, <3>1, <3>2, <3>4, <4>2
      <4> QED
        BY <1>4, <1>5, <4>3, <4>4, <4>5
    <3> QED
      BY <3>3, <3>4
  <2>3. CASE d # c
    BY <1>5, <2>2, <2>3
  <2>4. CASE d = c /\ i \in 1..Len(w)
    <3>1. \A j \in 1..i : v[j] = w[j]
      BY <1>2, <1>3, <2>4
    <3> QED
      BY <1>4, <1>5, <2>2, <2>4, <3>1
  <2> QED
    BY <1>3, <1>4, <1>5, <2>1, <2>3, <2>4
<1> QED
  BY <1>6, <1>8, <1>9

(* A primary writes a record.                                              *)
LEMMA AppendKeeps ==
  ASSUME ClusterInv, NEW c \in Stb!Names, IsPrimary(c), NEW ckpt \in BOOLEAN, UNCHANGED promotions,
         cluster' = [cluster EXCEPT ![c] = Stb!Appended(cluster[c], ckpt)]
  PROVE  /\ ClusterInv' /\ Stb!Names' = Stb!Names
         /\ \A d \in Stb!Names \ {c} : cluster'[d] = cluster[d]
         /\ cluster'[c].role = cluster[c].role /\ cluster'[c].up = cluster[c].up /\ cluster'[c].tl = cluster[c].tl
         /\ cluster'[c].upstream = cluster[c].upstream /\ cluster'[c].incarnation = cluster[c].incarnation
         /\ cluster'[c].checkpoint >= cluster[c].checkpoint
         /\ cluster'[c].wal = Append(cluster[c].wal, [tl |-> cluster[c].tl, ckpt |-> ckpt])
<1> DEFINE w == cluster[c].wal
           x == [tl |-> cluster[c].tl, ckpt |-> ckpt]
           r == Stb!Appended(cluster[c], ckpt)
<1>1. ClusterTypeOK /\ WalForm
  BY DEF ClusterInv
<1>2. /\ r \in ClusterRecord(Stb!Names) /\ x \in Record
      /\ r.role = cluster[c].role /\ r.up = cluster[c].up /\ r.tl = cluster[c].tl /\ r.upstream = cluster[c].upstream
      /\ r.incarnation = cluster[c].incarnation /\ r.wal = Append(w, x)
      /\ r.checkpoint = IF ckpt THEN Len(w) + 1 ELSE cluster[c].checkpoint
  BY <1>1, ClusterFields, AppendedFields
<1>3. x.tl = cluster[c].tl /\ x.ckpt = ckpt
  OBVIOUS
<1> HIDE DEF r, x
<1>4. /\ w \in Seq(Record) /\ Len(w) \in Nat /\ Len(w) >= 1 /\ cluster[c].checkpoint \in 1..Len(w)
      /\ w[cluster[c].checkpoint].ckpt = TRUE /\ cluster[c].tl <= promotions + 1 /\ cluster[c].tl \in Nat
  BY <1>1, ClusterFields, WalFields
<1>5. /\ Len(r.wal) = Len(w) + 1 /\ r.wal[Len(w) + 1] = x /\ \A i \in 1..Len(w) : r.wal[i] = w[i]
  BY <1>2, <1>4, PrefixAppend
<1>6. r.checkpoint \in 1..Len(r.wal) /\ r.checkpoint >= cluster[c].checkpoint
  BY <1>2, <1>4, <1>5
<1>7. r.wal[r.checkpoint].ckpt = TRUE
  <2>1. CASE ckpt = TRUE
    BY <1>2, <1>3, <1>5, <2>1
  <2>2. CASE ckpt = FALSE
    BY <1>2, <1>4, <1>5, <2>2
  <2> QED
    BY <2>1, <2>2
<1>8. cluster' = [cluster EXCEPT ![c] = r]
  BY DEF r
<1>9. promotions' \in 0..1 /\ promotions' >= promotions /\ r.role = "primary" /\ r.tl <= promotions' + 1
  BY <1>1, <1>2, <1>4 DEF ClusterTypeOK, IsPrimary
<1>10. ClusterTypeOK' /\ WalForm' /\ FromWriter'
  <2>1. x.tl = r.tl /\ (IsPrimary(c) => r.tl = cluster[c].tl) /\ r.wal = Append(cluster[c].wal, x)
    BY <1>2, <1>3
  <2>2. r \in ClusterRecord(Stb!Names) /\ x \in Record
    BY <1>2
  <2> HIDE DEF w
  <2> QED
    BY <1>6, <1>7, <1>8, <1>9, <2>1, <2>2, Appends
<1>11. /\ Stb!Names' = Stb!Names /\ cluster'[c] = r
       /\ \A d \in Stb!Names \ {c} : cluster'[d] = cluster[d]
  BY <1>1, <1>8, OneChanges
<1>12. \A d \in Stb!Names : /\ cluster'[d].role = cluster[d].role /\ cluster'[d].tl = cluster[d].tl
                            /\ cluster'[d].upstream = cluster[d].upstream /\ cluster[d].upstream \in Stb!Names
  <2> SUFFICES ASSUME NEW d \in Stb!Names
               PROVE  /\ cluster'[d].role = cluster[d].role /\ cluster'[d].tl = cluster[d].tl
                      /\ cluster'[d].upstream = cluster[d].upstream /\ cluster[d].upstream \in Stb!Names
    OBVIOUS
  <2>1. cluster[d].upstream \in Stb!Names
    BY <1>1, ClusterFields
  <2> QED
    BY <1>2, <1>11, <2>1
<1>13. Roles' /\ OneWriter'
  <2>1. Roles'
    <3>1. 1 \in Stb!Names
      BY <1>1 DEF ClusterTypeOK
    <3>2. cluster'[1].role = "primary"
      BY <1>12, <3>1 DEF ClusterInv, Roles, IsPrimary
    <3>3. \A d \in Stb!Names : cluster'[cluster'[d].upstream].role = "primary"
      BY <1>12 DEF ClusterInv, Roles, IsPrimary
    <3>4. \A d \in Stb!Names : cluster'[d].role = "primary" /\ d # 1 => promotions' = 1
      BY <1>12 DEF ClusterInv, Roles, IsPrimary
    <3>5. \A d, e \in Stb!Names : cluster'[d].role = "primary" /\ cluster'[e].role = "primary" /\ d # 1 /\ e # 1 => d = e
      BY <1>12 DEF ClusterInv, Roles, IsPrimary
    <3> QED
      BY <1>11, <3>2, <3>3, <3>4, <3>5 DEF Roles, IsPrimary
  <2>2. OneWriter'
    BY <1>11, <1>12 DEF ClusterInv, OneWriter, IsPrimary
  <2> QED
    BY <2>1, <2>2
<1>14. ClusterInv'
  BY <1>10, <1>13 DEF ClusterInv
<1> QED
  BY <1>2, <1>6, <1>11, <1>14 DEF x

-----------------------------------------------------------------------------
(* What a step of the clusters leaves: a primary stays one on its timeline, *)
(* WAL is only added to, and who is up goes down with a new incarnation.   *)
WalGrows ==
    /\ Stb!Names' = Stb!Names
    /\ \A c \in Stb!Names :
          /\ IsPrimary(c) => cluster'[c].role = "primary" /\ cluster'[c].tl = cluster[c].tl
          /\ cluster'[c].role = "standby" => IsStandby(c)
          /\ Prefix(cluster[c].wal, cluster'[c].wal)
          /\ cluster'[c].checkpoint >= cluster[c].checkpoint
          /\ cluster'[c].incarnation >= cluster[c].incarnation
          /\ cluster'[c].incarnation = cluster[c].incarnation /\ cluster[c].up => cluster'[c].up
FollowStays ==
    \A q \in Stb!Names, s \in Nat : IsPrimary(q) /\ cluster[q].up /\ Followed(q, s) => Followed(q, s)'

LEMMA FollowSame ==
  ASSUME ClusterInv, Stb!Names' = Stb!Names, NEW q \in Stb!Names, IsPrimary(q), NEW s \in Nat, Followed(q, s),
         \A d \in Stb!Names : IsPrimary(d) => cluster'[d].tl = cluster[d].tl /\ cluster'[d].wal = cluster[d].wal,
         \A d \in Stb!Names : cluster'[d].role = "standby" =>
             IsStandby(d) /\ cluster'[d].wal = cluster[d].wal /\ cluster'[d].upstream = cluster[d].upstream
  PROVE  Followed(q, s)'
<1> SUFFICES ASSUME NEW c \in Stb!Names, cluster'[c].role = "standby"
             PROVE  /\ Since(c, q, s)' => cluster'[c].upstream = q /\ Prefix(cluster'[c].wal, cluster'[q].wal)
                    /\ cluster'[c].upstream # q => ~Since(cluster[c].upstream, q, s)'
  BY DEF Followed, IsStandby
<1>1. cluster[c].upstream \in Stb!Names /\ IsPrimary(cluster[c].upstream)
  BY ClusterFields DEF ClusterInv, Roles
<1>2. Since(c, q, s)' <=> Since(c, q, s)
  BY DEF Since
<1>3. Since(cluster[c].upstream, q, s)' <=> Since(cluster[c].upstream, q, s)
  BY <1>1 DEF Since
<1> QED
  BY <1>2, <1>3 DEF Followed

(* A primary writes a record or makes a checkpoint.                        *)
LEMMA WriteStep ==
  ASSUME ClusterInv, NEW c \in Stb!Names, IsPrimary(c), NEW ckpt \in BOOLEAN, UNCHANGED promotions,
         cluster' = [cluster EXCEPT ![c] = Stb!Appended(cluster[c], ckpt)]
  PROVE  ClusterInv' /\ WalGrows /\ FollowStays
<1> DEFINE x == [tl |-> cluster[c].tl, ckpt |-> ckpt]
<1>1. /\ ClusterInv' /\ Stb!Names' = Stb!Names
      /\ \A d \in Stb!Names \ {c} : cluster'[d] = cluster[d]
      /\ cluster'[c].role = cluster[c].role /\ cluster'[c].up = cluster[c].up /\ cluster'[c].tl = cluster[c].tl
      /\ cluster'[c].upstream = cluster[c].upstream /\ cluster'[c].incarnation = cluster[c].incarnation
      /\ cluster'[c].checkpoint >= cluster[c].checkpoint
      /\ cluster'[c].wal = Append(cluster[c].wal, x)
  BY AppendKeeps
<1>2. \A d \in Stb!Names : /\ cluster[d].wal \in Seq(Record) /\ Len(cluster[d].wal) \in Nat
                           /\ cluster[d].checkpoint \in Nat /\ cluster[d].incarnation \in Nat
  BY ClusterFields DEF ClusterInv
<1>3. x \in Record /\ x.tl = cluster[c].tl
  BY ClusterFields DEF ClusterInv, Record
<1> HIDE DEF x
<1>4. /\ Len(cluster'[c].wal) = Len(cluster[c].wal) + 1 /\ cluster'[c].wal[Len(cluster[c].wal) + 1] = x
      /\ \A i \in 1..Len(cluster[c].wal) : cluster'[c].wal[i] = cluster[c].wal[i]
      /\ \A i \in 1..Len(cluster'[c].wal) : i \in 1..Len(cluster[c].wal) \/ i = Len(cluster[c].wal) + 1
      /\ Prefix(cluster[c].wal, cluster'[c].wal) /\ cluster'[c].wal \in Seq(Record)
  <2> DEFINE w == cluster[c].wal
             v == Append(w, x)
  <2>1. /\ v \in Seq(Record) /\ Len(v) = Len(w) + 1 /\ v[Len(w) + 1] = x
        /\ \A i \in 1..Len(w) : v[i] = w[i]
        /\ \A i \in 1..Len(v) : i \in 1..Len(w) \/ i = Len(w) + 1
        /\ Prefix(w, v)
    BY <1>2, <1>3, PrefixAppend
  <2>2. cluster'[c].wal = v
    BY <1>1
  <2> HIDE DEF v
  <2> QED
    BY <2>1, <2>2
<1>5. WalGrows
  <2> SUFFICES ASSUME NEW d \in Stb!Names
               PROVE  /\ IsPrimary(d) => cluster'[d].role = "primary" /\ cluster'[d].tl = cluster[d].tl
                      /\ cluster'[d].role = "standby" => IsStandby(d)
                      /\ Prefix(cluster[d].wal, cluster'[d].wal)
                      /\ cluster'[d].checkpoint >= cluster[d].checkpoint
                      /\ cluster'[d].incarnation >= cluster[d].incarnation
                      /\ cluster'[d].incarnation = cluster[d].incarnation /\ cluster[d].up => cluster'[d].up
    BY <1>1 DEF WalGrows
  <2>1. CASE d = c
    BY <1>1, <1>2, <1>4, <2>1 DEF IsPrimary, IsStandby
  <2>2. CASE d # c
    BY <1>1, <1>2, <2>2 DEF IsPrimary, IsStandby, Prefix
  <2> QED
    BY <2>1, <2>2
<1>6. FollowStays
  <2> SUFFICES ASSUME NEW q \in Stb!Names, NEW s \in Nat, IsPrimary(q), Followed(q, s),
                      NEW d \in Stb!Names, cluster'[d].role = "standby"
               PROVE  /\ Since(d, q, s)' => cluster'[d].upstream = q /\ Prefix(cluster'[d].wal, cluster'[q].wal)
                      /\ cluster'[d].upstream # q => ~Since(cluster[d].upstream, q, s)'
    BY <1>1 DEF FollowStays, Followed, IsStandby
  <2>1. d # c /\ cluster'[d] = cluster[d] /\ IsStandby(d)
    BY <1>1 DEF IsPrimary, IsStandby
  <2>2. cluster'[q].tl = cluster[q].tl /\ Prefix(cluster[q].wal, cluster'[q].wal) /\ cluster'[q].wal \in Seq(Record)
    <3>1. CASE q = c
      BY <1>1, <1>4, <3>1
    <3>2. CASE q # c
      BY <1>1, <1>2, <3>2 DEF Prefix
    <3> QED
      BY <3>1, <3>2
  <2>3. Since(d, q, s)' <=> Since(d, q, s)
    BY <2>1, <2>2 DEF Since
  <2>4. Since(d, q, s)' => cluster'[d].upstream = q /\ Prefix(cluster'[d].wal, cluster'[q].wal)
    BY <1>2, <2>1, <2>2, <2>3, PrefixTrans DEF Followed
  <2>5. ASSUME cluster[d].upstream # q, Since(cluster[d].upstream, q, s)' PROVE FALSE
    <3>1. PICK u \in Stb!Names : u = cluster[d].upstream
      BY ClusterFields DEF ClusterInv
    <3>2. ~Since(u, q, s)
      BY <2>1, <2>5, <3>1 DEF Followed
    <3>3. u # q /\ Since(u, q, s)'
      BY <2>1, <2>5, <3>1 DEF Since
    <3>4. u = c
      BY <1>1, <2>2, <3>1, <3>2, <3>3 DEF Since
    <3>5. PICK i \in 1..Len(cluster'[u].wal) : i >= s /\ cluster'[u].wal[i].tl = cluster[q].tl
      BY <2>2, <3>3 DEF Since
    <3>6. i = Len(cluster[c].wal) + 1
      BY <1>4, <3>2, <3>4, <3>5 DEF Since
    <3>7. cluster[q].tl = cluster[c].tl
      BY <1>3, <1>4, <3>4, <3>5, <3>6
    <3> QED
      BY <3>3, <3>4, <3>7 DEF ClusterInv, OneWriter
  <2> QED
    BY <2>1, <2>4, <2>5
<1> QED
  BY <1>1, <1>5, <1>6

(* A step that adds no WAL.                                                *)
LEMMA Quiet ==
  ASSUME ClusterInv, NEW c \in Stb!Names, NEW r \in ClusterRecord(Stb!Names), cluster' = [cluster EXCEPT ![c] = r],
         UNCHANGED promotions, r.role = cluster[c].role, r.wal = cluster[c].wal, r.tl = cluster[c].tl,
         IsPrimary(r.upstream),
         r.checkpoint \in 1..Len(r.wal), r.wal[r.checkpoint].ckpt = TRUE, r.checkpoint >= cluster[c].checkpoint,
         r.incarnation >= cluster[c].incarnation,
         r.incarnation = cluster[c].incarnation /\ cluster[c].up => r.up
  PROVE  ClusterInv' /\ WalGrows /\ (r.upstream = cluster[c].upstream => FollowStays)
<1>1. ClusterTypeOK /\ WalForm /\ Roles /\ OneWriter /\ FromWriter /\ 1 \in Stb!Names /\ promotions' \in 0..1
  BY DEF ClusterInv, ClusterTypeOK
<1>2. /\ Stb!Names' = Stb!Names /\ cluster'[c] = r
      /\ \A d \in Stb!Names \ {c} : cluster'[d] = cluster[d]
  BY <1>1, OneChanges
<1>3. \A d \in Stb!Names : /\ cluster'[d].role = cluster[d].role /\ cluster'[d].wal = cluster[d].wal
                           /\ cluster'[d].tl = cluster[d].tl
  BY <1>2
<1>4. ClusterTypeOK'
  BY <1>1, OneChangesType
<1>5. WalForm'
  <2> SUFFICES ASSUME NEW d \in Stb!Names
               PROVE  /\ Len(cluster'[d].wal) >= 1 /\ cluster'[d].wal[Len(cluster'[d].wal)].tl = cluster'[d].tl
                      /\ cluster'[d].tl <= promotions' + 1
                      /\ cluster'[d].checkpoint \in 1..Len(cluster'[d].wal)
                      /\ cluster'[d].wal[cluster'[d].checkpoint].ckpt = TRUE
    BY <1>2 DEF WalForm
  <2>1. /\ Len(cluster[d].wal) >= 1 /\ cluster[d].wal[Len(cluster[d].wal)].tl = cluster[d].tl
        /\ cluster[d].tl <= promotions + 1
        /\ cluster[d].checkpoint \in 1..Len(cluster[d].wal) /\ cluster[d].wal[cluster[d].checkpoint].ckpt = TRUE
    BY <1>1, WalFields
  <2>2. CASE d = c
    BY <1>2, <1>3, <2>1, <2>2
  <2>3. CASE d # c
    BY <1>2, <2>1, <2>3
  <2> QED
    BY <2>2, <2>3
<1>6. Roles'
  <2>1. cluster'[1].role = "primary"
    BY <1>1, <1>3 DEF Roles, IsPrimary
  <2>2. \A d \in Stb!Names : cluster'[cluster'[d].upstream].role = "primary"
    <3> SUFFICES ASSUME NEW d \in Stb!Names PROVE cluster'[cluster'[d].upstream].role = "primary"
      OBVIOUS
    <3>1. r.upstream \in Stb!Names /\ cluster[d].upstream \in Stb!Names
      BY <1>1, ClusterFields DEF ClusterRecord
    <3>2. cluster'[d].upstream \in Stb!Names /\ cluster[cluster'[d].upstream].role = "primary"
      BY <1>1, <1>2, <3>1 DEF Roles, IsPrimary
    <3> QED
      BY <1>3, <3>2
  <2>3. \A d \in Stb!Names : cluster'[d].role = "primary" /\ d # 1 => promotions' = 1
    BY <1>1, <1>3 DEF Roles, IsPrimary
  <2>4. \A d, e \in Stb!Names : cluster'[d].role = "primary" /\ cluster'[e].role = "primary" /\ d # 1 /\ e # 1 => d = e
    BY <1>1, <1>3 DEF Roles, IsPrimary
  <2> QED
    BY <1>2, <2>1, <2>2, <2>3, <2>4 DEF Roles, IsPrimary
<1>7. OneWriter'
  BY <1>1, <1>2, <1>3 DEF OneWriter, IsPrimary
<1>8. FromWriter'
  <2> SUFFICES ASSUME NEW d \in Stb!Names, NEW i \in 1..Len(cluster[d].wal)
               PROVE  \E q \in Stb!Names : Writer(q, cluster[d].wal, i)'
    BY <1>2, <1>3, Zenon DEF FromWriter
  <2>1. PICK q \in Stb!Names : Writer(q, cluster[d].wal, i)
    BY <1>1 DEF FromWriter
  <2>2. Writer(q, cluster[d].wal, i)'
    BY <1>3, <2>1 DEF Writer, IsPrimary
  <2> QED
    BY <2>2
<1>9. WalGrows
  <2> SUFFICES ASSUME NEW d \in Stb!Names
               PROVE  /\ IsPrimary(d) => cluster'[d].role = "primary" /\ cluster'[d].tl = cluster[d].tl
                      /\ cluster'[d].role = "standby" => IsStandby(d)
                      /\ Prefix(cluster[d].wal, cluster'[d].wal)
                      /\ cluster'[d].checkpoint >= cluster[d].checkpoint
                      /\ cluster'[d].incarnation >= cluster[d].incarnation
                      /\ cluster'[d].incarnation = cluster[d].incarnation /\ cluster[d].up => cluster'[d].up
    BY <1>2 DEF WalGrows
  <2>1. Len(cluster[d].wal) \in Nat /\ cluster[d].checkpoint \in Nat /\ cluster[d].incarnation \in Nat
    BY <1>1, ClusterFields
  <2>2. CASE d = c
    BY <1>2, <1>3, <2>1, <2>2 DEF IsPrimary, IsStandby, Prefix
  <2>3. CASE d # c
    BY <1>2, <2>1, <2>3 DEF IsPrimary, IsStandby, Prefix
  <2> QED
    BY <2>2, <2>3
<1>10. ASSUME r.upstream = cluster[c].upstream PROVE FollowStays
  <2>1. \A d \in Stb!Names : IsPrimary(d) => cluster'[d].tl = cluster[d].tl /\ cluster'[d].wal = cluster[d].wal
    BY <1>3
  <2>2. \A d \in Stb!Names : cluster'[d].role = "standby" =>
             IsStandby(d) /\ cluster'[d].wal = cluster[d].wal /\ cluster'[d].upstream = cluster[d].upstream
    BY <1>2, <1>3, <1>10 DEF IsStandby
  <2> QED
    BY <1>2, <2>1, <2>2, FollowSame DEF FollowStays
<1> QED
  BY <1>1, <1>4, <1>5, <1>6, <1>7, <1>8, <1>9, <1>10 DEF ClusterInv

LEMMA LastCheckpointIs ==
  ASSUME ClusterInv, NEW c \in Stb!Names
  PROVE  LET w == cluster[c].wal
             k == Stb!LastCheckpoint(w)
         IN  k \in 1..Len(w) /\ w[k].ckpt = TRUE /\ k >= cluster[c].checkpoint
<1> DEFINE w == cluster[c].wal
           k == Stb!LastCheckpoint(w)
           C == {i \in 1..Len(w) : w[i].ckpt = TRUE}
<1>1. w \in Seq(Record) /\ Len(w) \in Nat /\ cluster[c].checkpoint \in C
  BY ClusterFields, WalFields DEF ClusterInv
<1>2. \A i \in 1..Len(w) : w[i].ckpt \in BOOLEAN
  <2> SUFFICES ASSUME NEW i \in 1..Len(w) PROVE w[i].ckpt \in BOOLEAN
    OBVIOUS
  <2>1. w[i] \in Record
    BY <1>1
  <2>2. ASSUME NEW v \in Record PROVE v.ckpt \in BOOLEAN
    BY DEF Record
  <2> QED
    BY <2>1, <2>2, Zenon
<1>3. C \in SUBSET (0..Len(w)) /\ C # {}
  BY <1>1
<1>4. PICK m \in C : \A y \in C : y <= m
  BY <1>1, <1>3, HasLast
<1>5. m \in 1..Len(w) /\ w[m].ckpt = TRUE
  BY <1>4
<1>6. \A j \in m + 1..Len(w) : j \in 1..Len(w) /\ j \notin C
  BY <1>1, <1>4, <1>5
<1>7. \A j \in m + 1..Len(w) : ~w[j].ckpt
  <2> SUFFICES ASSUME NEW j \in m + 1..Len(w) PROVE ~w[j].ckpt
    OBVIOUS
  <2>1. j \in 1..Len(w) /\ w[j].ckpt # TRUE
    BY <1>6
  <2> QED
    BY <1>2, <2>1, Zenon
<1>8. k \in 1..Len(w) /\ w[k].ckpt /\ \A j \in k + 1..Len(w) : ~w[j].ckpt
  BY <1>5, <1>7, Zenon DEF Stb!LastCheckpoint
<1> HIDE DEF k
<1>9. w[k].ckpt = TRUE
  BY <1>2, <1>8, Zenon
<1>10. k >= cluster[c].checkpoint
  <2> SUFFICES ASSUME k < cluster[c].checkpoint PROVE FALSE
    BY <1>1, <1>8
  <2>1. cluster[c].checkpoint \in k + 1..Len(w)
    BY <1>1, <1>8
  <2>2. ~w[cluster[c].checkpoint].ckpt
    BY <1>8, <2>1, Zenon
  <2>3. w[cluster[c].checkpoint].ckpt = TRUE
    BY <1>1
  <2> QED
    BY <2>2, <2>3, Zenon
<1> QED
  BY <1>8, <1>9, <1>10 DEF k

LEMMA RestartpointStep ==
  ASSUME ClusterInv, NEW c \in Stb!Names, UNCHANGED promotions,
         cluster' = [cluster EXCEPT ![c].checkpoint = Stb!LastCheckpoint(cluster[c].wal)]
  PROVE  ClusterInv' /\ WalGrows /\ FollowStays
<1> DEFINE k == Stb!LastCheckpoint(cluster[c].wal)
           r == [cluster[c] EXCEPT !.checkpoint = k]
<1>1. k \in 1..Len(cluster[c].wal) /\ cluster[c].wal[k].ckpt = TRUE /\ k >= cluster[c].checkpoint
  BY LastCheckpointIs
<1>2. cluster[c] \in ClusterRecord(Stb!Names) /\ Len(cluster[c].wal) \in Nat /\ cluster[c].incarnation \in Nat
  BY ClusterFields DEF ClusterInv
<1>3. IsPrimary(cluster[c].upstream)
  BY DEF ClusterInv, Roles
<1>4. cluster' = [cluster EXCEPT ![c] = r]
  OBVIOUS
<1> HIDE DEF k
<1>5. /\ r \in ClusterRecord(Stb!Names) /\ r.role = cluster[c].role /\ r.wal = cluster[c].wal /\ r.tl = cluster[c].tl
      /\ r.upstream = cluster[c].upstream /\ r.checkpoint = k /\ r.incarnation = cluster[c].incarnation
  BY <1>1, <1>2 DEF ClusterRecord
<1>6. r.up = cluster[c].up
  BY <1>2 DEF ClusterRecord
<1> HIDE DEF r
<1>7. r.incarnation = cluster[c].incarnation /\ cluster[c].up => r.up
  BY <1>6, Zenon
<1>8. IsPrimary(r.upstream)
  BY <1>3, <1>5
<1>9. r.checkpoint \in 1..Len(r.wal) /\ r.wal[r.checkpoint].ckpt = TRUE /\ r.checkpoint >= cluster[c].checkpoint
  BY <1>1, <1>5
<1>10. r.incarnation >= cluster[c].incarnation
  BY <1>2, <1>5
<1> QED
  BY <1>4, <1>5, <1>7, <1>8, <1>9, <1>10, Quiet

LEMMA CrashStep ==
  ASSUME ClusterInv, NEW c \in Stb!Names, UNCHANGED promotions,
         cluster' = [cluster EXCEPT ![c].up = FALSE, ![c].incarnation = @ + 1]
  PROVE  ClusterInv' /\ WalGrows /\ FollowStays
<1> DEFINE r == [cluster[c] EXCEPT !.up = FALSE, !.incarnation = @ + 1]
<1>1. /\ cluster[c] \in ClusterRecord(Stb!Names) /\ cluster[c].incarnation \in Nat /\ cluster[c].checkpoint \in Nat
      /\ cluster[c].checkpoint \in 1..Len(cluster[c].wal) /\ cluster[c].wal[cluster[c].checkpoint].ckpt = TRUE
  BY ClusterFields, WalFields DEF ClusterInv
<1>2. IsPrimary(cluster[c].upstream)
  BY DEF ClusterInv, Roles
<1>3. cluster' = [cluster EXCEPT ![c] = r]
  BY DEF ClusterInv, ClusterTypeOK
<1>4. /\ r \in ClusterRecord(Stb!Names) /\ r.role = cluster[c].role /\ r.wal = cluster[c].wal /\ r.tl = cluster[c].tl
      /\ r.upstream = cluster[c].upstream /\ r.checkpoint = cluster[c].checkpoint /\ r.incarnation = cluster[c].incarnation + 1
  <2>1. ASSUME NEW b \in BOOLEAN, NEW m \in Nat
        PROVE  LET t == [cluster[c] EXCEPT !.up = b, !.incarnation = m]
               IN  /\ t \in ClusterRecord(Stb!Names) /\ t.role = cluster[c].role /\ t.wal = cluster[c].wal /\ t.tl = cluster[c].tl
                   /\ t.upstream = cluster[c].upstream /\ t.checkpoint = cluster[c].checkpoint /\ t.incarnation = m
    BY <1>1 DEF ClusterRecord
  <2>2. cluster[c].incarnation + 1 \in Nat /\ FALSE \in BOOLEAN
    BY <1>1
  <2> QED
    BY <2>1, <2>2, Zenon
<1> HIDE DEF r
<1>5. r.incarnation >= cluster[c].incarnation /\ r.incarnation # cluster[c].incarnation /\ r.checkpoint >= cluster[c].checkpoint
  BY <1>1, <1>4
<1>6. IsPrimary(r.upstream) /\ r.checkpoint \in 1..Len(r.wal) /\ r.wal[r.checkpoint].ckpt = TRUE
  BY <1>1, <1>2, <1>4
<1> QED
  BY <1>3, <1>4, <1>5, <1>6, Quiet

LEMMA StartupStep ==
  ASSUME ClusterInv, NEW c \in Stb!Names, UNCHANGED promotions, cluster' = [cluster EXCEPT ![c].up = TRUE]
  PROVE  ClusterInv' /\ WalGrows /\ FollowStays
<1> DEFINE r == [cluster[c] EXCEPT !.up = TRUE]
<1>1. /\ cluster[c] \in ClusterRecord(Stb!Names) /\ cluster[c].incarnation \in Nat /\ cluster[c].checkpoint \in Nat
      /\ cluster[c].checkpoint \in 1..Len(cluster[c].wal) /\ cluster[c].wal[cluster[c].checkpoint].ckpt = TRUE
  BY ClusterFields, WalFields DEF ClusterInv
<1>2. IsPrimary(cluster[c].upstream)
  BY DEF ClusterInv, Roles
<1>3. cluster' = [cluster EXCEPT ![c] = r]
  OBVIOUS
<1>4. /\ r \in ClusterRecord(Stb!Names) /\ r.role = cluster[c].role /\ r.wal = cluster[c].wal /\ r.tl = cluster[c].tl
      /\ r.upstream = cluster[c].upstream /\ r.checkpoint = cluster[c].checkpoint /\ r.incarnation = cluster[c].incarnation
  BY <1>1 DEF ClusterRecord
<1>5. r.up = TRUE
  <2>1. ASSUME NEW v PROVE [cluster[c] EXCEPT !.up = v].up = v
    BY <1>1 DEF ClusterRecord
  <2> QED
    BY <2>1, Zenon
<1> HIDE DEF r
<1>6. r.up
  BY <1>5, Zenon
<1>7. r.incarnation >= cluster[c].incarnation /\ r.checkpoint >= cluster[c].checkpoint
  BY <1>1, <1>4
<1>8. IsPrimary(r.upstream) /\ r.checkpoint \in 1..Len(r.wal) /\ r.wal[r.checkpoint].ckpt = TRUE
  BY <1>1, <1>2, <1>4
<1> QED
  BY <1>3, <1>4, <1>6, <1>7, <1>8, Quiet

(* A standby follows another primary: of a primary that is up and had all  *)
(* followers of its timeline, only that one can be meant.                  *)
LEMMA FollowStep ==
  ASSUME ClusterInv, NEW c \in Stb!Names, NEW d \in Stb!Names, UNCHANGED promotions,
         IsStandby(c), ~cluster[cluster[c].upstream].up, d # cluster[c].upstream, IsPrimary(d),
         cluster' = [cluster EXCEPT ![c].upstream = d]
  PROVE  ClusterInv' /\ WalGrows /\ FollowStays
<1> DEFINE r == [cluster[c] EXCEPT !.upstream = d]
<1>1. /\ cluster[c] \in ClusterRecord(Stb!Names) /\ cluster[c].incarnation \in Nat /\ cluster[c].checkpoint \in Nat
      /\ cluster[c].checkpoint \in 1..Len(cluster[c].wal) /\ cluster[c].wal[cluster[c].checkpoint].ckpt = TRUE
  BY ClusterFields, WalFields DEF ClusterInv
<1>2. IsPrimary(cluster[c].upstream) /\ cluster[c].upstream \in Stb!Names
  BY ClusterFields DEF ClusterInv, Roles
<1>3. cluster' = [cluster EXCEPT ![c] = r]
  OBVIOUS
<1>4. /\ r \in ClusterRecord(Stb!Names) /\ r.role = cluster[c].role /\ r.wal = cluster[c].wal /\ r.tl = cluster[c].tl
      /\ r.upstream = d /\ r.checkpoint = cluster[c].checkpoint /\ r.incarnation = cluster[c].incarnation
  BY <1>1 DEF ClusterRecord
<1>5. r.up = cluster[c].up
  BY <1>1 DEF ClusterRecord
<1> HIDE DEF r
<1>6. r.incarnation = cluster[c].incarnation /\ cluster[c].up => r.up
  BY <1>5, Zenon
<1>7. r.incarnation >= cluster[c].incarnation /\ r.checkpoint >= cluster[c].checkpoint
  BY <1>1, <1>4
<1>8. IsPrimary(r.upstream) /\ r.checkpoint \in 1..Len(r.wal) /\ r.wal[r.checkpoint].ckpt = TRUE
  BY <1>1, <1>2, <1>4
<1>9. ClusterInv' /\ WalGrows
  BY <1>3, <1>4, <1>6, <1>7, <1>8, Quiet
<1>10. /\ Stb!Names' = Stb!Names /\ cluster'[c] = r
       /\ \A e \in Stb!Names \ {c} : cluster'[e] = cluster[e]
  BY <1>3, OneChanges DEF ClusterInv
<1>11. \A e \in Stb!Names : /\ cluster'[e].role = cluster[e].role /\ cluster'[e].wal = cluster[e].wal
                            /\ cluster'[e].tl = cluster[e].tl
                            /\ cluster'[e].upstream = IF e = c THEN d ELSE cluster[e].upstream
  BY <1>4, <1>10
<1>12. FollowStays
  <2> SUFFICES ASSUME NEW q \in Stb!Names, NEW s \in Nat, IsPrimary(q), cluster[q].up, Followed(q, s),
                      NEW e \in Stb!Names, cluster'[e].role = "standby"
               PROVE  /\ Since(e, q, s)' => cluster'[e].upstream = q /\ Prefix(cluster'[e].wal, cluster'[q].wal)
                      /\ cluster'[e].upstream # q => ~Since(cluster[e].upstream, q, s)'
    BY <1>10 DEF FollowStays, Followed, IsStandby
  <2>1. IsStandby(e)
    BY <1>11 DEF IsStandby
  <2>2. \A b \in Stb!Names : Since(b, q, s)' <=> Since(b, q, s)
    BY <1>11 DEF Since
  <2>3. CASE e # c
    <3>1. PICK u \in Stb!Names : u = cluster[e].upstream
      BY ClusterFields DEF ClusterInv
    <3>2. Since(cluster[e].upstream, q, s)' => Since(u, q, s)'
      BY <1>11, <2>3, <3>1 DEF Since
    <3> QED
      BY <1>11, <2>1, <2>2, <2>3, <3>1, <3>2 DEF Followed
  <2>4. CASE e = c
    <3>1. cluster[c].upstream # q
      BY Zenon
    <3>2. d = q
      <4>1. \A a, b \in Stb!Names : IsPrimary(a) /\ IsPrimary(b) /\ a # 1 /\ b # 1 => a = b
        BY DEF ClusterInv, Roles
      <4> QED
        BY <1>2, <3>1, <4>1
    <3>3. ~Since(c, q, s)
      BY <3>1 DEF Followed
    <3> QED
      BY <1>11, <2>2, <2>4, <3>2, <3>3
  <2> QED
    BY <2>3, <2>4
<1> QED
  BY <1>9, <1>12

(* A standby replays what its upstream has more.                           *)
LEMMA ReplayKeeps ==
  ASSUME ClusterInv, NEW c \in Stb!Names, NEW u \in Stb!Names, UNCHANGED promotions, IsStandby(c), u = cluster[c].upstream,
         ClusterTypeOK', Stb!Names' = Stb!Names, \A d \in Stb!Names : d # c => cluster'[d] = cluster[d],
         cluster'[c].role = "standby", cluster'[c].upstream = u, cluster'[c].checkpoint = cluster[c].checkpoint,
         NEW v \in Seq(Record), cluster'[c].wal = v, Len(v) = Len(cluster[c].wal) + 1,
         Prefix(cluster[c].wal, v), Prefix(v, cluster[u].wal), cluster'[c].tl = v[Len(v)].tl
  PROVE  ClusterInv' /\ FollowStays
<1> DEFINE w == cluster[c].wal
           n == Len(v)
<1>1. ClusterTypeOK /\ WalForm /\ Roles /\ OneWriter /\ FromWriter /\ 1 \in Stb!Names
  BY DEF ClusterInv, ClusterTypeOK
<1>2. /\ cluster[c].checkpoint \in 1..Len(w) /\ w[cluster[c].checkpoint].ckpt = TRUE
      /\ Len(w) \in Nat /\ Len(w) >= 1 /\ Len(cluster[u].wal) \in Nat
  BY <1>1, ClusterFields, WalFields
<1>3. /\ n \in Nat /\ n >= 1 /\ n \in 1..Len(cluster[u].wal)
      /\ \A i \in 1..n : i \in 1..Len(cluster[u].wal) /\ v[i] = cluster[u].wal[i] /\ (i \in 1..Len(w) \/ i = n)
      /\ \A i \in 1..Len(w) : v[i] = w[i]
  BY <1>2 DEF Prefix
<1>4. \A d \in Stb!Names : cluster'[d].role = cluster[d].role /\ cluster'[d].upstream = cluster[d].upstream
  BY DEF IsStandby
<1>5. \A d \in Stb!Names : IsPrimary(d) => d # c /\ cluster'[d] = cluster[d]
  BY DEF IsPrimary, IsStandby
<1>6. WalForm'
  <2> SUFFICES ASSUME NEW d \in Stb!Names
               PROVE  /\ Len(cluster'[d].wal) >= 1 /\ cluster'[d].wal[Len(cluster'[d].wal)].tl = cluster'[d].tl
                      /\ cluster'[d].tl <= promotions' + 1
                      /\ cluster'[d].checkpoint \in 1..Len(cluster'[d].wal)
                      /\ cluster'[d].wal[cluster'[d].checkpoint].ckpt = TRUE
    BY DEF WalForm
  <2>1. CASE d # c
    BY <1>1, <2>1, WalFields
  <2>2. CASE d = c
    <3>1. PICK q \in Stb!Names : Writer(q, cluster[u].wal, n)
      BY <1>1, <1>3 DEF FromWriter
    <3>2. v[n].tl = cluster[q].tl
      BY <1>3, <3>1 DEF Writer
    <3>3. v[n].tl <= promotions + 1
      BY <1>1, <3>2, WalFields
    <3>4. cluster[c].checkpoint \in 1..n /\ v[cluster[c].checkpoint].ckpt = TRUE
      BY <1>2, <1>3
    <3> QED
      BY <1>3, <2>2, <3>3, <3>4
  <2> QED
    BY <2>1, <2>2
<1>7. Roles'
  <2>1. \A d \in Stb!Names : cluster[d].upstream \in Stb!Names
    BY <1>1, ClusterFields
  <2>2. cluster'[1].role = "primary" /\ \A d \in Stb!Names : cluster'[cluster'[d].upstream].role = "primary"
    BY <1>1, <1>4, <2>1 DEF Roles, IsPrimary
  <2>3. \A d \in Stb!Names : cluster'[d].role = "primary" /\ d # 1 => promotions' = 1
    BY <1>1, <1>4 DEF Roles, IsPrimary
  <2>4. \A d, e \in Stb!Names : cluster'[d].role = "primary" /\ cluster'[e].role = "primary" /\ d # 1 /\ e # 1 => d = e
    BY <1>1, <1>4 DEF Roles, IsPrimary
  <2> QED
    BY <2>2, <2>3, <2>4 DEF Roles, IsPrimary
<1>8. OneWriter'
  <2>1. \A d, e \in Stb!Names : cluster'[d].role = "primary" /\ cluster'[e].role = "primary" /\ cluster'[d].tl = cluster'[e].tl
                                => d = e
    BY <1>1, <1>4, <1>5 DEF OneWriter, IsPrimary
  <2> QED
    BY <2>1 DEF OneWriter, IsPrimary
<1>9. FromWriter'
  <2> SUFFICES ASSUME NEW d \in Stb!Names, NEW i \in 1..Len(cluster'[d].wal)
               PROVE  \E q \in Stb!Names : Writer(q, cluster[d].wal, i)'
    BY Zenon DEF FromWriter
  <2>1. ASSUME NEW e \in Stb!Names, i \in 1..Len(cluster[e].wal), \A j \in 1..i : cluster'[d].wal[j] = cluster[e].wal[j]
        PROVE  \E q \in Stb!Names : Writer(q, cluster[d].wal, i)'
    <3>1. PICK q \in Stb!Names : Writer(q, cluster[e].wal, i)
      BY <1>1, <2>1 DEF FromWriter
    <3>2. cluster'[q] = cluster[q]
      BY <1>5, <3>1 DEF Writer
    <3>3. i \in 1..i
      BY <2>1
    <3>4. Writer(q, cluster[d].wal, i)'
      BY <2>1, <3>1, <3>2, <3>3 DEF Writer, IsPrimary
    <3> QED
      BY <3>4
  <2>2. CASE d # c
    BY <2>1, <2>2
  <2>3. CASE d = c
    <3>1. i \in 1..Len(cluster[u].wal) /\ \A j \in 1..i : v[j] = cluster[u].wal[j]
      BY <1>3, <2>3
    <3> QED
      BY <2>1, <2>3, <3>1
  <2> QED
    BY <2>2, <2>3
<1>10. FollowStays
  <2> SUFFICES ASSUME NEW q \in Stb!Names, NEW s \in Nat, IsPrimary(q), Followed(q, s),
                      NEW e \in Stb!Names, cluster'[e].role = "standby"
               PROVE  /\ Since(e, q, s)' => cluster'[e].upstream = q /\ Prefix(cluster'[e].wal, cluster'[q].wal)
                      /\ cluster'[e].upstream # q => ~Since(cluster[e].upstream, q, s)'
    BY DEF FollowStays, Followed, IsStandby
  <2>1. IsStandby(e) /\ cluster'[e].upstream = cluster[e].upstream /\ cluster'[q] = cluster[q]
    BY <1>4, <1>5 DEF IsStandby
  <2>2. PICK z \in Stb!Names : z = cluster[e].upstream
    BY <1>1, ClusterFields
  <2>3. cluster'[z] = cluster[z]
    BY <1>1, <1>5, <2>2 DEF Roles
  <2>4. Since(cluster[e].upstream, q, s)' => Since(z, q, s)
    BY <2>1, <2>2, <2>3 DEF Since
  <2>5. /\ Since(e, q, s) => z = q /\ Prefix(cluster[e].wal, cluster[q].wal)
        /\ z # q => ~Since(z, q, s)
    BY <2>1, <2>2 DEF Followed
  <2>6. ASSUME Since(e, q, s)' PROVE z = q /\ Prefix(cluster'[e].wal, cluster'[q].wal)
    <3>1. CASE e # c
      <4>1. Since(e, q, s)
        BY <2>1, <2>6, <3>1 DEF Since
      <4> QED
        BY <2>1, <2>5, <3>1, <4>1
    <3>2. CASE e = c
      <4>1. PICK i \in 1..n : i >= s /\ v[i].tl = cluster[q].tl
        BY <2>1, <2>6, <3>2 DEF Since
      <4>3. Since(u, q, s)
        BY <1>3, <4>1 DEF Since
      <4>4. z = u
        BY <2>2, <3>2
      <4> QED
        BY <2>1, <2>5, <3>2, <4>3, <4>4
    <3> QED
      BY <3>1, <3>2
  <2> QED
    BY <2>1, <2>2, <2>4, <2>5, <2>6
<1> QED
  BY <1>6, <1>7, <1>8, <1>9, <1>10 DEF ClusterInv

LEMMA OneGrows ==
  ASSUME ClusterTypeOK, NEW c \in Stb!Names, Stb!Names' = Stb!Names, \A d \in Stb!Names \ {c} : cluster'[d] = cluster[d],
         IsStandby(c), Prefix(cluster[c].wal, cluster'[c].wal), cluster'[c].checkpoint = cluster[c].checkpoint,
         cluster'[c].incarnation = cluster[c].incarnation, cluster'[c].up = cluster[c].up
  PROVE  WalGrows
<1> SUFFICES ASSUME NEW d \in Stb!Names
             PROVE  /\ IsPrimary(d) => cluster'[d].role = "primary" /\ cluster'[d].tl = cluster[d].tl
                    /\ cluster'[d].role = "standby" => IsStandby(d)
                    /\ Prefix(cluster[d].wal, cluster'[d].wal)
                    /\ cluster'[d].checkpoint >= cluster[d].checkpoint
                    /\ cluster'[d].incarnation >= cluster[d].incarnation
                    /\ cluster'[d].incarnation = cluster[d].incarnation /\ cluster[d].up => cluster'[d].up
  BY DEF WalGrows
<1>1. Len(cluster[d].wal) \in Nat /\ cluster[d].checkpoint \in Nat /\ cluster[d].incarnation \in Nat
  BY ClusterFields
<1>2. CASE d = c
  BY <1>1, <1>2 DEF IsPrimary, IsStandby
<1>3. CASE d # c
  BY <1>1, <1>3 DEF IsPrimary, IsStandby, Prefix
<1> QED
  BY <1>2, <1>3

LEMMA ReplayStep ==
  ASSUME ClusterInv, NEW c \in Stb!Names, UNCHANGED promotions, IsStandby(c),
         LET u == cluster[cluster[c].upstream].wal
         IN  /\ Len(cluster[c].wal) < Len(u) /\ Stb!IsPrefix(cluster[c].wal, u)
             /\ cluster' = [cluster EXCEPT ![c].wal = Append(@, u[Len(cluster[c].wal) + 1]),
                                           ![c].tl = u[Len(cluster[c].wal) + 1].tl]
  PROVE  ClusterInv' /\ WalGrows /\ FollowStays
<1> DEFINE w == cluster[c].wal
<1>1. PICK u \in Stb!Names : u = cluster[c].upstream
  BY ClusterFields DEF ClusterInv
<1> DEFINE x == cluster[u].wal[Len(w) + 1]
           v == Append(w, x)
           t == x.tl
           r == [cluster[c] EXCEPT !.wal = v, !.tl = t]
<1>2. ClusterTypeOK /\ promotions' \in 0..1
  BY DEF ClusterInv, ClusterTypeOK
<1>3. /\ cluster[c] \in ClusterRecord(Stb!Names) /\ w \in Seq(Record) /\ Len(w) \in Nat
      /\ cluster[u].wal \in Seq(Record) /\ Len(cluster[u].wal) \in Nat
  BY <1>2, ClusterFields
<1>4. Len(w) + 1 \in 1..Len(cluster[u].wal)
  BY <1>1, <1>3
<1>5. x \in Record /\ t \in Nat
  <2>1. x \in Record
    BY <1>3, <1>4
  <2> QED
    BY <2>1 DEF Record
<1>6. Prefix(w, cluster[u].wal)
  BY <1>1, <1>3, IsPrefixPointwise
<1>7. cluster' = [cluster EXCEPT ![c] = r]
  BY <1>1, <1>2 DEF ClusterTypeOK
<1> HIDE DEF x
<1>8. /\ v \in Seq(Record) /\ Len(v) = Len(w) + 1 /\ v[Len(w) + 1] = x /\ \A i \in 1..Len(w) : v[i] = w[i]
      /\ \A i \in 1..Len(v) : i \in 1..Len(w) \/ i = Len(w) + 1
      /\ Prefix(w, v)
  BY <1>3, <1>5, PrefixAppend
<1>9. v[Len(v)].tl = t
  BY <1>8
<1> HIDE DEF v, t
<1>10. /\ r \in ClusterRecord(Stb!Names) /\ r.role = cluster[c].role /\ r.wal = v /\ r.tl = t
       /\ r.upstream = cluster[c].upstream /\ r.checkpoint = cluster[c].checkpoint /\ r.incarnation = cluster[c].incarnation
  BY <1>3, <1>5, <1>8 DEF ClusterRecord
<1>11. r.up = cluster[c].up
  BY <1>3 DEF ClusterRecord
<1> HIDE DEF r
<1>12. /\ Stb!Names' = Stb!Names /\ cluster'[c] = r
       /\ \A d \in Stb!Names \ {c} : cluster'[d] = cluster[d]
  BY <1>2, <1>7, OneChanges
<1>13. ClusterTypeOK'
  BY <1>2, <1>7, <1>10, OneChangesType
<1>14. Prefix(v, cluster[u].wal)
  <2>1. \A i \in 1..Len(v) : v[i] = cluster[u].wal[i]
    BY <1>6, <1>8 DEF Prefix, x
  <2> QED
    BY <1>3, <1>4, <1>8, <2>1 DEF Prefix
<1>15. /\ cluster'[c].role = "standby" /\ cluster'[c].upstream = u /\ cluster'[c].checkpoint = cluster[c].checkpoint
       /\ cluster'[c].wal = v /\ cluster'[c].tl = v[Len(v)].tl
  BY <1>1, <1>9, <1>10, <1>12 DEF IsStandby
<1>16. \A d \in Stb!Names : d # c => cluster'[d] = cluster[d]
  BY <1>12
<1>17. v \in Seq(Record) /\ Len(v) = Len(cluster[c].wal) + 1 /\ Prefix(cluster[c].wal, v)
  BY <1>8
<1>18. ClusterInv' /\ FollowStays
  BY <1>1, <1>12, <1>13, <1>14, <1>15, <1>16, <1>17, ReplayKeeps
<1>19. WalGrows
  BY <1>2, <1>8, <1>10, <1>11, <1>12, OneGrows
<1> QED
  BY <1>18, <1>19

(* A standby is promoted, for the first time: the new timeline has no      *)
(* other writer.                                                           *)
LEMMA PromoteStep ==
  ASSUME ClusterInv, NEW c \in Stb!Names, IsStandby(c), promotions < 1, promotions' = promotions + 1,
         LET tl == 1 + Stb!Max({cluster[d].tl : d \in Stb!Names})
         IN  cluster' = [cluster EXCEPT ![c] = [Stb!Appended([@ EXCEPT !.tl = tl], FALSE) EXCEPT !.role = "primary"]]
  PROVE  ClusterInv' /\ WalGrows /\ FollowStays
<1> DEFINE T == {cluster[d].tl : d \in Stb!Names}
           m == Stb!Max(T)
           tl == 1 + m
           w == cluster[c].wal
           x == [tl |-> tl, ckpt |-> FALSE]
           a == [cluster[c] EXCEPT !.tl = tl]
           b == Stb!Appended(a, FALSE)
           r == [b EXCEPT !.role = "primary"]
<1>1. ClusterTypeOK /\ WalForm /\ Roles /\ OneWriter /\ FromWriter /\ promotions = 0 /\ promotions' = 1 /\ 1 \in Stb!Names
  BY DEF ClusterInv, ClusterTypeOK
<1>2. cluster' = [cluster EXCEPT ![c] = r]
  OBVIOUS
<1>3. \A d \in Stb!Names : cluster[d].tl \in Nat /\ cluster[d].tl <= 1
  BY <1>1, ClusterFields, WalFields
<1>4. m \in Nat /\ m <= 1 /\ \A d \in Stb!Names : cluster[d].tl <= m
  <2>1. T \in SUBSET (0..1) /\ T # {}
    BY <1>3
  <2>2. PICK k \in T : \A y \in T : y <= k
    BY <2>1, HasLast
  <2>3. \A y \in T : k >= y
    BY <2>1, <2>2
  <2>4. m \in T /\ \A y \in T : m >= y
    BY <2>3, Zenon DEF Stb!Max
  <2> HIDE DEF m
  <2> QED
    BY <1>3, <2>1, <2>4
<1> HIDE DEF m
<1>5. tl \in Nat /\ tl <= 2 /\ \A d \in Stb!Names : cluster[d].tl # tl
  BY <1>3, <1>4
<1> HIDE DEF tl
<1>6. cluster[c] \in ClusterRecord(Stb!Names) /\ w \in Seq(Record) /\ Len(w) \in Nat
  BY <1>1, ClusterFields
<1>7. /\ a \in ClusterRecord(Stb!Names) /\ a.role = cluster[c].role /\ a.wal = w /\ a.tl = tl
      /\ a.upstream = cluster[c].upstream /\ a.checkpoint = cluster[c].checkpoint /\ a.incarnation = cluster[c].incarnation
  BY <1>5, <1>6 DEF ClusterRecord
<1>8. a.up = cluster[c].up
  BY <1>6 DEF ClusterRecord
<1> HIDE DEF a
<1>9. /\ b \in ClusterRecord(Stb!Names) /\ x \in Record /\ b.tl = tl /\ b.upstream = cluster[c].upstream
      /\ b.incarnation = cluster[c].incarnation /\ b.wal = Append(w, x) /\ b.checkpoint = cluster[c].checkpoint
      /\ b.up = a.up
  <2>1. ASSUME NEW f \in BOOLEAN, f = FALSE
        PROVE  LET e == Stb!Appended(a, f)
                   y == [tl |-> tl, ckpt |-> f]
               IN  /\ e \in ClusterRecord(Stb!Names) /\ y \in Record /\ e.tl = tl /\ e.upstream = cluster[c].upstream
                   /\ e.incarnation = cluster[c].incarnation /\ e.wal = Append(w, y)
                   /\ e.checkpoint = cluster[c].checkpoint /\ e.up = a.up
    <3> DEFINE e == Stb!Appended(a, f)
               y == [tl |-> a.tl, ckpt |-> f]
    <3>1. /\ e \in ClusterRecord(Stb!Names) /\ y \in Record
          /\ e.role = a.role /\ e.up = a.up /\ e.tl = a.tl /\ e.upstream = a.upstream
          /\ e.incarnation = a.incarnation /\ e.wal = Append(a.wal, y)
          /\ e.checkpoint = IF f THEN Len(a.wal) + 1 ELSE a.checkpoint
      BY <1>7, AppendedFields
    <3> QED
      BY <1>7, <2>1, <3>1
  <2> QED
    BY <2>1, Zenon
<1>10. x.tl = tl
  OBVIOUS
<1> HIDE DEF b, x
<1>11. /\ r \in ClusterRecord(Stb!Names) /\ r.role = "primary" /\ r.wal = b.wal /\ r.tl = b.tl
       /\ r.upstream = b.upstream /\ r.checkpoint = b.checkpoint /\ r.incarnation = b.incarnation
  BY <1>9 DEF ClusterRecord
<1>12. r.up = b.up
  BY <1>9 DEF ClusterRecord
<1> HIDE DEF r
<1>13. /\ Stb!Names' = Stb!Names /\ cluster'[c] = r
       /\ \A d \in Stb!Names \ {c} : cluster'[d] = cluster[d]
  BY <1>1, <1>2, OneChanges
<1>14. /\ Len(r.wal) = Len(w) + 1 /\ Prefix(w, r.wal) /\ \A i \in 1..Len(w) : r.wal[i] = w[i]
  BY <1>6, <1>9, <1>11, PrefixAppend
<1>15. r.checkpoint \in 1..Len(r.wal) /\ r.wal[r.checkpoint].ckpt = TRUE
  <2>1. cluster[c].checkpoint \in 1..Len(w) /\ w[cluster[c].checkpoint].ckpt = TRUE
    BY <1>1, WalFields
  <2> QED
    BY <1>6, <1>9, <1>11, <1>14, <2>1
<1>16. ~IsPrimary(c) /\ c # 1
  BY <1>1 DEF IsPrimary, IsStandby, Roles
<1>17. ClusterTypeOK' /\ WalForm' /\ FromWriter'
  <2>1. /\ r \in ClusterRecord(Stb!Names) /\ promotions' \in 0..1 /\ promotions' >= promotions /\ r.role = "primary"
        /\ x \in Record /\ r.wal = Append(cluster[c].wal, x) /\ x.tl = r.tl /\ r.tl <= promotions' + 1
        /\ (IsPrimary(c) => r.tl = cluster[c].tl)
    BY <1>1, <1>5, <1>9, <1>10, <1>11, <1>16
  <2> QED
    BY <1>2, <1>15, <2>1, Appends
<1>18. \A d \in Stb!Names : cluster'[d].upstream = cluster[d].upstream /\ cluster[d].upstream \in Stb!Names
                            /\ cluster[d].upstream # c /\ cluster[cluster[d].upstream].role = "primary"
  <2> SUFFICES ASSUME NEW d \in Stb!Names
               PROVE  cluster'[d].upstream = cluster[d].upstream /\ cluster[d].upstream \in Stb!Names
                      /\ cluster[d].upstream # c /\ cluster[cluster[d].upstream].role = "primary"
    OBVIOUS
  <2>1. cluster[d].upstream \in Stb!Names /\ IsPrimary(cluster[d].upstream)
    BY <1>1, ClusterFields DEF Roles
  <2> QED
    BY <1>9, <1>11, <1>13, <1>16, <2>1 DEF IsPrimary
<1>19. \A d \in Stb!Names : cluster'[d].role = "primary" => d = 1 \/ d = c
  BY <1>1, <1>13 DEF Roles, IsPrimary
<1>20. Roles'
  <2>1. cluster'[1].role = "primary"
    BY <1>1, <1>13, <1>16 DEF Roles, IsPrimary
  <2>2. \A d \in Stb!Names : cluster'[cluster'[d].upstream].role = "primary"
    <3> SUFFICES ASSUME NEW d \in Stb!Names PROVE cluster'[cluster'[d].upstream].role = "primary"
      OBVIOUS
    <3>1. PICK u \in Stb!Names : u = cluster[d].upstream /\ cluster'[d].upstream = u /\ u # c /\ cluster[u].role = "primary"
      BY <1>18, Zenon
    <3>2. cluster'[u] = cluster[u]
      BY <1>13, <3>1
    <3> QED
      BY <3>1, <3>2, Zenon
  <2> QED
    BY <1>1, <1>13, <1>19, <2>1, <2>2 DEF Roles, IsPrimary
<1>21. OneWriter'
  <2>1. cluster'[1].tl # cluster'[c].tl
    BY <1>1, <1>5, <1>9, <1>11, <1>13, <1>16
  <2> QED
    BY <1>13, <1>19, <2>1 DEF OneWriter, IsPrimary
<1>22. WalGrows
  BY <1>1, <1>8, <1>9, <1>11, <1>12, <1>13, <1>14, OneGrows
<1>23. FollowStays
  <2>1. \A d \in Stb!Names : IsPrimary(d) => cluster'[d].tl = cluster[d].tl /\ cluster'[d].wal = cluster[d].wal
    BY <1>13, <1>16
  <2>2. \A d \in Stb!Names : cluster'[d].role = "standby" =>
             IsStandby(d) /\ cluster'[d].wal = cluster[d].wal /\ cluster'[d].upstream = cluster[d].upstream
    BY <1>11, <1>13 DEF IsStandby
  <2> QED
    BY <1>13, <2>1, <2>2, FollowSame DEF FollowStays
<1> QED
  BY <1>17, <1>20, <1>21, <1>22, <1>23 DEF ClusterInv

LEMMA ClusterStep ==
  ASSUME ClusterInv, Stb!ClusterNext
  PROVE  ClusterInv' /\ WalGrows /\ FollowStays /\ backup' = backup
<1>1. ASSUME NEW c \in Stb!Names, NEW ckpt \in BOOLEAN, Stb!Write(c, ckpt)
      PROVE  ClusterInv' /\ WalGrows /\ FollowStays /\ backup' = backup
  BY <1>1, WriteStep DEF Stb!Write, IsPrimary
<1>2. ASSUME NEW c \in Stb!Names, Stb!Replay(c) PROVE ClusterInv' /\ WalGrows /\ FollowStays /\ backup' = backup
  BY <1>2, ReplayStep DEF Stb!Replay, Stb!Wal, IsStandby
<1>3. ASSUME NEW c \in Stb!Names, Stb!Restartpoint(c) PROVE ClusterInv' /\ WalGrows /\ FollowStays /\ backup' = backup
  BY <1>3, RestartpointStep DEF Stb!Restartpoint, Stb!Wal
<1>4. ASSUME NEW c \in Stb!Names, Stb!Promote(c) PROVE ClusterInv' /\ WalGrows /\ FollowStays /\ backup' = backup
  BY <1>4, PromoteStep DEF Stb!Promote, IsStandby
<1>5. ASSUME NEW c \in Stb!Names, Stb!Crash(c) PROVE ClusterInv' /\ WalGrows /\ FollowStays /\ backup' = backup
  BY <1>5, CrashStep DEF Stb!Crash
<1>6. ASSUME NEW c \in Stb!Names, Stb!Startup(c) PROVE ClusterInv' /\ WalGrows /\ FollowStays /\ backup' = backup
  BY <1>6, StartupStep DEF Stb!Startup
<1>7. ASSUME NEW c \in Stb!Names, NEW d \in Stb!Names, Stb!Follow(c, d)
      PROVE  ClusterInv' /\ WalGrows /\ FollowStays /\ backup' = backup
  BY <1>7, FollowStep DEF Stb!Follow, IsPrimary, IsStandby
<1> QED
  BY <1>1, <1>2, <1>3, <1>4, <1>5, <1>6, <1>7 DEF Stb!ClusterNext

LEMMA ClusterStays ==
  ASSUME ClusterInv, UNCHANGED <<cluster, promotions>>
  PROVE  ClusterInv' /\ WalGrows /\ FollowStays
<1>1. ClusterInv'
  BY DEF ClusterInv, ClusterTypeOK, WalForm, Roles, OneWriter, FromWriter, Writer, IsPrimary, Stb!Names
<1>2. Stb!Names' = Stb!Names
  BY DEF Stb!Names
<1>3. FollowStays
  BY <1>2 DEF FollowStays, Followed, Since, IsStandby
<1>4. \A c \in Stb!Names : /\ Len(cluster[c].wal) \in Nat /\ cluster[c].checkpoint \in Nat /\ cluster[c].incarnation \in Nat
  BY ClusterFields DEF ClusterInv
<1>5. WalGrows
  BY <1>2, <1>4 DEF WalGrows, Prefix, IsPrimary, IsStandby
<1> QED
  BY <1>1, <1>3, <1>5

-----------------------------------------------------------------------------
(* The backup.                                                             *)
LEMMA BackupFields ==
  ASSUME Found
  PROVE  /\ backup.pc \in AfterStart \cup {"get", "start", "failed"} /\ backup.next \in Nat
         /\ backup.primary \in Stb!Names \cup {NoCluster} /\ backup.standby \in Stb!Names \cup {NoCluster}
         /\ backup.control \in [Stb!Names -> [checkpoint : Nat, timeline : Nat]] /\ backup.session \in [Stb!Names -> Nat]
         /\ backup.start \in Nat /\ backup.copied \in Seq(Record) /\ Len(backup.copied) \in Nat
<1>1. backup \in BackupRecord(Stb!Names)
  BY DEF Found
<1>2. /\ backup.pc \in AfterStart \cup {"get", "start", "failed"} /\ backup.next \in Nat
      /\ backup.primary \in Stb!Names \cup {NoCluster} /\ backup.standby \in Stb!Names \cup {NoCluster}
      /\ backup.control \in [Stb!Names -> [checkpoint : Nat, timeline : Nat]] /\ backup.session \in [Stb!Names -> Nat]
      /\ backup.start \in Nat /\ backup.copied \in Seq(Record)
  BY <1>1 DEF BackupRecord
<1> QED
  BY <1>2

(* The steps after the start leave what was found and the start.           *)
Goes(b) ==
    /\ b \in BackupRecord(Stb!Names) /\ b.primary = backup.primary /\ b.standby = backup.standby
    /\ b.control = backup.control /\ b.session = backup.session /\ b.start = backup.start

LEMMA SetPc ==
  ASSUME Found, NEW x \in AfterStart \cup {"get", "start", "failed"}
  PROVE  LET b == [backup EXCEPT !.pc = x] IN Goes(b) /\ b.pc = x /\ b.copied = backup.copied /\ b.next = backup.next
<1>1. backup \in BackupRecord(Stb!Names)
  BY DEF Found
<1> QED
  BY <1>1 DEF BackupRecord, Goes

LEMMA StillFound ==
  ASSUME ClusterInv, ClusterInv', WalGrows, FollowStays, Found, Started, Goes(backup'),
         backup'.pc \notin {"get", "failed"} => backup.pc \notin {"get", "failed"},
         backup'.pc \in AfterStart => backup.pc \in AfterStart
  PROVE  Found' /\ Started' /\ (backup.primary # NoCluster /\ Same' => Same)
<1>1. Stb!Names' = Stb!Names
  BY DEF WalGrows
<1>2. /\ backup' \in BackupRecord(Stb!Names) /\ backup'.primary = backup.primary /\ backup'.standby = backup.standby
      /\ backup'.control = backup.control /\ backup'.session = backup.session /\ backup'.start = backup.start
  BY DEF Goes
<1>3. ASSUME backup.primary # NoCluster
      PROVE  /\ cluster'[backup.primary].role = "primary" /\ backup.session[backup.primary] <= cluster'[backup.primary].incarnation
             /\ Same' => Same /\ cluster'[backup.primary].up
             /\ cluster'[backup.primary].tl = cluster[backup.primary].tl
  <2>1. PICK q \in Stb!Names : q = backup.primary
    BY <1>3, BackupFields
  <2>2. /\ IsPrimary(q) /\ backup.session[q] <= cluster[q].incarnation
        /\ cluster[q].incarnation = backup.session[q] => cluster[q].up
    BY <1>3, <2>1 DEF Found, Primary, Same
  <2>3. backup.session[q] \in Nat /\ cluster[q].incarnation \in Nat /\ cluster'[q].incarnation \in Nat
    <3>1. backup.session[q] \in Nat
      BY BackupFields
    <3>2. cluster[q].incarnation \in Nat
      BY ClusterFields DEF ClusterInv
    <3>3. cluster'[q].incarnation \in Nat
      BY <1>1 DEF ClusterInv, ClusterTypeOK, ClusterRecord
    <3> QED
      BY <3>1, <3>2, <3>3
  <2>4. /\ cluster'[q].role = "primary" /\ cluster'[q].tl = cluster[q].tl /\ cluster'[q].incarnation >= cluster[q].incarnation
        /\ cluster'[q].incarnation = cluster[q].incarnation /\ cluster[q].up => cluster'[q].up
    BY <2>2 DEF WalGrows
  <2>5. backup.session[q] <= cluster'[q].incarnation
    BY <2>2, <2>3, <2>4
  <2>6. ASSUME Same' PROVE Same /\ cluster'[q].up
    <3>1. cluster'[q].incarnation = backup.session[q]
      BY <1>2, <2>1, <2>6 DEF Same, Primary
    <3>2. cluster[q].incarnation = backup.session[q] /\ cluster'[q].incarnation = cluster[q].incarnation
      BY <2>2, <2>3, <2>4, <3>1
    <3>3. cluster'[q].up
      BY <2>2, <2>4, <3>2
    <3> QED
      BY <2>1, <3>2, <3>3 DEF Same, Primary
  <2> QED
    BY <2>1, <2>4, <2>5, <2>6
<1>4. Found'
  <2>1. backup'.primary # NoCluster =>
           cluster'[backup'.primary].role = "primary" /\ backup'.session[backup'.primary] <= cluster'[backup'.primary].incarnation
           /\ (Same' => cluster'[backup'.primary].up)
    BY <1>2, <1>3
  <2>2. backup'.pc \notin {"get", "failed"} => backup'.primary # NoCluster /\ backup'.standby # NoCluster
    BY <1>2 DEF Found, Primary, Source
  <2> QED
    BY <1>1, <1>2, <2>1, <2>2 DEF Found, Primary, Source, IsPrimary
<1>5. Started'
  <2> SUFFICES ASSUME backup'.pc \in AfterStart
               PROVE  backup'.control[backup'.primary].timeline = cluster'[backup'.primary].tl
                      /\ (Same' => Followed(Primary, backup.start)')
    BY DEF Started, Primary
  <2>1. backup.pc \in AfterStart /\ backup.primary # NoCluster
    BY DEF Found, Primary, AfterStart
  <2>2. backup.control[backup.primary].timeline = cluster[backup.primary].tl /\ (Same => Followed(Primary, backup.start))
    BY <2>1 DEF Started, Primary
  <2>3. ASSUME Same' PROVE Followed(Primary, backup.start)'
    <3>1. PICK q \in Stb!Names, s \in Nat : q = backup.primary /\ s = backup.start
      BY <2>1, BackupFields
    <3>2. Same
      BY <1>3, <2>1, <2>3
    <3>3. IsPrimary(q) /\ cluster[q].up /\ Followed(q, s)
      BY <2>1, <2>2, <3>1, <3>2 DEF Found, Primary
    <3>4. Followed(q, s)'
      BY <3>3 DEF FollowStays
    <3> QED
      BY <1>2, <3>1, <3>4 DEF Primary
  <2> QED
    BY <1>2, <1>3, <2>1, <2>2, <2>3
<1> QED
  BY <1>3, <1>4, <1>5

LEMMA SinceStays ==
  ASSUME ClusterInv, ClusterInv', WalGrows, NEW c \in Stb!Names, NEW q \in Stb!Names, IsPrimary(q), NEW s \in Nat, Since(c, q, s)
  PROVE  Since(c, q, s)'
<1>1. PICK i \in 1..Len(cluster[c].wal) : i >= s /\ cluster[c].wal[i].tl = cluster[q].tl
  BY DEF Since
<1>2. cluster'[q].tl = cluster[q].tl /\ Prefix(cluster[c].wal, cluster'[c].wal)
  BY DEF WalGrows
<1>3. Len(cluster[c].wal) \in Nat /\ Len(cluster'[c].wal) \in Nat
  <2>1. Len(cluster[c].wal) \in Nat
    BY ClusterFields DEF ClusterInv
  <2>2. cluster'[c].wal \in Seq(Record)
    BY DEF WalGrows, ClusterInv, ClusterTypeOK, ClusterRecord
  <2> QED
    BY <2>1, <2>2
<1>4. i \in 1..Len(cluster'[c].wal) /\ cluster'[c].wal[i] = cluster[c].wal[i]
  BY <1>2, <1>3 DEF Prefix
<1> QED
  BY <1>1, <1>2, <1>4 DEF Since

Before == {"ahead", "replay", "checkpoint", "checkpointed"}

LEMMA CopiedStays ==
  ASSUME ClusterInv, ClusterInv', WalGrows, Found, Copied, Goes(backup'), backup'.copied = backup.copied,
         backup.primary # NoCluster /\ Same' => Same,
         backup'.pc = backup.pc \/ (backup.pc \in Before /\ backup'.pc \in Before)
  PROVE  Copied'
<1>1. /\ backup'.primary = backup.primary /\ backup'.standby = backup.standby /\ backup'.start = backup.start
  BY DEF Goes
<1>2. backup'.pc \in {"get", "start", "ahead", "replay", "checkpoint", "checkpointed"} => backup'.copied = <<>>
  BY DEF Copied, Before
<1>3. CASE backup'.pc \in {"copy", "ping", "stop", "done"}
  <2>1. backup.pc = backup'.pc /\ backup.primary # NoCluster /\ backup.standby # NoCluster
    BY <1>3 DEF Found, Primary, Source, Before
  <2>2. PICK q \in Stb!Names, t \in Stb!Names, s \in Nat : q = backup.primary /\ t = backup.standby /\ s = backup.start
    BY <2>1, BackupFields
  <2>3. IsPrimary(q)
    BY <2>1, <2>2 DEF Found, Primary
  <2>4. ASSUME Prefix(backup.copied, cluster[q].wal) PROVE Prefix(backup.copied, cluster'[q].wal)
    <3>1. cluster'[q].wal \in Seq(Record)
      BY DEF WalGrows, ClusterInv, ClusterTypeOK, ClusterRecord
    <3>2. cluster[q].wal \in Seq(Record)
      BY ClusterFields DEF ClusterInv
    <3>3. backup.copied \in Seq(Record) /\ Prefix(cluster[q].wal, cluster'[q].wal)
      BY BackupFields DEF WalGrows
    <3> QED
      BY <2>4, <3>1, <3>2, <3>3, PrefixTrans
  <2>5. backup'.pc = "copy" => cluster'[t].checkpoint >= s /\ Since(t, q, s)'
    <3> SUFFICES ASSUME backup'.pc = "copy" PROVE cluster'[t].checkpoint >= s /\ Since(t, q, s)'
      OBVIOUS
    <3>1. cluster[t].checkpoint >= s /\ Since(t, q, s)
      BY <2>1, <2>2 DEF Copied, Primary, Source
    <3>2. cluster[t].checkpoint \in Nat
      BY ClusterFields DEF ClusterInv
    <3>3. cluster'[t].checkpoint \in Nat
      BY DEF WalGrows, ClusterInv, ClusterTypeOK, ClusterRecord
    <3>4. cluster'[t].checkpoint >= cluster[t].checkpoint
      BY DEF WalGrows
    <3>5. cluster'[t].checkpoint >= s
      BY <3>1, <3>2, <3>3, <3>4
    <3> QED
      BY <2>3, <3>1, <3>5, SinceStays
  <2>6. cluster'[t].role = "standby" => IsStandby(t)
    BY DEF WalGrows
  <2>7. backup'.pc \in {"ping", "stop", "done"} \/ (backup'.pc = "copy" /\ backup'.copied # <<>>) =>
           Len(backup'.copied) >= s - 1
    BY <2>1, <2>2 DEF Copied
  <2>8. backup'.pc = "copy" /\ cluster'[t].role = "standby" /\ Same' => Prefix(backup'.copied, cluster'[q].wal)
    BY <2>1, <2>2, <2>4, <2>6 DEF Copied, Primary, Source
  <2>9. backup'.pc = "ping" /\ cluster'[t].role = "standby" => Prefix(backup'.copied, cluster'[q].wal)
    BY <2>1, <2>2, <2>4, <2>6 DEF Copied, Primary, Source
  <2>10. backup'.pc \in {"stop", "done"} => Prefix(backup'.copied, cluster'[q].wal)
    BY <2>1, <2>2, <2>4 DEF Copied, Primary
  <2>11. Since(t, q, s)' => Since(Source, Primary, backup.start)'
    BY <1>1, <2>2 DEF Source, Primary
  <2> QED
    BY <1>1, <1>2, <2>2, <2>5, <2>7, <2>8, <2>9, <2>10, <2>11 DEF Copied, IsStandby, Primary, Source
<1>4. CASE backup'.pc \notin {"copy", "ping", "stop", "done"}
  BY <1>2, <1>4 DEF Copied
<1> QED
  BY <1>3, <1>4

(* A step of the clusters, or of the backup between its start and the      *)
(* copy.                                                                   *)
LEMMA BackupStays ==
  ASSUME ClusterInv, BackupInv, ClusterInv', WalGrows, FollowStays, Goes(backup'), backup'.copied = backup.copied,
         backup'.pc = backup.pc \/ (backup.pc \in Before /\ backup'.pc \in Before)
  PROVE  BackupInv'
<1>1. Found /\ Started /\ Copied
  BY DEF BackupInv
<1>2. /\ backup'.pc \notin {"get", "failed"} => backup.pc \notin {"get", "failed"}
      /\ backup'.pc \in AfterStart => backup.pc \in AfterStart
  BY DEF Before, AfterStart
<1>3. Found' /\ Started' /\ (backup.primary # NoCluster /\ Same' => Same)
  BY <1>1, <1>2, StillFound
<1>4. Copied'
  BY <1>1, <1>3, CopiedStays
<1> QED
  BY <1>3, <1>4 DEF BackupInv

LEMMA FailKeeps ==
  ASSUME Stb!Names' = Stb!Names, backup' = [Stb!Idle EXCEPT !.pc = "failed"]
  PROVE  BackupInv'
<1> DEFINE k == [c \in Stb!Names |-> [checkpoint |-> 0, timeline |-> 0]]
           z == [c \in Stb!Names |-> 0]
<1>1. k \in [Stb!Names -> [checkpoint : Nat, timeline : Nat]] /\ z \in [Stb!Names -> Nat]
  OBVIOUS
<1>2. backup' = [pc |-> "failed", next |-> 1, primary |-> NoCluster, standby |-> NoCluster,
                 control |-> k, session |-> z, start |-> 0, copied |-> <<>>]
  BY DEF Stb!Idle
<1> HIDE DEF k, z
<1>3. backup' \in BackupRecord(Stb!Names)
  <2>1. ASSUME NEW e \in Seq(Record)
        PROVE  [pc |-> "failed", next |-> 1, primary |-> NoCluster, standby |-> NoCluster,
                control |-> k, session |-> z, start |-> 0, copied |-> e] \in BackupRecord(Stb!Names)
    BY <1>1 DEF BackupRecord
  <2>2. <<>> \in Seq(Record)
    OBVIOUS
  <2> QED
    BY <1>2, <2>1, <2>2, Zenon
<1>4. backup'.pc = "failed" /\ backup'.primary = NoCluster
  BY <1>2
<1>5. Found'
  BY <1>3, <1>4 DEF Found, Primary
<1>6. Started' /\ Copied'
  BY <1>4 DEF Started, Copied, AfterStart
<1> QED
  BY <1>5, <1>6 DEF BackupInv

LEMMA Searching ==
  ASSUME ClusterInv, UNCHANGED cluster, NEW b \in BackupRecord(Stb!Names), backup' = b, b.pc = "get", b.copied = <<>>,
         b.primary # NoCluster =>
             /\ IsPrimary(b.primary) /\ b.session[b.primary] <= cluster[b.primary].incarnation
             /\ cluster[b.primary].incarnation = b.session[b.primary] => cluster[b.primary].up
  PROVE  BackupInv'
<1>1. Stb!Names' = Stb!Names
  BY DEF Stb!Names
<1>2. Found'
  BY <1>1 DEF Found, Primary, Source, Same, IsPrimary
<1>3. Started' /\ Copied'
  BY DEF Started, Copied, AfterStart
<1> QED
  BY <1>2, <1>3 DEF BackupInv

LEMMA OpenedFields ==
  ASSUME ClusterInv, Found, NEW c \in Stb!Names
  PROVE  LET o == Stb!Opened(c)
         IN  /\ o \in BackupRecord(Stb!Names) /\ o.pc = backup.pc /\ o.copied = backup.copied /\ o.primary = backup.primary
             /\ o.session[c] = cluster[c].incarnation /\ \A d \in Stb!Names \ {c} : o.session[d] = backup.session[d]
<1> DEFINE n == backup.next + 1
           v == [backup.session EXCEPT ![c] = cluster[c].incarnation]
           k == [backup.control EXCEPT ![c] = Stb!Control(c)]
           o == [backup EXCEPT !.next = n, !.session = v, !.control = k]
<1>1. backup \in BackupRecord(Stb!Names)
  BY DEF Found
<1>2. /\ cluster[c].wal \in Seq(Record) /\ cluster[c].checkpoint \in Nat /\ cluster[c].incarnation \in Nat
      /\ cluster[c].checkpoint \in 1..Len(cluster[c].wal)
  BY ClusterFields, WalFields DEF ClusterInv
<1>3. Stb!Control(c) \in [checkpoint : Nat, timeline : Nat]
  <2>1. cluster[c].wal[cluster[c].checkpoint] \in Record
    BY <1>2
  <2>2. cluster[c].wal[cluster[c].checkpoint].tl \in Nat
    BY <2>1 DEF Record
  <2> QED
    BY <1>2, <2>2 DEF Stb!Control, Stb!Wal
<1>4. n \in Nat /\ v \in [Stb!Names -> Nat] /\ k \in [Stb!Names -> [checkpoint : Nat, timeline : Nat]]
      /\ v[c] = cluster[c].incarnation /\ \A d \in Stb!Names \ {c} : v[d] = backup.session[d]
  <2>1. /\ backup.session \in [Stb!Names -> Nat] /\ backup.control \in [Stb!Names -> [checkpoint : Nat, timeline : Nat]]
        /\ backup.next \in Nat
    BY BackupFields
  <2>2. k \in [Stb!Names -> [checkpoint : Nat, timeline : Nat]]
    BY <1>3, <2>1
  <2> QED
    BY <1>2, <2>1, <2>2
<1>5. Stb!Opened(c) = o
  BY DEF Stb!Opened
<1> HIDE DEF n, v, k
<1>6. /\ o \in BackupRecord(Stb!Names) /\ o.pc = backup.pc /\ o.copied = backup.copied /\ o.primary = backup.primary
      /\ o.session = v
  BY <1>1, <1>4 DEF BackupRecord
<1> QED
  BY <1>4, <1>5, <1>6

LEMMA DbGetIdxKeeps ==
  ASSUME ClusterInv, BackupInv, Stb!DbGetIdx
  PROVE  BackupInv'
<1>1. Found /\ backup \in BackupRecord(Stb!Names) /\ backup.pc = "get" /\ backup.copied = <<>> /\ UNCHANGED cluster
  BY DEF BackupInv, Found, Copied, Stb!DbGetIdx
<1>2. PICK c \in Stb!Names : c = backup.next
  BY DEF Stb!DbGetIdx
<1>3. backup.primary # NoCluster =>
          /\ backup.primary \in Stb!Names
          /\ IsPrimary(backup.primary) /\ backup.session[backup.primary] <= cluster[backup.primary].incarnation
          /\ cluster[backup.primary].incarnation = backup.session[backup.primary] => cluster[backup.primary].up
  BY <1>1, BackupFields DEF Found, Primary, Same
<1>4. CASE backup' = [backup EXCEPT !.next = @ + 1]
  <2> DEFINE n == backup.next + 1
             b == [backup EXCEPT !.next = n]
  <2>1. n \in Nat
    BY <1>1, BackupFields
  <2> HIDE DEF n
  <2>2. b \in BackupRecord(Stb!Names) /\ b.pc = "get" /\ b.copied = <<>> /\ b.primary = backup.primary /\ b.session = backup.session
    BY <1>1, <2>1 DEF BackupRecord
  <2>3. backup' = b
    BY <1>4 DEF n
  <2> HIDE DEF b
  <2> QED
    BY <1>1, <1>3, <2>2, <2>3, Searching
<1> DEFINE o == Stb!Opened(c)
<1>5. /\ o \in BackupRecord(Stb!Names) /\ o.pc = backup.pc /\ o.copied = backup.copied /\ o.primary = backup.primary
      /\ o.session[c] = cluster[c].incarnation /\ \A d \in Stb!Names \ {c} : o.session[d] = backup.session[d]
  BY <1>1, OpenedFields
<1>6. cluster[c].incarnation \in Nat
  BY ClusterFields DEF ClusterInv
<1> HIDE DEF o
<1>7. CASE cluster[c].up /\ backup' = [o EXCEPT !.standby = c]
  <2> DEFINE b == [o EXCEPT !.standby = c]
  <2>1. /\ b \in BackupRecord(Stb!Names) /\ b.pc = o.pc /\ b.copied = o.copied /\ b.primary = o.primary
        /\ b.session = o.session
    BY <1>5 DEF BackupRecord
  <2>2. backup' = b
    BY <1>7
  <2> HIDE DEF b
  <2>3. b.primary # NoCluster =>
          /\ IsPrimary(b.primary) /\ b.session[b.primary] <= cluster[b.primary].incarnation
          /\ cluster[b.primary].incarnation = b.session[b.primary] => cluster[b.primary].up
    <3>1. CASE backup.primary = c
      BY <1>3, <1>5, <1>6, <1>7, <2>1, <3>1
    <3>2. CASE backup.primary # c
      BY <1>3, <1>5, <2>1, <3>2
    <3> QED
      BY <3>1, <3>2
  <2> QED
    BY <1>1, <1>5, <2>1, <2>2, <2>3, Searching
<1>8. CASE cluster[c].up /\ IsPrimary(c) /\ backup' = [o EXCEPT !.primary = c]
  <2> DEFINE b == [o EXCEPT !.primary = c]
  <2>1. /\ b \in BackupRecord(Stb!Names) /\ b.pc = o.pc /\ b.copied = o.copied /\ b.primary = c
        /\ b.session = o.session
    BY <1>5 DEF BackupRecord
  <2>2. backup' = b
    BY <1>8
  <2> HIDE DEF b
  <2>3. /\ IsPrimary(b.primary) /\ b.session[b.primary] <= cluster[b.primary].incarnation
        /\ cluster[b.primary].incarnation = b.session[b.primary] => cluster[b.primary].up
    BY <1>5, <1>6, <1>8, <2>1
  <2> QED
    BY <1>1, <1>5, <2>1, <2>2, <2>3, Searching
<1>9. CASE Stb!Fail
  <2>1. Stb!Names' = Stb!Names
    BY <1>1 DEF Stb!Names
  <2> QED
    BY <1>9, <2>1, FailKeeps DEF Stb!Fail
<1> QED
  BY <1>2, <1>4, <1>7, <1>8, <1>9 DEF Stb!DbGetIdx, o, IsPrimary

LEMMA DbGetKeeps ==
  ASSUME ClusterInv, BackupInv, Stb!DbGet
  PROVE  BackupInv'
<1>1. Found /\ backup.pc = "get" /\ backup.copied = <<>> /\ UNCHANGED cluster
  BY DEF BackupInv, Copied, Stb!DbGet
<1>2. Stb!Names' = Stb!Names
  BY <1>1 DEF Stb!Names
<1>3. CASE Stb!Fail
  BY <1>2, <1>3, FailKeeps DEF Stb!Fail
<1>4. CASE backup.primary # NoCluster /\ backup.standby # NoCluster /\ backup' = [backup EXCEPT !.pc = "start"]
  <2>1. Goes(backup') /\ backup'.pc = "start" /\ backup'.copied = backup.copied
    BY <1>1, <1>4, SetPc
  <2>2. Found'
    BY <1>1, <1>2, <1>4, <2>1 DEF Found, Goes, Primary, Source, Same, IsPrimary
  <2>3. Started' /\ Copied'
    BY <1>1, <2>1 DEF Started, Copied, AfterStart
  <2> QED
    BY <2>2, <2>3 DEF BackupInv
<1> QED
  BY <1>3, <1>4 DEF Stb!DbGet

(* The backup starts: nobody but the primary has the record of the start,  *)
(* as only the primary writes its timeline.                                *)
LEMMA DbBackupStartKeeps ==
  ASSUME ClusterInv, BackupInv, Stb!DbBackupStart
  PROVE  ClusterInv' /\ BackupInv'
<1>1. /\ Found /\ Started /\ Copied /\ backup.pc = "start" /\ backup.copied = <<>> /\ UNCHANGED promotions
      /\ backup.primary # NoCluster /\ backup.standby # NoCluster
  BY DEF BackupInv, Found, Copied, Primary, Source, Stb!DbBackupStart
<1>2. PICK q \in Stb!Names : q = backup.primary
  BY <1>1, BackupFields
<1>2a. PICK n \in Nat : n = Len(cluster[q].wal) + 1
  BY ClusterFields DEF ClusterInv
<1> DEFINE new == Stb!Appended(cluster[q], TRUE)
<1>3. IsPrimary(q) /\ cluster' = [cluster EXCEPT ![q] = new]
  BY <1>1, <1>2 DEF Found, Primary, Stb!DbBackupStart
<1>4. /\ ClusterInv' /\ Stb!Names' = Stb!Names /\ WalGrows /\ FollowStays
      /\ \A d \in Stb!Names \ {q} : cluster'[d] = cluster[d]
  <2>1. ASSUME NEW f \in BOOLEAN, cluster' = [cluster EXCEPT ![q] = Stb!Appended(cluster[q], f)]
        PROVE  /\ ClusterInv' /\ Stb!Names' = Stb!Names /\ WalGrows /\ FollowStays
               /\ \A d \in Stb!Names \ {q} : cluster'[d] = cluster[d]
    BY <1>1, <1>3, <2>1, AppendKeeps, WriteStep
  <2> QED
    BY <1>3, <2>1, Zenon
<1>5. cluster'[q] = new /\ new.tl = cluster[q].tl /\ Len(new.wal) = n /\ n \in Nat
  <2>1. cluster[q] \in ClusterRecord(Stb!Names) /\ cluster[q].wal \in Seq(Record) /\ Len(cluster[q].wal) \in Nat
    BY ClusterFields DEF ClusterInv
  <2>2. ASSUME NEW f \in BOOLEAN
        PROVE  LET e == Stb!Appended(cluster[q], f) IN e.tl = cluster[q].tl /\ Len(e.wal) = n
    <3> DEFINE e == Stb!Appended(cluster[q], f)
               x == [tl |-> cluster[q].tl, ckpt |-> f]
    <3>1. e.tl = cluster[q].tl /\ e.wal = Append(cluster[q].wal, x) /\ x \in Record
      BY <2>1, AppendedFields
    <3> HIDE DEF x, e
    <3>2. Len(e.wal) = n
      BY <1>2a, <2>1, <3>1
    <3> QED
      BY <3>1, <3>2 DEF e
  <2>3. new.tl = cluster[q].tl /\ Len(new.wal) = n
    BY <2>2, Zenon
  <2>4. cluster'[q] = new
    <3> HIDE DEF new
    <3> QED
      BY <1>3, OneChanges DEF ClusterInv
  <2> HIDE DEF new
  <2> QED
    BY <2>3, <2>4
<1>6. Stb!Fail \/ (new.tl = backup.control[q].timeline /\ backup' = [backup EXCEPT !.pc = "ahead", !.start = Len(new.wal)])
  BY <1>2 DEF Stb!DbBackupStart
<1> HIDE DEF new
<1>7. CASE Stb!Fail
  BY <1>4, <1>7, FailKeeps DEF Stb!Fail
<1>8. CASE new.tl = backup.control[q].timeline /\ backup' = [backup EXCEPT !.pc = "ahead", !.start = Len(new.wal)]
  <2> DEFINE b == [backup EXCEPT !.pc = "ahead", !.start = n]
  <2>1. backup' = b
    BY <1>5, <1>8
  <2>2. backup \in BackupRecord(Stb!Names)
    BY <1>1 DEF Found
  <2>3. /\ b \in BackupRecord(Stb!Names) /\ b.pc = "ahead" /\ b.start = n /\ b.primary = backup.primary
        /\ b.standby = backup.standby /\ b.session = backup.session /\ b.control = backup.control /\ b.copied = backup.copied
    BY <1>5, <2>2 DEF BackupRecord, AfterStart
  <2> HIDE DEF b
  <2>4. cluster[q].up /\ cluster[q].incarnation = backup.session[q]
    BY <1>2 DEF Stb!DbBackupStart, Stb!Connected
  <2>5. cluster'[q].role = "primary" /\ cluster'[q].incarnation >= cluster[q].incarnation
        /\ (cluster'[q].incarnation = cluster[q].incarnation /\ cluster[q].up => cluster'[q].up)
    BY <1>3, <1>4 DEF WalGrows
  <2>6. Found'
    <3>1. backup'.session[q] <= cluster'[q].incarnation
      <4>1. cluster[q].incarnation \in Nat
        BY ClusterFields DEF ClusterInv
      <4>2. cluster'[q].incarnation \in Nat
        BY <1>4 DEF ClusterInv, ClusterTypeOK, ClusterRecord
      <4> QED
        BY <2>1, <2>3, <2>4, <2>5, <4>1, <4>2
    <3>2. cluster'[q].incarnation = backup'.session[q] => cluster'[q].up
      BY <2>1, <2>3, <2>4, <2>5
    <3> QED
      BY <1>1, <1>2, <1>4, <2>1, <2>3, <2>5, <3>1, <3>2 DEF Found, Primary, Source, Same, IsPrimary
  <2>7. ASSUME NEW c \in Stb!Names, c # q PROVE ~Since(c, q, n)'
    <3> SUFFICES ASSUME NEW i \in 1..Len(cluster[c].wal), i >= n, cluster[c].wal[i].tl = cluster[q].tl PROVE FALSE
      BY <1>4, <1>5, <2>7 DEF Since
    <3>1. PICK e \in Stb!Names : Writer(e, cluster[c].wal, i)
      BY DEF ClusterInv, FromWriter
    <3>2. e = q
      BY <1>3, <3>1 DEF ClusterInv, OneWriter, Writer
    <3>3. i <= Len(cluster[q].wal) /\ Len(cluster[q].wal) \in Nat
      BY <3>1, <3>2, ClusterFields DEF ClusterInv, Writer
    <3> QED
      BY <1>2a, <3>3
  <2>8. Followed(q, n)'
    <3> SUFFICES ASSUME NEW c \in Stb!Names, cluster'[c].role = "standby"
                 PROVE  /\ ~Since(c, q, n)'
                        /\ cluster'[c].upstream # q => ~Since(cluster[c].upstream, q, n)'
      BY <1>4 DEF Followed, IsStandby
    <3>1. c # q
      BY <2>5
    <3>2. PICK u \in Stb!Names : u = cluster'[c].upstream
      BY <1>4 DEF ClusterInv, ClusterTypeOK, ClusterRecord
    <3>3. Since(cluster[c].upstream, q, n)' => Since(u, q, n)'
      BY <3>2 DEF Since
    <3> QED
      BY <2>7, <3>1, <3>2, <3>3
  <2>9. Started'
    <3>1. backup'.primary = q /\ backup'.start = n /\ backup'.control[q].timeline = cluster'[q].tl
      BY <1>2, <1>5, <1>8, <2>1, <2>3
    <3> QED
      BY <2>8, <3>1 DEF Started, Primary
  <2>10. Copied'
    BY <1>1, <2>1, <2>3 DEF Copied
  <2> QED
    BY <1>4, <2>6, <2>9, <2>10 DEF BackupInv
<1> QED
  BY <1>6, <1>7, <1>8

(* The steps until the copy.                                               *)
LEMMA ReplayWaitKeeps ==
  ASSUME ClusterInv, BackupInv, Stb!ReplayAhead \/ Stb!ReplayReached \/ Stb!ReplayCheckpoint
  PROVE  ClusterInv' /\ BackupInv'
<1>1. Found /\ UNCHANGED promotions
  BY DEF BackupInv, Stb!ReplayAhead, Stb!ReplayReached, Stb!ReplayCheckpoint
<1>2. ASSUME UNCHANGED cluster, Stb!Fail PROVE ClusterInv' /\ BackupInv'
  <2>1. Stb!Names' = Stb!Names
    BY <1>2 DEF Stb!Names
  <2> QED
    BY <1>1, <1>2, <2>1, ClusterStays, FailKeeps DEF Stb!Fail
<1>3. ASSUME NEW x \in Before, backup.pc \in Before, backup' = [backup EXCEPT !.pc = x], ClusterInv', WalGrows, FollowStays
      PROVE  ClusterInv' /\ BackupInv'
  <2>1. x \in AfterStart \cup {"get", "start", "failed"}
    BY DEF Before, AfterStart
  <2>2. Goes(backup') /\ backup'.pc = x /\ backup'.copied = backup.copied
    BY <1>1, <1>3, <2>1, SetPc
  <2> QED
    BY <1>3, <2>2, BackupStays
<1>4. ASSUME NEW x \in Before, backup.pc \in Before, backup' = [backup EXCEPT !.pc = x], UNCHANGED cluster
      PROVE  ClusterInv' /\ BackupInv'
  BY <1>1, <1>3, <1>4, ClusterStays
<1>5. CASE Stb!ReplayAhead
  BY <1>2, <1>4, <1>5 DEF Stb!ReplayAhead, Before
<1>6. CASE Stb!ReplayReached
  BY <1>2, <1>4, <1>6 DEF Stb!ReplayReached, Before
<1>7. CASE Stb!ReplayCheckpoint
  <2>1. backup.pc \in Before /\ "checkpointed" \in Before /\ backup' = [backup EXCEPT !.pc = "checkpointed"]
    BY <1>7 DEF Stb!ReplayCheckpoint, Before
  <2>2. PICK c \in Stb!Names : c = backup.standby
    BY <1>1, <2>1, BackupFields DEF Found, Primary, Source, Before
  <2>3. ClusterInv' /\ WalGrows /\ FollowStays
    <3>1. CASE cluster' = [cluster EXCEPT ![c].checkpoint = Stb!LastCheckpoint(cluster[c].wal)]
      BY <1>1, <3>1, RestartpointStep
    <3>2. CASE IsPrimary(c) /\ cluster' = [cluster EXCEPT ![c] = Stb!Appended(cluster[c], TRUE)]
      <4>1. ASSUME NEW f \in BOOLEAN, cluster' = [cluster EXCEPT ![c] = Stb!Appended(cluster[c], f)]
            PROVE  ClusterInv' /\ WalGrows /\ FollowStays
        BY <1>1, <3>2, <4>1, WriteStep
      <4> QED
        BY <3>2, <4>1, Zenon
    <3>3. cluster[c].role \in {"primary", "standby"}
      BY ClusterFields DEF ClusterInv
    <3> QED
      BY <1>7, <2>2, <3>1, <3>2, <3>3 DEF Stb!ReplayCheckpoint, Stb!Wal, IsPrimary
  <2> QED
    BY <1>3, <2>1, <2>3
<1> QED
  BY <1>5, <1>6, <1>7

LEMMA PrefixSub ==
  ASSUME NEW R, NEW w \in Seq(R), NEW n \in 1..Len(w)
  PROVE  SubSeq(w, 1, n) \in Seq(R) /\ Len(SubSeq(w, 1, n)) = n /\ Prefix(SubSeq(w, 1, n), w)
<1>1. Len(w) \in Nat /\ n \in Nat
  OBVIOUS
<1>2. SubSeq(w, 1, n) \in Seq(R) /\ Len(SubSeq(w, 1, n)) = n /\ \A i \in 1..n : SubSeq(w, 1, n)[i] = w[i]
  BY <1>1
<1> QED
  BY <1>1, <1>2 DEF Prefix

(* The copy, and what is asked after it.                                   *)
LEMMA CopyKeeps ==
  ASSUME ClusterInv, BackupInv,
         Stb!CheckpointReached \/ Stb!CopyFile \/ Stb!PingPrimary \/ Stb!PingStandby \/ Stb!DbBackupStop \/ Stb!Abort
  PROVE  ClusterInv' /\ BackupInv'
<1>1. Found /\ Started /\ Copied /\ UNCHANGED <<cluster, promotions>>
  BY DEF BackupInv, Stb!CheckpointReached, Stb!CopyFile, Stb!PingPrimary, Stb!PingStandby, Stb!DbBackupStop, Stb!Abort
<1>2. ClusterInv' /\ WalGrows /\ FollowStays /\ Stb!Names' = Stb!Names
  BY <1>1, ClusterStays DEF WalGrows
<1>3. ASSUME Stb!Fail PROVE BackupInv'
  BY <1>2, <1>3, FailKeeps DEF Stb!Fail
<1>4. CASE Stb!Abort
  BY <1>2, <1>3, <1>4 DEF Stb!Abort
<1>5. CASE ~Stb!Fail /\ ~Stb!Abort
  <2>1. backup.pc \in AfterStart /\ backup.primary # NoCluster /\ backup.standby # NoCluster
    BY <1>1, <1>5 DEF Stb!CheckpointReached, Stb!CopyFile, Stb!PingPrimary, Stb!PingStandby, Stb!DbBackupStop,
                      AfterStart, Found, Primary, Source
  <2>2. PICK q \in Stb!Names, t \in Stb!Names, s \in Nat : q = backup.primary /\ t = backup.standby /\ s = backup.start
    BY <1>1, <2>1, BackupFields
  <2>3. /\ cluster[t].wal \in Seq(Record) /\ Len(cluster[t].wal) \in Nat /\ cluster[q].wal \in Seq(Record)
        /\ cluster[t].checkpoint \in 1..Len(cluster[t].wal)
    BY ClusterFields, WalFields DEF ClusterInv
  <2>4. /\ backup.control[q].timeline = cluster[q].tl
        /\ cluster[q].incarnation = backup.session[q] => Followed(q, s)
    BY <1>1, <2>1, <2>2 DEF Started, Primary, Same
  <2>5. ASSUME NEW b, Goes(b), backup' = b, b.pc \in AfterStart
        PROVE  Found' /\ Started' /\ (Same' <=> cluster[q].incarnation = backup.session[q])
    <3>1. /\ backup'.pc \notin {"get", "failed"} => backup.pc \notin {"get", "failed"}
          /\ backup'.pc \in AfterStart => backup.pc \in AfterStart
      BY <2>1 DEF AfterStart
    <3>2. Goes(backup')
      BY <2>5
    <3>3. Found' /\ Started'
      BY <1>1, <1>2, <3>1, <3>2, StillFound
    <3>4. Same' <=> cluster[q].incarnation = backup.session[q]
      BY <1>1, <2>2, <2>5 DEF Goes, Same, Primary
    <3> QED
      BY <3>3, <3>4
  <2>6. ASSUME NEW b, Goes(b), backup' = b
        PROVE  backup'.primary = q /\ backup'.standby = t /\ backup'.start = s
    BY <2>2, <2>6 DEF Goes
  <2>7. CASE Stb!CheckpointReached
    <3> DEFINE b == [backup EXCEPT !.pc = "copy"]
    <3>1. backup' = b /\ backup.pc = "checkpointed"
      BY <1>5, <2>7 DEF Stb!CheckpointReached
    <3>2. Goes(b) /\ b.pc = "copy" /\ b.copied = backup.copied
      BY <1>1, SetPc DEF AfterStart
    <3> HIDE DEF b
    <3>3. backup'.copied = <<>> /\ backup'.pc = "copy"
      BY <1>1, <3>1, <3>2 DEF Copied
    <3>4. cluster[t].checkpoint >= s /\ cluster[t].wal[cluster[t].checkpoint].tl = cluster[q].tl
      BY <1>5, <2>2, <2>4, <2>7 DEF Stb!CheckpointReached, Stb!SameTimeline, Stb!Control, Stb!Wal
    <3>5. Since(t, q, s)
      BY <2>3, <3>4 DEF Since
    <3>6. Prefix(<<>>, cluster[q].wal)
      BY <2>3 DEF Prefix
    <3>7. Copied'
      BY <1>1, <2>6, <3>1, <3>2, <3>3, <3>4, <3>5, <3>6 DEF Copied, Since, Primary, Source
    <3> QED
      BY <1>2, <2>5, <3>1, <3>2, <3>7 DEF BackupInv, AfterStart
  <2>8. CASE Stb!CopyFile
    <3>1. PICK n \in cluster[t].checkpoint - 1..Len(cluster[t].wal) :
             n > 0 /\ backup' = [backup EXCEPT !.copied = SubSeq(cluster[t].wal, 1, n)]
      BY <2>2, <2>8 DEF Stb!CopyFile, Stb!Wal
    <3> DEFINE v == SubSeq(cluster[t].wal, 1, n)
               b == [backup EXCEPT !.copied = v]
    <3>2. n \in 1..Len(cluster[t].wal)
      BY <2>3, <3>1
    <3>3. v \in Seq(Record) /\ Len(v) = n /\ Prefix(v, cluster[t].wal)
      BY <2>3, <3>2, PrefixSub
    <3>4. backup' = b /\ backup.pc = "copy"
      BY <2>8, <3>1 DEF Stb!CopyFile
    <3> HIDE DEF v
    <3>5. Goes(b) /\ b.pc = "copy" /\ b.copied = v
      <4>1. backup \in BackupRecord(Stb!Names)
        BY <1>1 DEF Found
      <4> QED
        BY <3>3, <3>4, <4>1 DEF BackupRecord, Goes
    <3> HIDE DEF b
    <3>6. cluster[t].checkpoint >= s /\ Since(t, q, s)
      BY <1>1, <2>2, <3>4 DEF Copied, Primary, Source
    <3>7. Len(v) >= s - 1
      BY <2>3, <3>1, <3>3, <3>6
    <3>8. cluster[t].role = "standby" /\ cluster[q].incarnation = backup.session[q] => Prefix(v, cluster[q].wal)
      <4> SUFFICES ASSUME IsStandby(t), Followed(q, s) PROVE Prefix(v, cluster[q].wal)
        BY <2>4 DEF IsStandby
      <4>1. Prefix(cluster[t].wal, cluster[q].wal)
        BY <3>6 DEF Followed
      <4> QED
        BY <2>3, <3>3, <4>1, PrefixTrans
    <3>9. Found' /\ Started' /\ (Same' <=> cluster[q].incarnation = backup.session[q])
      BY <2>5, <3>4, <3>5 DEF AfterStart
    <3>10. Copied'
      BY <1>1, <2>6, <3>4, <3>5, <3>6, <3>7, <3>8, <3>9 DEF Copied, Since, IsStandby, Primary, Source
    <3> QED
      BY <1>2, <3>9, <3>10 DEF BackupInv
  <2>9. CASE Stb!PingPrimary
    <3> DEFINE b == [backup EXCEPT !.pc = "ping"]
    <3>1. /\ backup' = b /\ backup.pc = "copy" /\ backup.copied # <<>>
          /\ cluster[q].incarnation = backup.session[q]
      BY <1>5, <2>2, <2>9 DEF Stb!PingPrimary, Stb!Pinged, Stb!Connected
    <3>2. Goes(b) /\ b.pc = "ping" /\ b.copied = backup.copied
      BY <1>1, SetPc DEF AfterStart
    <3> HIDE DEF b
    <3>3. Len(backup.copied) >= s - 1 /\ (cluster[t].role = "standby" => Prefix(backup.copied, cluster[q].wal))
      BY <1>1, <2>2, <3>1 DEF Copied, IsStandby, Same, Primary, Source
    <3>4. Copied'
      BY <1>1, <2>6, <3>1, <3>2, <3>3 DEF Copied, IsStandby, Primary, Source
    <3> QED
      BY <1>2, <2>5, <3>1, <3>2, <3>4 DEF BackupInv, AfterStart
  <2>10. CASE Stb!PingStandby
    <3> DEFINE b == [backup EXCEPT !.pc = "stop"]
    <3>1. backup' = b /\ backup.pc = "ping" /\ cluster[t].role = "standby"
      BY <1>5, <2>2, <2>10 DEF Stb!PingStandby, Stb!Pinged
    <3>2. Goes(b) /\ b.pc = "stop" /\ b.copied = backup.copied
      BY <1>1, SetPc DEF AfterStart
    <3> HIDE DEF b
    <3>3. Len(backup.copied) >= s - 1 /\ Prefix(backup.copied, cluster[q].wal)
      BY <1>1, <2>2, <3>1 DEF Copied, IsStandby, Primary, Source
    <3>4. Copied'
      BY <1>1, <2>6, <3>1, <3>2, <3>3 DEF Copied, Primary, Source
    <3> QED
      BY <1>2, <2>5, <3>1, <3>2, <3>4 DEF BackupInv, AfterStart
  <2>11. CASE Stb!DbBackupStop
    <3> DEFINE b == [backup EXCEPT !.pc = "done"]
    <3>1. backup' = b /\ backup.pc = "stop"
      BY <2>11 DEF Stb!DbBackupStop
    <3>2. Goes(b) /\ b.pc = "done" /\ b.copied = backup.copied
      BY <1>1, SetPc DEF AfterStart
    <3> HIDE DEF b
    <3>3. Len(backup.copied) >= s - 1 /\ Prefix(backup.copied, cluster[q].wal)
      BY <1>1, <2>2, <3>1 DEF Copied, Primary, Source
    <3>4. Copied'
      BY <1>1, <2>6, <3>1, <3>2, <3>3 DEF Copied, Primary, Source
    <3> QED
      BY <1>2, <2>5, <3>1, <3>2, <3>4 DEF BackupInv, AfterStart
  <2> QED
    BY <1>5, <2>7, <2>8, <2>9, <2>10, <2>11
<1> QED
  BY <1>2, <1>3, <1>4, <1>5

LEMMA StandbyInit ==
  ASSUME Stb!Init
  PROVE  ClusterInv /\ BackupInv
<1> DEFINE e == [tl |-> 1, ckpt |-> TRUE]
           w == <<e>>
           I(c) == [role |-> IF c = 1 THEN "primary" ELSE "standby", up |-> TRUE, wal |-> w,
                    tl |-> 1, checkpoint |-> 1, upstream |-> 1, incarnation |-> 0]
<1>1. PICK n \in DOMAIN MaxWal : cluster = [c \in 1..n |-> I(c)]
  BY DEF Stb!Init
<1>2. n \in Nat /\ n >= 1 /\ Stb!Names = 1..n /\ 1 \in Stb!Names /\ promotions = 0
  BY <1>1, WalAssumption DEF Stb!Names, Stb!Init
<1>3. e.tl = 1 /\ e.ckpt = TRUE /\ e \in Record
  BY DEF Record
<1>4. w \in Seq(Record) /\ Len(w) = 1 /\ w[1] = e
  <2> HIDE DEF e
  <2> QED
    BY <1>3
<1>4a. Len(w) = 1
  BY <1>4
<1> HIDE DEF w, e
<1>5. \A c \in Stb!Names : I(c) \in ClusterRecord(Stb!Names)
  <2>1. ASSUME NEW c \in Stb!Names, NEW b \in BOOLEAN
        PROVE  [role |-> IF c = 1 THEN "primary" ELSE "standby", up |-> b, wal |-> w,
                tl |-> 1, checkpoint |-> 1, upstream |-> 1, incarnation |-> 0] \in ClusterRecord(Stb!Names)
    BY <1>2, <1>4 DEF ClusterRecord
  <2> QED
    BY <2>1, Zenon
<1>6. \A c \in Stb!Names : /\ cluster[c] = I(c) /\ cluster[c].wal = w /\ cluster[c].tl = 1 /\ cluster[c].checkpoint = 1
                           /\ cluster[c].upstream = 1 /\ cluster[c].role = IF c = 1 THEN "primary" ELSE "standby"
  BY <1>1, <1>2
<1>7. ClusterTypeOK
  <2>1. cluster = [c \in Stb!Names |-> I(c)]
    BY <1>1, <1>2
  <2> HIDE DEF I
  <2>2. cluster \in [Stb!Names -> ClusterRecord(Stb!Names)]
    BY <1>5, <2>1
  <2> QED
    BY <1>2, <2>2 DEF ClusterTypeOK
<1> HIDE DEF I
<1>8. WalForm
  <2> SUFFICES ASSUME NEW c \in Stb!Names
               PROVE  /\ Len(cluster[c].wal) >= 1 /\ cluster[c].wal[Len(cluster[c].wal)].tl = cluster[c].tl
                      /\ cluster[c].tl <= promotions + 1
                      /\ cluster[c].checkpoint \in 1..Len(cluster[c].wal) /\ cluster[c].wal[cluster[c].checkpoint].ckpt = TRUE
    BY DEF WalForm
  <2>1. cluster[c].wal = w /\ cluster[c].tl = 1 /\ cluster[c].checkpoint = 1
    BY <1>6
  <2>2. w[1].tl = 1 /\ w[1].ckpt = TRUE
    BY <1>3, <1>4
  <2>3. Len(cluster[c].wal) = 1
    BY <1>4a, <2>1, Zenon
  <2> QED
    BY <1>2, <2>1, <2>2, <2>3
<1>9. Roles /\ OneWriter
  BY <1>2, <1>6 DEF Roles, OneWriter, IsPrimary
<1>10. FromWriter
  <2> SUFFICES ASSUME NEW c \in Stb!Names, NEW i \in 1..Len(cluster[c].wal) PROVE Writer(1, cluster[c].wal, i)
    BY <1>2 DEF FromWriter
  <2>1. cluster[c].wal = w /\ cluster[1].wal = w /\ cluster[1].tl = 1 /\ cluster[1].role = "primary"
    BY <1>2, <1>6
  <2>2. i = 1
    <3>1. Len(cluster[c].wal) = 1
      BY <1>4a, <2>1, Zenon
    <3> QED
      BY <3>1
  <2> QED
    BY <1>3, <1>4, <2>1, <2>2 DEF Writer, IsPrimary
<1> DEFINE k == [c \in Stb!Names |-> [checkpoint |-> 0, timeline |-> 0]]
           z == [c \in Stb!Names |-> 0]
<1>11. k \in [Stb!Names -> [checkpoint : Nat, timeline : Nat]] /\ z \in [Stb!Names -> Nat]
  OBVIOUS
<1>12. backup = [pc |-> "get", next |-> 1, primary |-> NoCluster, standby |-> NoCluster,
                 control |-> k, session |-> z, start |-> 0, copied |-> <<>>]
  BY DEF Stb!Init, Stb!Idle
<1> HIDE DEF k, z
<1>13. backup \in BackupRecord(Stb!Names)
  <2>1. ASSUME NEW v \in Seq(Record)
        PROVE  [pc |-> "get", next |-> 1, primary |-> NoCluster, standby |-> NoCluster,
                control |-> k, session |-> z, start |-> 0, copied |-> v] \in BackupRecord(Stb!Names)
    BY <1>11 DEF BackupRecord
  <2>2. <<>> \in Seq(Record)
    OBVIOUS
  <2> QED
    BY <1>12, <2>1, <2>2, Zenon
<1>14. backup.pc = "get" /\ backup.primary = NoCluster /\ backup.copied = <<>>
  BY <1>12
<1>15. Found /\ Started /\ Copied
  BY <1>13, <1>14 DEF Found, Started, Copied, AfterStart, Primary
<1> QED
  BY <1>7, <1>8, <1>9, <1>10, <1>15 DEF ClusterInv, BackupInv

LEMMA StandbyNext ==
  ASSUME ClusterInv, BackupInv, Stb!Next
  PROVE  ClusterInv' /\ BackupInv'
<1>1. CASE Stb!ClusterNext
  <2>1. ClusterInv' /\ WalGrows /\ FollowStays /\ backup' = backup
    BY <1>1, ClusterStep
  <2>2. Goes(backup') /\ backup'.copied = backup.copied /\ backup'.pc = backup.pc
    BY <2>1 DEF Goes, BackupInv, Found
  <2> QED
    BY <2>1, <2>2, BackupStays
<1>2. CASE Stb!DbGetIdx
  <2>1. UNCHANGED <<cluster, promotions>>
    BY <1>2 DEF Stb!DbGetIdx
  <2> QED
    BY <1>2, <2>1, ClusterStays, DbGetIdxKeeps
<1>3. CASE Stb!DbGet
  <2>1. UNCHANGED <<cluster, promotions>>
    BY <1>3 DEF Stb!DbGet
  <2> QED
    BY <1>3, <2>1, ClusterStays, DbGetKeeps
<1>4. CASE Stb!DbBackupStart
  BY <1>4, DbBackupStartKeeps
<1>5. CASE Stb!ReplayAhead \/ Stb!ReplayReached \/ Stb!ReplayCheckpoint
  BY <1>5, ReplayWaitKeeps
<1>6. CASE Stb!CheckpointReached \/ Stb!CopyFile \/ Stb!PingPrimary \/ Stb!PingStandby \/ Stb!DbBackupStop \/ Stb!Abort
  BY <1>6, CopyKeeps
<1> QED
  BY <1>1, <1>2, <1>3, <1>4, <1>5, <1>6 DEF Stb!Next, Stb!BackupNext

LEMMA StandbyUnchanged ==
  ASSUME StandbyInv, UNCHANGED <<part, standbyVars>>
  PROVE  StandbyInv'
<1> SUFFICES ASSUME part = "standby" PROVE ClusterInv' /\ BackupInv'
  BY DEF StandbyInv
<1>1. ClusterInv /\ BackupInv /\ UNCHANGED <<cluster, promotions>> /\ backup' = backup
  BY DEF StandbyInv, standbyVars
<1>2. Goes(backup') /\ backup'.copied = backup.copied /\ backup'.pc = backup.pc
  BY <1>1 DEF Goes, BackupInv, Found
<1> QED
  BY <1>1, <1>2, ClusterStays, BackupStays

(* The clusters and the backup keep the invariant.                         *)
THEOREM StandbyInvariant == MCSpec => []StandbyInv
<1>1. MCInit => StandbyInv
  BY StandbyInit DEF MCInit, StandbyInv
<1>2. StandbyInv /\ [MCNext]_mcVars => StandbyInv'
  <2> SUFFICES ASSUME StandbyInv, [MCNext]_mcVars PROVE StandbyInv'
    OBVIOUS
  <2>1. CASE Pushes(Next)
    BY <2>1, StandbyUnchanged DEF Pushes
  <2>2. CASE part = "standby" /\ Stb!Next /\ UNCHANGED <<part, vars, getVars, pageVars>>
    BY <2>2, StandbyNext DEF StandbyInv
  <2>3. CASE part = "pages" /\ Pgc!Next /\ UNCHANGED <<part, vars, getVars, standbyVars>>
    BY <2>3, StandbyUnchanged
  <2>4. CASE UNCHANGED mcVars
    BY <2>4, StandbyUnchanged DEF mcVars
  <2> QED
    BY <2>1, <2>2, <2>3, <2>4 DEF MCNext
<1> QED
  BY <1>1, <1>2, PTL DEF MCSpec

(* When a backup from a standby is stopped, every file that was copied has *)
(* all records before the start of the backup and none that are not of the *)
(* primary: dbReplayWait() and dbPing() of db/db.c are enough, whoever     *)
(* crashes, is promoted or follows another cluster meanwhile.              *)
THEOREM StandbyCopiedIsConsistent == MCSpec => []CopiedIsConsistent
<1>1. StandbyInv => CopiedIsConsistent
  <2> SUFFICES ASSUME ClusterInv, Found, Copied, backup.pc = "done"
               PROVE  Len(backup.copied) >= backup.start - 1 /\ Stb!IsPrefix(backup.copied, cluster[backup.primary].wal)
    BY DEF StandbyInv, BackupInv, CopiedIsConsistent, Stb!CopiedIsConsistent, Stb!Wal
  <2>1. PICK q \in Stb!Names : q = backup.primary
    BY BackupFields DEF Found, Primary
  <2>2. cluster[q].wal \in Seq(Record) /\ backup.copied \in Seq(Record)
    BY ClusterFields, BackupFields DEF ClusterInv
  <2>3. Len(backup.copied) >= backup.start - 1 /\ Prefix(backup.copied, cluster[q].wal)
    BY <2>1 DEF Copied, Primary
  <2> QED
    BY <2>1, <2>2, <2>3, IsPrefixPointwise
<1> QED
  BY <1>1, StandbyInvariant, PTL
=============================================================================
