--------------------------- MODULE TransferProofs ---------------------------
(***************************************************************************)
(* Proofs about what moves data.  ProtocolParallel: the executor           *)
(* implements JobPool for any set of jobs, any clients and any             *)
(* distribution of the jobs over them.  ObjectStore: the HTTP client gives *)
(* every request the response to it, for any tasks, sessions and faults.   *)
(***************************************************************************)
EXTENDS MCTransfer, FiniteSetTheorems, TLAPS


(* A job is with the callback, or was given out.                           *)
TodoIsNone == \A j \in Job : j \in todo <=> job[j] = "none"

(* The job a client has is running, and no other client has it.            *)
ClientJobRuns ==
  \A c \in Client : client[c].job # NoJob => job[client[c].job] = "running"
OneClient ==
  \A c, d \in Client : client[c].job # NoJob /\ client[c].job = client[d].job => c = d

(* A client that was asked in this round and has no job will get none.     *)
AskedInRound ==
  pc \in {"assign", "results"} =>
    \A c \in Client \ visit : client[c].job = NoJob => todo \cap Dist[c] = {}

(* The round is over when every client was asked.                          *)
VisitedAll == pc = "results" => visit = {}

(* Clients that are about to be read from have a job.                      *)
SelectedHasJob == pc = "collect" => \A c \in sel : client[c].job # NoJob

(* select()'s count is made up of the results in the list and of those     *)
(* still to be read.                                                       *)
CompletedCounts ==
  /\ IsFiniteSet(DoneJobs)
  /\ pc = "select" => DoneJobs = {}
  /\ pc = "collect" => completed = Cardinality(DoneJobs) + Cardinality(sel)
  /\ pc \in {"assign", "results"} => completed = Cardinality(DoneJobs)

ParallelInv ==
  /\ ParallelTypeOK
  /\ TodoIsNone /\ ClientJobRuns /\ OneClient
  /\ AskedInRound /\ VisitedAll /\ SelectedHasJob /\ CompletedCounts

-----------------------------------------------------------------------------
LEMMA FirstClient ==
  ASSUME NEW S \in SUBSET Client, S # {}
  PROVE  First(S) \in S /\ First(S) \in Client
BY FirstIn, ParallelAssumption

LEMMA ClientSetFinite ==
  ASSUME NEW S \in SUBSET Client
  PROVE  IsFiniteSet(S) /\ Cardinality(S) \in Nat
BY FS_Subset, FS_CardinalityType, ParallelAssumption

(* The set of finished jobs does not change with steps of others.          *)
LEMMA DoneJobsSame ==
  ASSUME job' = job
  PROVE  DoneJobs' = DoneJobs
BY DEF DoneJobs

LEMMA InitParallelInv == Init => ParallelInv
<1> SUFFICES ASSUME Init PROVE ParallelInv
  OBVIOUS
<1> USE ParallelAssumption DEF Init
<1>1. ParallelTypeOK
  BY DEF ParallelTypeOK
<1>2. DoneJobs = {}
  BY DEF DoneJobs
<1>3. CompletedCounts
  BY <1>2, FS_EmptySet DEF CompletedCounts
<1> QED
  BY <1>1, <1>3 DEF ParallelInv, TodoIsNone, ClientJobRuns, OneClient, AskedInRound,
                    VisitedAll, SelectedHasJob

-----------------------------------------------------------------------------
(* Every step keeps the invariant *)

LEMMA WorkerInv ==
  ASSUME ParallelInv, NEW c \in Client,
         WorkerRespond(c) \/ WorkerFatal(c) \/ WorkerDies(c)
  PROVE  ParallelInv'
<1>1. UNCHANGED <<pc, jobVars, client, sel, visit, completed>>
  BY DEF WorkerRespond, WorkerFatal, WorkerDies
<1>2. faults' \in Nat
  BY DEF ParallelInv, ParallelTypeOK, WorkerRespond, WorkerFatal, WorkerDies
<1>3. worker' \in [Client -> [st : {"up", "down"},
                            msg : {"none", "result", "error", "fatal"}]]
  <2>1. CASE WorkerRespond(c)
    BY <2>1 DEF ParallelInv, ParallelTypeOK, WorkerRespond
  <2>2. CASE WorkerFatal(c)
    BY <2>2 DEF ParallelInv, ParallelTypeOK, WorkerFatal
  <2>3. CASE WorkerDies(c)
    BY <2>3 DEF ParallelInv, ParallelTypeOK, WorkerDies
  <2> QED
    BY <2>1, <2>2, <2>3
<1>4. ParallelTypeOK'
  BY <1>1, <1>2, <1>3 DEF ParallelInv, ParallelTypeOK, jobVars
<1> QED
  BY <1>1, <1>4, DoneJobsSame
  DEF ParallelInv, TodoIsNone, ClientJobRuns, OneClient, AskedInRound, VisitedAll, SelectedHasJob,
      CompletedCounts, jobVars

LEMMA SelectInv ==
  ASSUME ParallelInv, Select
  PROVE  ParallelInv'
<1> USE DEF ParallelInv
<1>1. Readable \in SUBSET Client /\ \A c \in Readable : client[c].job # NoJob
  BY DEF Readable, Running
<1>2. Cardinality(Readable) \in Nat /\ (Readable = {} => Cardinality(Readable) = 0)
  BY <1>1, ClientSetFinite, FS_EmptySet
<1>3. ParallelTypeOK'
  BY <1>1, <1>2 DEF Select, ParallelTypeOK, jobVars
<1>4. CompletedCounts'
  <2>1. DoneJobs' = {} /\ Cardinality(DoneJobs') = 0 /\ IsFiniteSet(DoneJobs')
    BY DoneJobsSame, FS_EmptySet DEF Select, jobVars, CompletedCounts
  <2> QED
    BY <1>2, <2>1 DEF Select, CompletedCounts
<1> QED
  BY <1>1, <1>3, <1>4
  DEF Select, TodoIsNone, ClientJobRuns, OneClient, AskedInRound, VisitedAll, SelectedHasJob, jobVars

LEMMA CollectInv ==
  ASSUME ParallelInv, Collect
  PROVE  ParallelInv'
<1> USE DEF ParallelInv
<1>1. PICK c \in sel : c = First(sel) /\ c \in Client
  BY FirstClient DEF Collect, ParallelTypeOK
<1>2. PICK j \in Job : j = client[c].job /\ job[j] = "running"
  BY <1>1 DEF Collect, SelectedHasJob, ClientJobRuns, ParallelTypeOK
<1>3. CASE pc' = "thrown" /\ UNCHANGED <<job, outcome, client, worker, sel>>
  <2>1. ParallelTypeOK'
    BY <1>3 DEF Collect, ParallelTypeOK
  <2> QED
    BY <1>3, <2>1, DoneJobsSame
    DEF Collect, TodoIsNone, ClientJobRuns, OneClient, AskedInRound, VisitedAll, SelectedHasJob,
        CompletedCounts
<1>4. CASE /\ worker[c].msg # "fatal"
           /\ job' = [job EXCEPT ![j] = "done"]
           /\ outcome' = [outcome EXCEPT ![j] = IF worker[c].msg = "none" THEN "error"
                                                ELSE worker[c].msg]
           /\ client' = [client EXCEPT ![c].job = NoJob]
           /\ worker' = [worker EXCEPT ![c].msg = "none"]
           /\ sel' = sel \ {c}
           /\ pc' = IF worker[c].msg = "none" THEN "free" ELSE pc
  <2>1. worker[c].msg \in {"none", "result", "error"}
    BY <1>1, <1>4 DEF ParallelTypeOK
  <2>2. ParallelTypeOK'
    BY <1>1, <1>2, <1>4, <2>1 DEF Collect, ParallelTypeOK
  <2>3. /\ \A d \in Client : client'[d].job = IF d = c THEN NoJob ELSE client[d].job
        /\ \A k \in Job : job'[k] = IF k = j THEN "done" ELSE job[k]
    BY <1>1, <1>2, <1>4 DEF ParallelTypeOK
  <2>4. TodoIsNone' /\ ClientJobRuns' /\ OneClient'
    <3>1. \A d \in Client \ {c} : client[d].job # j
      BY <1>1, <1>2, ParallelAssumption DEF OneClient
    <3>2. \A d \in Client : client[d].job \in Job \cup {NoJob}
      BY DEF ParallelTypeOK
    <3> QED
      BY <1>1, <1>2, <2>3, <3>1, <3>2 DEF Collect, TodoIsNone, ClientJobRuns, OneClient
  <2>5. SelectedHasJob' /\ AskedInRound' /\ VisitedAll'
    BY <1>1, <1>4, <2>3 DEF Collect, SelectedHasJob, AskedInRound, VisitedAll, ParallelTypeOK
  <2>6. CompletedCounts'
    <3>1. DoneJobs' = DoneJobs \cup {j} /\ j \notin DoneJobs
      BY <1>2, <2>3 DEF DoneJobs
    <3>2. IsFiniteSet(DoneJobs') /\ Cardinality(DoneJobs') = Cardinality(DoneJobs) + 1
      BY <3>1, FS_AddElement DEF CompletedCounts
    <3>3. Cardinality(sel') = Cardinality(sel) - 1
      BY <1>1, <1>4, ClientSetFinite, FS_RemoveElement DEF ParallelTypeOK
    <3>4. Cardinality(DoneJobs) \in Nat /\ Cardinality(sel) \in Nat
      BY ClientSetFinite, FS_CardinalityType DEF CompletedCounts, ParallelTypeOK
    <3> QED
      BY <1>4, <3>2, <3>3, <3>4 DEF Collect, CompletedCounts
  <2> QED
    BY <2>2, <2>4, <2>5, <2>6
<1> QED
  BY <1>1, <1>2, <1>3, <1>4 DEF Collect

LEMMA CollectedInv ==
  ASSUME ParallelInv, Collected
  PROVE  ParallelInv'
<1> USE DEF ParallelInv
<1>1. ParallelTypeOK'
  BY DEF Collected, ParallelTypeOK, jobVars
<1>2. CompletedCounts'
  <2>1. DoneJobs' = DoneJobs /\ Cardinality(DoneJobs) \in Nat
    BY DoneJobsSame, FS_CardinalityType DEF Collected, jobVars, CompletedCounts
  <2>2. Cardinality(sel) = 0
    BY FS_EmptySet DEF Collected
  <2> QED
    BY <2>1, <2>2 DEF Collected, CompletedCounts
<1> QED
  BY <1>1, <1>2
  DEF Collected, TodoIsNone, ClientJobRuns, OneClient, AskedInRound, VisitedAll, SelectedHasJob, jobVars

(* Steps that leave jobs and clients alone.                                *)
LEMMA MoveInv ==
  ASSUME ParallelInv,
         SessionFreeThrows \/ Busy \/ Assigned \/ CommandThrows \/ Done \/ UNCHANGED vars
  PROVE  ParallelInv'
<1> USE DEF ParallelInv
<1>1. /\ UNCHANGED <<jobVars, client, sel, completed>>
      /\ ParallelTypeOK'
  BY FirstClient
  DEF SessionFreeThrows, Busy, Assigned, CommandThrows, Done, vars, jobVars, ParallelTypeOK
<1>2. AskedInRound'
  <2>1. CASE Busy
    BY <2>1, FirstClient DEF Busy, AskedInRound, jobVars, ParallelTypeOK
  <2>2. CASE Assigned
    BY <2>2 DEF Assigned, AskedInRound, jobVars
  <2>3. CASE SessionFreeThrows \/ CommandThrows \/ Done \/ UNCHANGED vars
    BY <2>3 DEF SessionFreeThrows, CommandThrows, Done, vars, AskedInRound, jobVars
  <2> QED
    BY <2>1, <2>2, <2>3
<1>3. CompletedCounts'
  <2>1. CASE Done
    <3>1. DoneJobs' = DoneJobs /\ (Cardinality(DoneJobs) = 0 => DoneJobs = {})
      BY <1>1, DoneJobsSame, FS_EmptySet DEF jobVars, CompletedCounts
    <3> QED
      BY <2>1, <3>1 DEF Done, CompletedCounts
  <2>2. CASE SessionFreeThrows \/ Busy \/ Assigned \/ CommandThrows \/ UNCHANGED vars
    BY <1>1, <2>2, DoneJobsSame
    DEF SessionFreeThrows, Busy, Assigned, CommandThrows, vars, CompletedCounts, jobVars
  <2> QED
    BY <2>1, <2>2
<1>4. SelectedHasJob' /\ VisitedAll'
  BY <1>1
  DEF SessionFreeThrows, Busy, Assigned, CommandThrows, Done, vars, SelectedHasJob, VisitedAll
<1> QED
  BY <1>1, <1>2, <1>3, <1>4 DEF TodoIsNone, ClientJobRuns, OneClient, jobVars

LEMMA NoMoreInv ==
  ASSUME ParallelInv, NoMore
  PROVE  ParallelInv'
<1> USE DEF ParallelInv
<1>1. PICK c \in visit : c = First(visit) /\ c \in Client
  BY FirstClient DEF NoMore, ParallelTypeOK
<1>2. ParallelTypeOK'
  BY <1>1 DEF NoMore, ParallelTypeOK, jobVars
<1>3. \A d \in Client : client'[d].job = client[d].job
  BY <1>1 DEF NoMore, ParallelTypeOK
<1>4. AskedInRound'
  BY <1>1, <1>3 DEF NoMore, AskedInRound, jobVars
<1> QED
  BY <1>2, <1>3, <1>4, DoneJobsSame
  DEF NoMore, TodoIsNone, ClientJobRuns, OneClient, VisitedAll, SelectedHasJob, CompletedCounts, jobVars

LEMMA AssignInv ==
  ASSUME ParallelInv, NEW j \in Job, Assign(j)
  PROVE  ParallelInv'
<1> USE DEF ParallelInv
<1>1. PICK c \in visit : c = First(visit) /\ c \in Client
  BY FirstClient DEF Assign, ParallelTypeOK
<1>2. job[j] = "none" /\ j # NoJob
  BY ParallelAssumption DEF Assign, TodoIsNone
<1>3. \A d \in Client : client[d].job # j
  BY <1>2 DEF ClientJobRuns
<1>4. PICK st \in {"running", "pending"} : job' = [job EXCEPT ![j] = st]
  BY DEF Assign
<1>5. \A k \in Job : job'[k] = IF k = j THEN st ELSE job[k]
  BY <1>4 DEF ParallelTypeOK
<1>6. DoneJobs' = DoneJobs
  BY <1>2, <1>4, <1>5 DEF DoneJobs
<1>7. TodoIsNone' /\ todo' = todo \ {j}
  BY <1>4, <1>5 DEF Assign, TodoIsNone
<1>8. CASE /\ job' = [job EXCEPT ![j] = "running"]
           /\ client' = [client EXCEPT ![c].job = j]
           /\ visit' = visit \ {c}
           /\ UNCHANGED pc
  <2>1. ParallelTypeOK'
    BY <1>1, <1>8 DEF Assign, ParallelTypeOK
  <2>2. \A d \in Client : client'[d].job = IF d = c THEN j ELSE client[d].job
    BY <1>1, <1>8 DEF ParallelTypeOK
  <2>3. \A k \in Job : job'[k] = IF k = j THEN "running" ELSE job[k]
    BY <1>8 DEF ParallelTypeOK
  <2>4. \A d \in Client : client[d].job \in Job \cup {NoJob}
    BY DEF ParallelTypeOK
  <2>5. ClientJobRuns' /\ OneClient'
    BY <1>3, <2>2, <2>3, <2>4 DEF ClientJobRuns, OneClient
  <2>6. AskedInRound' /\ VisitedAll' /\ SelectedHasJob'
    BY <1>1, <1>2, <1>7, <1>8, <2>2 DEF Assign, AskedInRound, VisitedAll, SelectedHasJob
  <2> QED
    BY <1>6, <1>7, <1>8, <2>1, <2>5, <2>6 DEF Assign, CompletedCounts
<1>9. CASE /\ job' = [job EXCEPT ![j] = "pending"]
           /\ pc' = "thrown"
           /\ UNCHANGED <<client, visit>>
  <2>1. ParallelTypeOK'
    BY <1>9 DEF Assign, ParallelTypeOK
  <2>2. \A k \in Job : job'[k] = IF k = j THEN "pending" ELSE job[k]
    BY <1>9 DEF ParallelTypeOK
  <2>3. \A d \in Client : client[d].job \in Job \cup {NoJob}
    BY DEF ParallelTypeOK
  <2>4. ClientJobRuns' /\ OneClient'
    BY <1>3, <1>9, <2>2, <2>3 DEF ClientJobRuns, OneClient
  <2> QED
    BY <1>6, <1>7, <1>9, <2>1, <2>4
    DEF AskedInRound, VisitedAll, SelectedHasJob, CompletedCounts
<1> QED
  BY <1>1, <1>8, <1>9 DEF Assign

LEMMA ResultInv ==
  ASSUME ParallelInv, NEW j \in Job, Result(j)
  PROVE  ParallelInv'
<1> USE DEF ParallelInv
<1>1. job[j] = "done" /\ j \in DoneJobs
  BY DEF Result, DoneJobs
<1>2. ParallelTypeOK'
  BY DEF Result, ParallelTypeOK
<1>3. \A k \in Job : job'[k] = IF k = j THEN "taken" ELSE job[k]
  BY DEF Result, ParallelTypeOK
<1>4. TodoIsNone' /\ ClientJobRuns' /\ OneClient'
  <2>1. \A d \in Client : client[d].job \in Job \cup {NoJob}
    BY DEF ParallelTypeOK
  <2> QED
    BY <1>1, <1>3, <2>1 DEF Result, TodoIsNone, ClientJobRuns, OneClient
<1>5. CompletedCounts'
  <2>1. DoneJobs' = DoneJobs \ {j}
    BY <1>1, <1>3 DEF DoneJobs
  <2>2. IsFiniteSet(DoneJobs') /\ Cardinality(DoneJobs') = Cardinality(DoneJobs) - 1
    BY <1>1, <2>1, FS_RemoveElement DEF CompletedCounts
  <2>3. completed' = completed - 1 /\ pc' \in {"results", "error"} /\ pc = "results"
    BY DEF Result
  <2> QED
    BY <2>2, <2>3 DEF CompletedCounts
<1>6. AskedInRound' /\ VisitedAll' /\ SelectedHasJob'
  BY DEF Result, AskedInRound, VisitedAll, SelectedHasJob
<1> QED
  BY <1>2, <1>4, <1>5, <1>6

LEMMA NextParallelInv == ParallelInv /\ [Next]_vars => ParallelInv'
BY WorkerInv, SelectInv, CollectInv, CollectedInv, MoveInv, NoMoreInv, AssignInv, ResultInv
DEF Next, Executor

(* The inductive invariant holds in every reachable state.                 *)
THEOREM ParallelInvariant == Spec => []ParallelInv
BY InitParallelInv, NextParallelInv, PTL DEF Spec

(* For any number of jobs and clients: the count select() returned is the  *)
(* number of results in the list when the command takes them.              *)
THEOREM ParallelCompletedIsDone == Spec => []CompletedIsDone
<1>1. ParallelInv => CompletedIsDone
  BY DEF ParallelInv, CompletedCounts, CompletedIsDone
<1> QED
  BY <1>1, ParallelInvariant, PTL
-----------------------------------------------------------------------------
(* The executor implements JobPool *)

LEMMA InitRefines == Init => Pool!Init
BY DEF Init, Pool!Init, Phase, Over

(* Steps that leave jobs alone and do not end the loop.                    *)
LEMMA PoolStutters ==
  ASSUME job' = job, outcome' = outcome,
         pc \notin {"done", "thrown"}, pc' \notin {"done", "thrown"}
  PROVE  UNCHANGED Pool!vars
BY DEF Pool!vars, Phase, Over

LEMMA PoolFails ==
  ASSUME pc \notin {"done", "thrown"}, pc' = "thrown", UNCHANGED <<Phase, outcome>>
  PROVE  Pool!Fail
BY DEF Pool!Fail, Over

(* One job moves on.                                                       *)
LEMMA PhaseMoves ==
  ASSUME ParallelTypeOK, NEW j \in Job,
         NEW st \in {"pending", "running", "done", "taken"},
         job' = [job EXCEPT ![j] = st]
  PROVE  Phase' = [Phase EXCEPT ![j] = CASE st = "running" -> "running"
                                         [] st = "done" -> "finished"
                                         [] st = "taken" -> "reported"
                                         [] OTHER -> "new"]
BY DEF Phase, ParallelTypeOK

LEMMA CollectRefines ==
  ASSUME ParallelInv, Collect
  PROVE  Pool!Next
<1> USE DEF ParallelInv
<1>1. PICK c \in sel : c = First(sel) /\ c \in Client
  BY FirstClient DEF Collect, ParallelTypeOK
<1>2. PICK j \in Job : j = client[c].job /\ job[j] = "running"
  BY <1>1 DEF Collect, SelectedHasJob, ClientJobRuns, ParallelTypeOK
<1>3. CASE worker[c].msg = "fatal"
  BY <1>1, <1>3, PoolFails DEF Collect, Phase, Pool!Next
<1>4. CASE worker[c].msg # "fatal"
  <2>1. PICK o \in {"result", "error"} : outcome' = [outcome EXCEPT ![j] = o]
    BY <1>1, <1>2, <1>4 DEF Collect, ParallelTypeOK
  <2>2. job' = [job EXCEPT ![j] = "done"] /\ pc = "collect" /\ pc' \in {"collect", "free"}
    BY <1>1, <1>2, <1>4 DEF Collect
  <2>3. Phase' = [Phase EXCEPT ![j] = "finished"]
    BY <2>2, PhaseMoves
  <2>4. Phase[j] = "running" /\ Over = "no" /\ Over' = "no"
    BY <1>2, <2>2 DEF Phase, Over
  <2>5. Pool!Finish(j, o)
    BY <2>1, <2>3, <2>4 DEF Pool!Finish
  <2> QED
    BY <2>5 DEF Pool!Next
<1> QED
  BY <1>3, <1>4

LEMMA AssignRefines ==
  ASSUME ParallelInv, NEW j \in Job, Assign(j)
  PROVE  Pool!Next
<1> USE DEF ParallelInv
<1>1. job[j] = "none" /\ pc = "assign" /\ outcome' = outcome
  BY DEF Assign, TodoIsNone
<1>2. Phase[j] = "new" /\ Over = "no"
  BY <1>1 DEF Phase, Over
<1>3. CASE job' = [job EXCEPT ![j] = "running"] /\ UNCHANGED pc
  <2>1. Phase' = [Phase EXCEPT ![j] = "running"]
    BY <1>3, PhaseMoves
  <2>2. Pool!Start(j)
    BY <1>1, <1>2, <1>3, <2>1 DEF Pool!Start, Over
  <2> QED
    BY <2>2 DEF Pool!Next
<1>4. CASE job' = [job EXCEPT ![j] = "pending"] /\ pc' = "thrown"
  <2>1. Phase' = [Phase EXCEPT ![j] = "new"]
    BY <1>4, PhaseMoves
  <2>2. Phase' = Phase
    BY <1>2, <2>1 DEF Phase
  <2> QED
    BY <1>1, <1>4, <2>2, PoolFails DEF Pool!Next
<1> QED
  BY <1>3, <1>4 DEF Assign

LEMMA ResultRefines ==
  ASSUME ParallelInv, NEW j \in Job, Result(j)
  PROVE  Pool!Next
<1>1. Phase[j] = "finished" /\ Over = "no" /\ Over' = "no"
  BY DEF Result, DoneJobs, Phase, Over
<1>2. Phase' = [Phase EXCEPT ![j] = "reported"]
  BY PhaseMoves DEF Result, ParallelInv
<1>3. Pool!Report(j)
  BY <1>1, <1>2 DEF Result, Pool!Report
<1> QED
  BY <1>3 DEF Pool!Next

(* The only step that needs the invariant as a whole: an empty job list    *)
(* after a round in which every client was asked.                          *)
LEMMA DoneRefines ==
  ASSUME ParallelInv, Done, JobList = {}
  PROVE  Pool!Complete
<1> USE DEF ParallelInv
<1>1. \A j \in Job : job[j] \in {"none", "taken"}
  BY DEF JobList, ParallelTypeOK
<1>2. \A c \in Client : client[c].job = NoJob
  BY <1>1 DEF ClientJobRuns, ParallelTypeOK
<1>3. \A c \in Client : todo \cap Dist[c] = {}
  <2>1. pc = "results" /\ visit = {}
    BY DEF Done, VisitedAll
  <2> QED
    BY <1>2, <2>1 DEF AskedInRound
<1>4. todo = {}
  BY <1>3, ParallelAssumption DEF ParallelTypeOK
<1>5. \A j \in Job : Phase[j] = "reported"
  BY <1>1, <1>4 DEF TodoIsNone, Phase
<1> QED
  BY <1>5 DEF Done, Pool!Complete, Phase, Over, jobVars

LEMMA NextRefines == ParallelInv /\ [Next]_vars => [Pool!Next]_Pool!vars
<1> SUFFICES ASSUME ParallelInv, [Next]_vars PROVE [Pool!Next]_Pool!vars
  OBVIOUS
<1>1. CASE Select \/ Collected \/ NoMore \/ Busy \/ Assigned
  BY <1>1, PoolStutters DEF Select, Collected, NoMore, Busy, Assigned, jobVars
<1>2. CASE SessionFreeThrows \/ CommandThrows
  BY <1>2, PoolFails DEF SessionFreeThrows, CommandThrows, jobVars, Phase, Pool!Next
<1>3. CASE Done
  <2>1. CASE JobList = {}
    BY <1>3, <2>1, DoneRefines DEF Pool!Next
  <2>2. CASE JobList # {}
    BY <1>3, <2>2, PoolStutters DEF Done, jobVars
  <2> QED
    BY <2>1, <2>2
<1>4. CASE Collect \/ \E j \in Job : Assign(j) \/ Result(j)
  BY <1>4, CollectRefines, AssignRefines, ResultRefines
<1>5. CASE (\E c \in Client : WorkerRespond(c) \/ WorkerFatal(c) \/ WorkerDies(c))
           \/ UNCHANGED vars
  <2>1. UNCHANGED <<pc, job, outcome>>
    BY <1>5 DEF WorkerRespond, WorkerFatal, WorkerDies, vars, jobVars
  <2> QED
    BY <2>1 DEF Pool!vars, Phase, Over
<1> QED
  BY <1>1, <1>2, <1>3, <1>4, <1>5 DEF Next, Executor

(* The executor is a job pool, for any jobs, clients and distribution.     *)
THEOREM ParallelImplementsPool == Spec => ImplementsPool
BY InitRefines, NextRefines, ParallelInvariant, PTL DEF Spec, ImplementsPool, Pool!Spec

-----------------------------------------------------------------------------
(***************************************************************************)
(* The HTTP client and the tasks that share it (ObjectStore).              *)
(***************************************************************************)
(* A session, and a response on its wire.                                  *)
SessionShape ==
    /\ session = [s \in Sessions |-> session[s]]
    /\ \A s \in Sessions : session[s] = [held |-> session[s].held, alive |-> session[s].alive, wire |-> session[s].wire]
SlotShape ==
    /\ slot = [k \in Slots |-> slot[k]]
    /\ \A k \in Slots : slot[k] = [req |-> slot[k].req, sess |-> slot[k].sess] /\ slot[k].sess \in Sessions \union {None}
IsResponse(r) == r = [for |-> r.for, code |-> r.code, frame |-> r.frame, body |-> r.body]

(* A session is kept for reuse once, with nothing on its wire; or it is    *)
(* that of one request, with at most the response to it; or it is closed.  *)
KeptOnce ==
    /\ reuse \in Seq(Sessions)
    /\ \A i, j \in 1..Len(reuse) : reuse[i] = reuse[j] => i = j
    /\ \A i \in 1..Len(reuse) : session[reuse[i]].held = TRUE /\ session[reuse[i]].wire = <<>>
OneRequest ==
    /\ \A k, l \in Slots : slot[k].sess # None /\ slot[k].sess = slot[l].sess => k = l
    /\ \A k \in Slots, i \in 1..Len(reuse) : slot[k].sess # reuse[i]
    /\ \A k \in Slots : slot[k].sess # None => slot[k].req # None /\ session[slot[k].sess].held = TRUE
OwnAnswer(wire, k, req) == wire = <<>> \/ \E r : wire = <<r>> /\ IsResponse(r) /\ r.for = <<k, req>>
OneAnswer ==
    \A k \in Slots : slot[k].sess # None => OwnAnswer(session[slot[k].sess].wire, k, slot[k].req)
OthersClosed ==
    \A s \in Sessions : (\A k \in Slots : slot[k].sess # s) /\ (\A i \in 1..Len(reuse) : reuse[i] # s) =>
        session[s] = Obj!Closed

HttpInv == SessionShape /\ SlotShape /\ KeptOnce /\ OneRequest /\ OneAnswer /\ OthersClosed

(* A task asks for something new only when nothing of its is out.          *)
WriterState(d, t, req) ==
    t.pc # "error" =>
        /\ {"pc", "parts", "started"} \subseteq DOMAIN t /\ t.parts \in Nat
        /\ t.pc \in {"idle", "fill", "part"} => t.started \/ (d = "azure" /\ t.parts > 0) \/ req = None
        /\ t.pc = "sending" /\ d # "azure" => t.started
TaskInv ==
    /\ DOMAIN task = Obj!Tasks /\ \A t \in Obj!Tasks : "pc" \in DOMAIN task[t]
    /\ \A w \in Writers : WriterState(driver, task[w], slot[w].req)
    /\ \A r \in Readers : task[r].pc = "open" => slot[r].req = None
    /\ task[Remover].pc = "start" => slot[Lister].req = None

ObjectInv == part = "objects" => HttpInv /\ TaskInv

-----------------------------------------------------------------------------
LEMMA OneWire ==
  ASSUME NEW r
  PROVE  /\ Head(<<r>>) = r /\ Tail(<<r>>) = <<>> /\ <<>> \o <<r>> = <<r>>
         /\ <<r>> # <<>> /\ <<>> \o <<>> = <<>>
<1>1. <<r>> \in Seq({r}) /\ <<>> \in Seq({r})
  OBVIOUS
<1> QED
  BY <1>1

(* When nothing is kept for reuse and a slot has no session, not all       *)
(* sessions are held.                                                      *)
LEMMA FreeSession ==
  ASSUME HttpInv, NEW k \in Slots, slot[k].sess = None, reuse = <<>>
  PROVE  \E s \in Sessions : ~session[s].held
<1> SUFFICES ASSUME \A s \in Sessions : session[s].held PROVE FALSE
  OBVIOUS
<1> DEFINE D == {l \in Slots \ {k} : slot[l].sess \in Sessions}
           f == [l \in D |-> slot[l].sess]
<1>1. \A s \in Sessions : \E l \in D : slot[l].sess = s
  <2> SUFFICES ASSUME NEW s \in Sessions, \A l \in D : slot[l].sess # s PROVE FALSE
    OBVIOUS
  <2>1. \A l \in Slots : slot[l].sess # s
    BY SlotsAssumption
  <2>2. session[s] = Obj!Closed
    BY <2>1, Len(reuse) = 0 DEF HttpInv, OthersClosed
  <2> QED
    BY <2>2 DEF Obj!Closed
<1>2. f \in Surjection(D, Sessions)
  BY <1>1 DEF Surjection
<1>3. IsFiniteSet(Slots \ {k}) /\ Cardinality(Slots \ {k}) = Cardinality(Slots) - 1
  BY FS_RemoveElement, SlotsAssumption
<1>4. IsFiniteSet(D) /\ Cardinality(D) <= Cardinality(Slots \ {k})
  <2>1. D \in SUBSET (Slots \ {k})
    OBVIOUS
  <2> QED
    BY <1>3, <2>1, FS_Subset
<1>5. Cardinality(Sessions) <= Cardinality(D)
  <2> HIDE DEF D, f
  <2> QED
    BY <1>2, <1>4, FS_Surjection
<1>6. Cardinality(Sessions) \in Nat /\ Cardinality(Slots) \in Nat /\ Cardinality(D) \in Nat
  <2> HIDE DEF D
  <2> QED
    BY <1>4, FS_CardinalityType, SlotsAssumption
<1> HIDE DEF D
<1> QED
  BY <1>3, <1>4, <1>5, <1>6, SlotsAssumption

(* The session a request is sent on: nobody else's, with an empty wire     *)
(* (httpClientOpen()).                                                     *)
LEMMA OpenIsOwn ==
  ASSUME HttpInv, NEW k \in Slots, slot[k].sess = None
  PROVE  /\ Obj!HttpClientOpen \in Sessions
         /\ session[Obj!HttpClientOpen].wire = <<>>
         /\ \A l \in Slots : slot[l].sess # Obj!HttpClientOpen
         /\ reuse = <<>> => \A i \in 1..Len(reuse) : reuse[i] # Obj!HttpClientOpen
         /\ reuse # <<>> => Obj!HttpClientOpen = reuse[1]
<1>1. CASE reuse = <<>>
  <2> DEFINE s == Obj!HttpClientOpen
  <2>1. s = CHOOSE x \in Sessions : ~session[x].held
    BY <1>1 DEF Obj!HttpClientOpen
  <2>2. s \in Sessions /\ ~session[s].held
    BY <1>1, <2>1, FreeSession
  <2> HIDE DEF s
  <2>3. \A l \in Slots : slot[l].sess # s
    BY <2>2, SlotsAssumption DEF HttpInv, OneRequest
  <2>4. Len(reuse) = 0
    BY <1>1
  <2>5. session[s] = Obj!Closed
    BY <2>2, <2>3, <2>4 DEF HttpInv, OthersClosed
  <2>6. session[s].wire = <<>>
    BY <2>5 DEF Obj!Closed
  <2> QED
    BY <1>1, <2>2, <2>3, <2>4, <2>6 DEF s
<1>2. CASE reuse # <<>>
  <2>1. reuse \in Seq(Sessions)
    BY DEF HttpInv, KeptOnce
  <2>2. Obj!HttpClientOpen = reuse[1] /\ 1 \in 1..Len(reuse) /\ reuse[1] \in Sessions
    BY <1>2, <2>1 DEF Obj!HttpClientOpen
  <2> QED
    BY <1>2, <2>2 DEF HttpInv, KeptOnce, OneRequest
<1> QED
  BY <1>1, <1>2

(* A request is sent: the session it gets has nothing but the response to  *)
(* it, if anything.                                                        *)
LEMMA SendKeeps ==
  ASSUME HttpInv, NEW k \in Slots, Obj!Unsent(k), NEW alive, NEW answer,
         OwnAnswer(answer, k, slot[k].req),
         Obj!SendOn(k, alive, answer)
  PROVE  HttpInv' /\ \A l \in Slots : slot'[l].req = slot[l].req
<1> DEFINE s == Obj!HttpClientOpen
<1>1. slot[k].sess = None /\ slot[k].req # None
  BY DEF Obj!Unsent
<1>2. /\ s \in Sessions /\ session[s].wire = <<>> /\ \A l \in Slots : slot[l].sess # s
      /\ reuse = <<>> => \A i \in 1..Len(reuse) : reuse[i] # s
      /\ reuse # <<>> => s = reuse[1]
  BY <1>1, OpenIsOwn
<1>3. session[s].wire \o answer = answer
  BY <1>2, OneWire
<1>4. /\ session' = [session EXCEPT ![s] = [held |-> TRUE, alive |-> alive, wire |-> answer]]
      /\ reuse' = IF reuse # <<>> THEN Tail(reuse) ELSE reuse
      /\ slot' = [slot EXCEPT ![k].sess = s]
  BY <1>3 DEF Obj!SendOn, Obj!Reused
<1> HIDE DEF s
<1>5. /\ reuse \in Seq(Sessions) /\ \A i, j \in 1..Len(reuse) : reuse[i] = reuse[j] => i = j
  BY DEF HttpInv, KeptOnce
<1>6. /\ reuse' \in Seq(Sessions)
      /\ \A i, j \in 1..Len(reuse') : reuse'[i] = reuse'[j] => i = j
      /\ \A i \in 1..Len(reuse') : reuse'[i] # s /\ \E j \in 1..Len(reuse) : reuse'[i] = reuse[j]
      /\ \A j \in 1..Len(reuse) : reuse[j] # s => \E i \in 1..Len(reuse') : reuse'[i] = reuse[j]
  <2>1. CASE reuse = <<>>
    BY <1>2, <1>4, <1>5, <2>1
  <2>2. CASE reuse # <<>>
    <3>1. /\ Tail(reuse) \in Seq(Sessions) /\ Len(Tail(reuse)) = Len(reuse) - 1 /\ Len(reuse) \in Nat \ {0}
          /\ \A i \in 1..Len(Tail(reuse)) : Tail(reuse)[i] = reuse[i + 1]
      BY <2>2, <1>5
    <3>2. reuse' = Tail(reuse)
      BY <2>2, <1>4
    <3>3. \A j \in 1..Len(reuse) : reuse[j] # s => \E i \in 1..Len(reuse') : reuse'[i] = reuse[j]
      <4> SUFFICES ASSUME NEW j \in 1..Len(reuse), reuse[j] # s
                   PROVE  \E i \in 1..Len(reuse') : reuse'[i] = reuse[j]
        OBVIOUS
      <4>1. j # 1
        BY <2>2, <1>2
      <4>2. j - 1 \in 1..Len(reuse') /\ reuse'[j - 1] = reuse[j]
        BY <4>1, <3>1, <3>2
      <4> QED
        BY <4>2
    <3>4. \A i \in 1..Len(reuse') : i + 1 \in 1..Len(reuse) /\ i + 1 # 1 /\ reuse'[i] = reuse[i + 1]
      BY <3>1, <3>2
    <3>5. \A i \in 1..Len(reuse') : reuse'[i] # s /\ \E j \in 1..Len(reuse) : reuse'[i] = reuse[j]
      BY <1>2, <1>5, <2>2, <3>1, <3>4
    <3>6. \A i, j \in 1..Len(reuse') : reuse'[i] = reuse'[j] => i = j
      <4> SUFFICES ASSUME NEW i \in 1..Len(reuse'), NEW j \in 1..Len(reuse'), reuse'[i] = reuse'[j] PROVE i = j
        OBVIOUS
      <4>1. i + 1 = j + 1
        BY <1>5, <3>4
      <4> QED
        BY <4>1
    <3> QED
      BY <3>1, <3>2, <3>3, <3>5, <3>6
  <2> QED
    BY <2>1, <2>2
<1>7. SessionShape'
  BY <1>2, <1>4 DEF HttpInv, SessionShape
<1>8. SlotShape' /\ \A l \in Slots : slot'[l].req = slot[l].req /\ slot'[l].sess = IF l = k THEN s ELSE slot[l].sess
  BY <1>2, <1>4 DEF HttpInv, SlotShape
<1>9. \A x \in Sessions : session'[x] = IF x = s THEN [held |-> TRUE, alive |-> alive, wire |-> answer] ELSE session[x]
  BY <1>4 DEF HttpInv, SessionShape
<1>10. KeptOnce'
  <2>1. \A i \in 1..Len(reuse') : session'[reuse'[i]].held = TRUE /\ session'[reuse'[i]].wire = <<>>
    BY <1>5, <1>6, <1>9 DEF HttpInv, KeptOnce
  <2> QED
    BY <1>6, <2>1 DEF KeptOnce
<1>11. OneRequest'
  <2>1. \A l, m \in Slots : slot'[l].sess # None /\ slot'[l].sess = slot'[m].sess => l = m
    BY <1>2, <1>8 DEF HttpInv, OneRequest
  <2>2. \A l \in Slots, i \in 1..Len(reuse') : slot'[l].sess # reuse'[i]
    BY <1>6, <1>8 DEF HttpInv, OneRequest
  <2>3. \A l \in Slots : slot'[l].sess # None => slot'[l].req # None /\ session'[slot'[l].sess].held = TRUE
    BY <1>1, <1>2, <1>8, <1>9 DEF HttpInv, OneRequest, SlotShape
  <2> QED
    BY <2>1, <2>2, <2>3 DEF OneRequest
<1>12. OneAnswer'
  <2> SUFFICES ASSUME NEW l \in Slots, slot'[l].sess # None
               PROVE  OwnAnswer(session'[slot'[l].sess].wire, l, slot'[l].req)
    BY DEF OneAnswer, OwnAnswer, IsResponse
  <2>1. CASE l = k
    BY <2>1, <1>2, <1>8, <1>9
  <2>2. CASE l # k
    BY <2>2, <1>2, <1>8, <1>9 DEF HttpInv, OneAnswer, SlotShape
  <2> QED
    BY <2>1, <2>2
<1>13. OthersClosed'
  <2> SUFFICES ASSUME NEW x \in Sessions, \A l \in Slots : slot'[l].sess # x, \A i \in 1..Len(reuse') : reuse'[i] # x
               PROVE  session'[x] = Obj!Closed
    BY DEF OthersClosed, Obj!Closed
  <2>1. x # s
    BY <1>8
  <2>2. \A l \in Slots : slot[l].sess # x
    BY <1>1, <1>8, SlotsAssumption
  <2>3. \A j \in 1..Len(reuse) : reuse[j] # x
    BY <1>6, <2>1
  <2> QED
    BY <1>9, <2>1, <2>2, <2>3 DEF HttpInv, OthersClosed
<1> QED
  BY <1>7, <1>8, <1>10, <1>11, <1>12, <1>13 DEF HttpInv

(* A request is given up with its session (httpSessionFree()); its slot    *)
(* may have another request then.                                          *)
LEMMA DiscardKeeps ==
  ASSUME HttpInv, NEW k \in Slots, Obj!Sent(k), NEW next, session' = Obj!Freed(slot[k].sess), UNCHANGED reuse,
         slot' = [slot EXCEPT ![k] = [req |-> next, sess |-> None]]
  PROVE  HttpInv' /\ slot'[k].req = next /\ \A l \in Slots \ {k} : slot'[l] = slot[l]
<1> DEFINE s == slot[k].sess
<1>1. s \in Sessions /\ s # None
  BY DEF Obj!Sent, HttpInv, SlotShape
<1>2. /\ \A l \in Slots : slot[l].sess = s => l = k
      /\ \A i \in 1..Len(reuse) : reuse[i] # s
  BY <1>1 DEF HttpInv, OneRequest
<1>3. /\ SlotShape' /\ \A l \in Slots \ {k} : slot'[l] = slot[l]
      /\ slot'[k].req = next /\ slot'[k].sess = None
  BY DEF HttpInv, SlotShape
<1>4. session' = [session EXCEPT ![s] = Obj!Closed]
  BY DEF Obj!Freed
<1>5. SessionShape' /\ \A x \in Sessions : session'[x] = IF x = s THEN Obj!Closed ELSE session[x]
  BY <1>1, <1>4 DEF HttpInv, SessionShape, Obj!Closed
<1> HIDE DEF s
<1>6. KeptOnce'
  BY <1>2, <1>5 DEF HttpInv, KeptOnce
<1>7. OneRequest'
  <2>1. \A l, m \in Slots : slot'[l].sess # None /\ slot'[l].sess = slot'[m].sess => l = m
    BY <1>3 DEF HttpInv, OneRequest
  <2>2. \A l \in Slots, i \in 1..Len(reuse') : slot'[l].sess # reuse'[i]
    BY <1>3, SlotsAssumption DEF HttpInv, OneRequest, KeptOnce
  <2>3. \A l \in Slots : slot'[l].sess # None => slot'[l].req # None /\ session'[slot'[l].sess].held = TRUE
    BY <1>2, <1>3, <1>5 DEF HttpInv, OneRequest, SlotShape
  <2> QED
    BY <2>1, <2>2, <2>3 DEF OneRequest
<1>8. OneAnswer'
  <2> SUFFICES ASSUME NEW l \in Slots, slot'[l].sess # None
               PROVE  OwnAnswer(session'[slot'[l].sess].wire, l, slot'[l].req)
    BY DEF OneAnswer, OwnAnswer, IsResponse
  <2>1. l # k /\ slot[l].sess \in Sessions /\ slot[l].sess # s
    BY <1>2, <1>3 DEF HttpInv, SlotShape
  <2> QED
    BY <1>3, <1>5, <2>1 DEF HttpInv, OneAnswer
<1>9. OthersClosed'
  <2> SUFFICES ASSUME NEW x \in Sessions, \A l \in Slots : slot'[l].sess # x, \A i \in 1..Len(reuse') : reuse'[i] # x
               PROVE  session'[x] = Obj!Closed
    BY DEF OthersClosed, Obj!Closed
  <2>1. CASE x = s
    BY <1>5, <2>1
  <2>2. CASE x # s
    <3>1. \A l \in Slots : slot[l].sess # x
      BY <1>3, <2>2 DEF s
    <3> QED
      BY <1>5, <2>2, <3>1 DEF HttpInv, OthersClosed
  <2> QED
    BY <2>1, <2>2
<1> QED
  BY <1>3, <1>5, <1>6, <1>7, <1>8, <1>9 DEF HttpInv

(* A response that is complete leaves nothing on its session, which is     *)
(* kept (httpClientReuse()).                                               *)
LEMMA KeepKeeps ==
  ASSUME HttpInv, NEW k \in Slots, Obj!Answered(k), NEW next, Obj!Keep(slot[k].sess),
         slot' = [slot EXCEPT ![k] = [req |-> next, sess |-> None]]
  PROVE  HttpInv' /\ slot'[k].req = next /\ \A l \in Slots \ {k} : slot'[l] = slot[l]
<1> DEFINE s == slot[k].sess
<1>1. s \in Sessions /\ s # None
  BY DEF Obj!Answered, Obj!Sent, HttpInv, SlotShape
<1>2. /\ \A l \in Slots : slot[l].sess = s => l = k
      /\ \A i \in 1..Len(reuse) : reuse[i] # s
      /\ session[s].held = TRUE
  BY <1>1 DEF HttpInv, OneRequest
<1>3. /\ SlotShape' /\ \A l \in Slots \ {k} : slot'[l] = slot[l]
      /\ slot'[k].req = next /\ slot'[k].sess = None
  BY DEF HttpInv, SlotShape
<1>4. Tail(session[s].wire) = <<>>
  <2>1. session[s].wire # <<>>
    BY DEF Obj!Answered
  <2>2. OwnAnswer(session[s].wire, k, slot[k].req)
    BY <1>1 DEF HttpInv, OneAnswer
  <2>3. PICK r : session[s].wire = <<r>>
    BY <2>1, <2>2 DEF OwnAnswer
  <2> QED
    BY <2>3, OneWire
<1>5. session' = [session EXCEPT ![s].wire = <<>>] /\ reuse' = Append(reuse, s)
  BY <1>4 DEF Obj!Keep
<1> HIDE DEF s
<1>6. SessionShape' /\ \A x \in Sessions : session'[x] = IF x = s THEN [session[s] EXCEPT !.wire = <<>>] ELSE session[x]
  BY <1>1, <1>5 DEF HttpInv, SessionShape
<1>7. session'[s].held = TRUE /\ session'[s].wire = <<>>
  BY <1>1, <1>2, <1>6 DEF HttpInv, SessionShape
<1>8. reuse \in Seq(Sessions) /\ Len(reuse) \in Nat
  BY DEF HttpInv, KeptOnce
<1>9. /\ reuse' \in Seq(Sessions) /\ Len(reuse') = Len(reuse) + 1
      /\ reuse'[Len(reuse) + 1] = s /\ \A i \in 1..Len(reuse) : reuse'[i] = reuse[i]
  BY <1>1, <1>5, <1>8
<1>10. \A i \in 1..Len(reuse') : i \in 1..Len(reuse) \/ i = Len(reuse) + 1
  BY <1>8, <1>9
<1>11. KeptOnce'
  <2>1. \A i, j \in 1..Len(reuse') : reuse'[i] = reuse'[j] => i = j
    BY <1>2, <1>9, <1>10 DEF HttpInv, KeptOnce
  <2>2. \A i \in 1..Len(reuse') : session'[reuse'[i]].held = TRUE /\ session'[reuse'[i]].wire = <<>>
    <3> SUFFICES ASSUME NEW i \in 1..Len(reuse')
                 PROVE  session'[reuse'[i]].held = TRUE /\ session'[reuse'[i]].wire = <<>>
      OBVIOUS
    <3>1. CASE i = Len(reuse) + 1
      BY <3>1, <1>7, <1>9
    <3>2. CASE i \in 1..Len(reuse)
      BY <3>2, <1>2, <1>6, <1>8, <1>9 DEF HttpInv, KeptOnce
    <3> QED
      BY <3>1, <3>2, <1>10
  <2> QED
    BY <1>9, <2>1, <2>2 DEF KeptOnce
<1>12. OneRequest'
  <2>1. \A l, m \in Slots : slot'[l].sess # None /\ slot'[l].sess = slot'[m].sess => l = m
    BY <1>3 DEF HttpInv, OneRequest
  <2>2. \A l \in Slots, i \in 1..Len(reuse') : slot'[l].sess # reuse'[i]
    <3> SUFFICES ASSUME NEW l \in Slots, NEW i \in 1..Len(reuse') PROVE slot'[l].sess # reuse'[i]
      OBVIOUS
    <3>1. reuse'[i] \in Sessions
      BY <1>9
    <3>2. CASE l = k
      BY <1>3, <3>1, <3>2, SlotsAssumption
    <3>3. CASE l # k
      BY <1>2, <1>3, <1>9, <1>10, <3>3 DEF HttpInv, OneRequest
    <3> QED
      BY <3>2, <3>3
  <2>3. \A l \in Slots : slot'[l].sess # None => slot'[l].req # None /\ session'[slot'[l].sess].held = TRUE
    BY <1>2, <1>3, <1>6 DEF HttpInv, OneRequest, SlotShape
  <2> QED
    BY <2>1, <2>2, <2>3 DEF OneRequest
<1>13. OneAnswer'
  <2> SUFFICES ASSUME NEW l \in Slots, slot'[l].sess # None
               PROVE  OwnAnswer(session'[slot'[l].sess].wire, l, slot'[l].req)
    BY DEF OneAnswer, OwnAnswer, IsResponse
  <2>1. l # k /\ slot[l].sess \in Sessions /\ slot[l].sess # s
    BY <1>2, <1>3 DEF HttpInv, SlotShape
  <2> QED
    BY <1>3, <1>6, <2>1 DEF HttpInv, OneAnswer
<1>14. OthersClosed'
  <2> SUFFICES ASSUME NEW x \in Sessions, \A l \in Slots : slot'[l].sess # x, \A i \in 1..Len(reuse') : reuse'[i] # x
               PROVE  session'[x] = Obj!Closed
    BY DEF OthersClosed, Obj!Closed
  <2>1. Len(reuse) + 1 \in 1..Len(reuse') /\ \A i \in 1..Len(reuse) : i \in 1..Len(reuse')
    BY <1>8, <1>9
  <2>2. x # s /\ \A i \in 1..Len(reuse) : reuse[i] # x
    BY <1>9, <2>1
  <2>3. \A l \in Slots : slot[l].sess # x
    BY <1>3, <2>2 DEF s
  <2> QED
    BY <1>6, <2>2, <2>3 DEF HttpInv, OthersClosed
<1> QED
  BY <1>3, <1>6, <1>11, <1>12, <1>13, <1>14 DEF HttpInv

(* httpResponseDone(), with either outcome.                                *)
LEMMA DoneKeeps ==
  ASSUME HttpInv, NEW k \in Slots, Obj!Answered(k), NEW next, Obj!HttpResponseDone(k),
         slot' = [slot EXCEPT ![k] = [req |-> next, sess |-> None]]
  PROVE  HttpInv' /\ slot'[k].req = next /\ \A l \in Slots \ {k} : slot'[l] = slot[l]
<1>1. CASE Obj!Discard(slot[k].sess)
  BY <1>1, DiscardKeeps DEF Obj!Discard, Obj!Answered
<1>2. CASE Obj!Keep(slot[k].sess)
  BY <1>2, KeepKeeps
<1> QED
  BY <1>1, <1>2 DEF Obj!HttpResponseDone

LEMMA SlotForm ==
  ASSUME HttpInv, NEW k \in Slots
  PROVE  [slot EXCEPT ![k].sess = None] = [slot EXCEPT ![k] = [req |-> slot[k].req, sess |-> None]]
<1>1. slot[k] = [req |-> slot[k].req, sess |-> slot[k].sess]
  BY DEF HttpInv, SlotShape
<1>2. [slot[k] EXCEPT !.sess = None] = [req |-> slot[k].req, sess |-> None]
  BY <1>1
<1> QED
  BY <1>2

LEMMA CachedKeeps ==
  ASSUME HttpInv, NEW k \in Slots, NEW next, Obj!HttpResponseCached(k, next)
  PROVE  HttpInv' /\ slot'[k].req = next /\ \A l \in Slots \ {k} : slot'[l] = slot[l]
  BY DoneKeeps DEF Obj!HttpResponseCached

(* A request that is to be sent again, after a response that asks for it   *)
(* or without one, is the same request.                                    *)
LEMMA RetryKeeps ==
  ASSUME HttpInv, NEW k \in Slots, Obj!HttpRequestRetry(k) \/ Obj!HttpResponseRetry(k)
  PROVE  HttpInv' /\ \A l \in Slots : slot'[l].req = slot[l].req
<1>1. CASE Obj!HttpRequestRetry(k)
  BY <1>1, SlotForm, DiscardKeeps DEF Obj!HttpRequestRetry, Obj!Broken, Obj!Discard
<1>2. CASE Obj!HttpResponseRetry(k)
  BY <1>2, SlotForm, DoneKeeps DEF Obj!HttpResponseRetry
<1> QED
  BY <1>1, <1>2

(* Requests that are freed take their sessions with them                   *)
(* (httpRequestFree(), httpResponseFree()).                                *)
LEMMA FreeKeeps ==
  ASSUME HttpInv, NEW K \in SUBSET Slots, Obj!HttpFree(K)
  PROVE  HttpInv' /\ (\A l \in K : slot'[l].req = None) /\ (\A l \in Slots \ K : slot'[l] = slot[l])
<1>1. /\ SlotShape' /\ \A l \in Slots \ K : slot'[l] = slot[l]
      /\ \A l \in K : slot'[l].req = None /\ slot'[l].sess = None
  BY DEF HttpInv, SlotShape, Obj!HttpFree, Obj!NoRequest
<1>2. UNCHANGED reuse
  BY DEF Obj!HttpFree
<1>4. SessionShape'
  BY DEF HttpInv, SessionShape, Obj!HttpFree, Obj!Closed
<1>5. \A x \in Sessions : (\A l \in K : slot[l].sess # x) => session'[x] = session[x]
  BY DEF Obj!HttpFree
<1>6. \A x \in Sessions : (\E l \in K : slot[l].sess = x) => session'[x] = Obj!Closed
  BY DEF Obj!HttpFree
<1>7. KeptOnce'
  <2>1. \A i \in 1..Len(reuse) : session'[reuse[i]] = session[reuse[i]]
    BY <1>5 DEF HttpInv, KeptOnce, OneRequest
  <2> QED
    BY <1>2, <2>1 DEF HttpInv, KeptOnce
<1>8. \A l \in Slots : slot'[l].sess # None =>
         /\ l \notin K /\ slot'[l] = slot[l]
         /\ session'[slot[l].sess] = session[slot[l].sess]
  <2> SUFFICES ASSUME NEW l \in Slots, slot'[l].sess # None, l \notin K, slot'[l] = slot[l]
               PROVE  session'[slot[l].sess] = session[slot[l].sess]
    BY <1>1
  <2>1. slot[l].sess \in Sessions
    BY DEF HttpInv, SlotShape
  <2>2. \A m \in K : slot[m].sess # slot[l].sess
    BY DEF HttpInv, OneRequest
  <2> QED
    BY <1>5, <2>1, <2>2
<1>9. OneRequest'
  <2>1. \A l, m \in Slots : slot'[l].sess # None /\ slot'[l].sess = slot'[m].sess => l = m
    BY <1>8 DEF HttpInv, OneRequest
  <2>2. \A l \in Slots, i \in 1..Len(reuse') : slot'[l].sess # reuse'[i]
    BY <1>1, <1>2, SlotsAssumption DEF HttpInv, OneRequest, KeptOnce
  <2>3. \A l \in Slots : slot'[l].sess # None => slot'[l].req # None /\ session'[slot'[l].sess].held = TRUE
    BY <1>8 DEF HttpInv, OneRequest
  <2> QED
    BY <2>1, <2>2, <2>3 DEF OneRequest
<1>10. OneAnswer'
  <2> SUFFICES ASSUME NEW l \in Slots, slot'[l].sess # None
               PROVE  OwnAnswer(session'[slot'[l].sess].wire, l, slot'[l].req)
    BY DEF OneAnswer, OwnAnswer, IsResponse
  <2> QED
    BY <1>8 DEF HttpInv, OneAnswer
<1>11. OthersClosed'
  <2> SUFFICES ASSUME NEW x \in Sessions, \A l \in Slots : slot'[l].sess # x, \A i \in 1..Len(reuse') : reuse'[i] # x
               PROVE  session'[x] = Obj!Closed
    BY DEF OthersClosed, Obj!Closed
  <2>1. CASE \E l \in K : slot[l].sess = x
    BY <1>6, <2>1
  <2>2. CASE \A l \in K : slot[l].sess # x
    <3>1. \A l \in Slots : slot[l].sess # x
      BY <1>1, <2>2
    <3> QED
      BY <1>2, <1>5, <2>2, <3>1 DEF HttpInv, OthersClosed
  <2> QED
    BY <2>1, <2>2
<1> QED
  BY <1>1, <1>4, <1>7, <1>9, <1>10, <1>11 DEF HttpInv

(* A new request in a slot that has none out.                              *)
LEMMA RequestKeeps ==
  ASSUME HttpInv, NEW k \in Slots, NEW op, NEW arg, slot[k].req = None, Obj!Request(k, op, arg)
  PROVE  HttpInv' /\ \A l \in Slots \ {k} : slot'[l] = slot[l]
<1>1. slot[k].sess = None
  BY DEF HttpInv, OneRequest
<1>2. UNCHANGED <<session, reuse>>
  BY DEF Obj!Request
<1>3. SlotShape' /\ \A l \in Slots \ {k} : slot'[l] = slot[l]
  BY DEF HttpInv, SlotShape, Obj!Request
<1>4. slot'[k].sess = None
  BY <1>1 DEF HttpInv, SlotShape, Obj!Request
<1>5. SessionShape' /\ KeptOnce'
  BY <1>2 DEF HttpInv, SessionShape, KeptOnce
<1>6. OneRequest'
  BY <1>1, <1>2, <1>3, <1>4 DEF HttpInv, OneRequest
<1>7. OneAnswer'
  <2> SUFFICES ASSUME NEW l \in Slots, slot'[l].sess # None
               PROVE  OwnAnswer(session'[slot'[l].sess].wire, l, slot'[l].req)
    BY DEF OneAnswer, OwnAnswer, IsResponse
  <2> QED
    BY <1>2, <1>3, <1>4 DEF HttpInv, OneAnswer
<1>8. OthersClosed'
  <2> SUFFICES ASSUME NEW x \in Sessions, \A l \in Slots : slot'[l].sess # x, \A i \in 1..Len(reuse') : reuse'[i] # x
               PROVE  session'[x] = Obj!Closed
    BY DEF OthersClosed, Obj!Closed
  <2> QED
    BY <1>1, <1>2, <1>3, <1>4, SlotsAssumption DEF HttpInv, OthersClosed
<1> QED
  BY <1>3, <1>5, <1>6, <1>7, <1>8 DEF HttpInv

(* What only changes the contents of a session that is not closed.         *)
LEMMA ContentKeeps ==
  ASSUME HttpInv, UNCHANGED <<reuse, slot>>, SessionShape', NEW s \in Sessions, session[s] # Obj!Closed,
         session'[s].held = session[s].held, \A x \in Sessions \ {s} : session'[x] = session[x],
         \/ session'[s].wire = session[s].wire
         \/ \E k \in Slots : slot[k].sess = s /\ OwnAnswer(session'[s].wire, k, slot[k].req)
  PROVE  HttpInv'
<1>1. \A x \in Sessions : session'[x].held = session[x].held
  OBVIOUS
<1>2. SlotShape'
  BY DEF HttpInv, SlotShape
<1>3. KeptOnce'
  <2>1. \A i \in 1..Len(reuse) : session'[reuse[i]].wire = session[reuse[i]].wire
    BY DEF HttpInv, KeptOnce, OneRequest
  <2> QED
    BY <1>1, <2>1 DEF HttpInv, KeptOnce
<1>4. OneRequest'
  BY <1>1 DEF HttpInv, OneRequest, SlotShape
<1>5. OneAnswer'
  <2> SUFFICES ASSUME NEW l \in Slots, slot'[l].sess # None
               PROVE  OwnAnswer(session'[slot'[l].sess].wire, l, slot'[l].req)
    BY DEF OneAnswer, OwnAnswer, IsResponse
  <2>1. slot[l].sess \in Sessions /\ OwnAnswer(session[slot[l].sess].wire, l, slot[l].req)
    BY DEF HttpInv, OneAnswer, SlotShape
  <2>2. CASE slot[l].sess # s \/ session'[s].wire = session[s].wire
    BY <2>1, <2>2
  <2>3. CASE slot[l].sess = s /\ session'[s].wire # session[s].wire
    BY <2>1, <2>3 DEF HttpInv, OneRequest
  <2> QED
    BY <2>2, <2>3
<1>6. OthersClosed'
  <2> SUFFICES ASSUME NEW x \in Sessions, \A l \in Slots : slot'[l].sess # x, \A i \in 1..Len(reuse') : reuse'[i] # x
               PROVE  session'[x] = Obj!Closed
    BY DEF OthersClosed, Obj!Closed
  <2> QED
    BY DEF HttpInv, OthersClosed
<1> QED
  BY <1>2, <1>3, <1>4, <1>5, <1>6 DEF HttpInv

(* A connection breaks.                                                    *)
LEMMA BreakKeeps ==
  ASSUME HttpInv, NEW s \in Sessions, Obj!HttpBreak(s)
  PROVE  HttpInv' /\ slot' = slot
<1> DEFINE y == [held |-> session[s].held, alive |-> FALSE, wire |-> session[s].wire]
<1>1. UNCHANGED <<reuse, slot>> /\ session' = [session EXCEPT ![s].alive = FALSE] /\ session[s].alive
  BY DEF Obj!HttpBreak
<1>2. [session[s] EXCEPT !.alive = FALSE] = y
  <2>1. session[s] = [held |-> session[s].held, alive |-> session[s].alive, wire |-> session[s].wire]
    BY DEF HttpInv, SessionShape
  <2>2. ASSUME NEW v PROVE [session[s] EXCEPT !.alive = v] = [held |-> session[s].held, alive |-> v, wire |-> session[s].wire]
    BY <2>1
  <2> QED
    BY <2>2, Zenon
<1>3. session' = [x \in Sessions |-> IF x = s THEN y ELSE session[x]]
  BY <1>1, <1>2 DEF HttpInv, SessionShape
<1>4. session' = [x \in Sessions |-> session'[x]]
  BY <1>3
<1>5. \A x \in Sessions :
        session'[x] = [held |-> session'[x].held, alive |-> session'[x].alive, wire |-> session'[x].wire]
  <2> SUFFICES ASSUME NEW x \in Sessions
               PROVE  session'[x] = [held |-> session'[x].held, alive |-> session'[x].alive, wire |-> session'[x].wire]
    OBVIOUS
  <2>1. CASE x = s
    <3>1. session'[x] = y
      BY <1>3, <2>1
    <3> QED
      BY <3>1, Zenon
  <2>2. CASE x # s
    BY <1>3, <2>2 DEF HttpInv, SessionShape
  <2> QED
    BY <2>1, <2>2
<1>6. session'[s].held = session[s].held /\ session'[s].wire = session[s].wire
  BY <1>3
<1>7. session[s] # Obj!Closed
  BY <1>1 DEF Obj!Closed
<1> QED
  BY <1>1, <1>3, <1>4, <1>5, <1>6, <1>7, ContentKeeps DEF SessionShape

(* A piece of the content is read: what is left is still the response to   *)
(* this request; and when it was the last piece the session is kept or     *)
(* freed (httpResponseRead()).                                             *)
LEMMA ReadKeeps ==
  ASSUME HttpInv, NEW k \in Slots, Obj!HttpResponseRead(k)
  PROVE  HttpInv' /\ (slot'[k] = slot[k] \/ slot'[k].req = None) /\ \A l \in Slots \ {k} : slot'[l] = slot[l]
<1>1. Obj!Answered(k)
  BY DEF Obj!HttpResponseRead
<1>2. CASE Obj!AtEnd(k)
  BY <1>1, <1>2, DoneKeeps DEF Obj!HttpResponseRead, Obj!NoRequest
<1>3. CASE ~Obj!AtEnd(k)
  <2> DEFINE s == slot[k].sess
             b == Obj!Unread(k)
  <2>1. s \in Sessions /\ s # None
    BY <1>1 DEF Obj!Answered, Obj!Sent, HttpInv, SlotShape
  <2>2. OwnAnswer(session[s].wire, k, slot[k].req) /\ session[s].wire # <<>>
    BY <1>1, <2>1 DEF HttpInv, OneAnswer, Obj!Answered
  <2>3. PICK r : session[s].wire = <<r>> /\ IsResponse(r) /\ r.for = <<k, slot[k].req>>
    BY <2>2 DEF OwnAnswer
  <2>4. session' = [session EXCEPT ![s].wire[1].body = b] /\ UNCHANGED <<reuse, slot>>
    BY <1>3 DEF Obj!HttpResponseRead
  <2> HIDE DEF s, b
  <2> DEFINE q == [for |-> r.for, code |-> r.code, frame |-> r.frame, body |-> b]
             y == [held |-> session[s].held, alive |-> session[s].alive, wire |-> <<q>>]
  <2>5. [r EXCEPT !.body = b] = q
    BY <2>3 DEF IsResponse
  <2>6. [session[s].wire EXCEPT ![1].body = b] = <<q>>
    BY <2>3, <2>5
  <2>7. [session[s] EXCEPT !.wire = <<q>>] = y
    BY <2>1 DEF HttpInv, SessionShape
  <2>8. session' = [session EXCEPT ![s] = y]
    BY <2>4, <2>6, <2>7
  <2>9. session' = [x \in Sessions |-> IF x = s THEN y ELSE session[x]]
    BY <2>1, <2>8 DEF HttpInv, SessionShape
  <2>10. SessionShape'
    BY <2>9 DEF HttpInv, SessionShape
  <2>11. session'[s].held = session[s].held /\ session'[s].wire = <<q>>
    BY <2>1, <2>9
  <2>12. IsResponse(q) /\ q.for = <<k, slot[k].req>>
    BY <2>3 DEF IsResponse
  <2>13. OwnAnswer(session'[s].wire, k, slot[k].req)
    BY <2>11, <2>12 DEF OwnAnswer
  <2>14. session[s] # Obj!Closed
    BY <2>2 DEF Obj!Closed
  <2>15. \A x \in Sessions \ {s} : session'[x] = session[x]
    BY <2>9
  <2>16. slot[k].sess = s
    BY DEF s
  <2> QED
    BY <2>1, <2>4, <2>10, <2>11, <2>13, <2>14, <2>15, <2>16, ContentKeeps
<1> QED
  BY <1>2, <1>3

LEMMA UnchangedKeeps ==
  ASSUME HttpInv, UNCHANGED <<session, reuse, slot>>
  PROVE  HttpInv' /\ slot' = slot
  BY DEF HttpInv, SessionShape, SlotShape, KeptOnce, OneRequest, OneAnswer, OwnAnswer, IsResponse, OthersClosed, Obj!Closed

-----------------------------------------------------------------------------
LEMMA Names ==
  /\ Obj!Tasks = Writers \union Readers \union {Remover} /\ Obj!Tasks \subseteq Slots
  /\ \A w \in Writers : w \in Slots /\ w \notin Readers /\ w # Remover /\ w # Lister /\ Obj!TaskOf(w) = w /\ Obj!SlotsOf(w) = {w}
  /\ \A r \in Readers : r \in Slots /\ r \notin Writers /\ r # Remover /\ r # Lister /\ Obj!TaskOf(r) = r /\ Obj!SlotsOf(r) = {r}
  /\ Remover \in Slots /\ Remover \notin Writers /\ Remover \notin Readers /\ Obj!TaskOf(Remover) = Remover
  /\ Lister \in Slots /\ Lister \notin Writers /\ Lister \notin Readers /\ Lister # Remover /\ Obj!TaskOf(Lister) = Remover
  /\ Obj!SlotsOf(Remover) = {Remover, Lister}
  /\ \A k \in Slots : Obj!TaskOf(k) \in Obj!Tasks /\ (k \in Writers \/ k \in Readers \/ k = Lister \/ k = Remover)
  /\ \A t \in Obj!Tasks : Obj!SlotsOf(t) \subseteq Slots /\ t \in Obj!SlotsOf(t)
  BY SlotsAssumption DEF Obj!Tasks, Obj!TaskOf, Obj!SlotsOf

(* A step of a task t, which becomes r.                                    *)
LEMMA TaskStep ==
  ASSUME TaskInv, driver' = driver, NEW t \in Obj!Tasks, NEW r, "pc" \in DOMAIN r, Obj!Set(t, r),
         \A l \in Slots \ Obj!SlotsOf(t) : slot'[l].req = slot[l].req,
         t \in Writers => WriterState(driver, r, slot'[t].req),
         t \in Readers => r.pc # "open", t = Remover => r.pc # "start"
  PROVE  TaskInv'
<1>1. task' = [task EXCEPT ![t] = r]
  BY DEF Obj!Set
<1>2. task'[t] = r /\ \A u \in Obj!Tasks \ {t} : task'[u] = task[u]
  BY <1>1 DEF TaskInv
<1>3. Obj!Tasks' = Obj!Tasks
  BY DEF Obj!Tasks
<1>4. DOMAIN task' = Obj!Tasks /\ \A u \in Obj!Tasks : "pc" \in DOMAIN task'[u]
  BY <1>1, <1>2 DEF TaskInv
<1>5. \A w \in Writers : WriterState(driver', task'[w], slot'[w].req)
  <2> SUFFICES ASSUME NEW w \in Writers PROVE WriterState(driver, task'[w], slot'[w].req)
    OBVIOUS
  <2>1. CASE w = t
    BY <2>1, <1>2
  <2>2. CASE w # t
    <3>1. w \in Obj!Tasks /\ w \in Slots \ Obj!SlotsOf(t)
      BY <2>2, Names DEF Obj!SlotsOf
    <3>2. task'[w] = task[w] /\ slot'[w].req = slot[w].req
      BY <1>2, <2>2, <3>1
    <3> QED
      BY <3>2 DEF TaskInv
  <2> QED
    BY <2>1, <2>2
<1>6. \A x \in Readers : task'[x].pc = "open" => slot'[x].req = None
  <2> SUFFICES ASSUME NEW x \in Readers, task'[x].pc = "open" PROVE slot'[x].req = None
    OBVIOUS
  <2>1. x # t
    BY <1>2
  <2>2. x \in Obj!Tasks /\ x \in Slots \ Obj!SlotsOf(t)
    BY <2>1, Names DEF Obj!SlotsOf
  <2> QED
    BY <1>2, <2>1, <2>2 DEF TaskInv
<1>7. task'[Remover].pc = "start" => slot'[Lister].req = None
  <2> SUFFICES ASSUME task'[Remover].pc = "start" PROVE slot'[Lister].req = None
    OBVIOUS
  <2>1. Remover # t
    BY <1>2
  <2>2. Remover \in Obj!Tasks /\ Lister \in Slots \ Obj!SlotsOf(t)
    BY <2>1, Names DEF Obj!SlotsOf
  <2> QED
    BY <1>2, <2>1, <2>2 DEF TaskInv
<1> QED
  BY <1>3, <1>4, <1>5, <1>6, <1>7 DEF TaskInv, WriterState

(* The tasks stay where they are and no slot gets another request.         *)
LEMMA TaskStays ==
  ASSUME TaskInv, UNCHANGED <<driver, task>>, \A l \in Slots : slot'[l].req \in {slot[l].req, None}
  PROVE  TaskInv'
<1>1. Obj!Tasks' = Obj!Tasks
  BY DEF Obj!Tasks
<1>2. \A w \in Writers : WriterState(driver', task'[w], slot'[w].req)
  BY Names DEF TaskInv, WriterState
<1> QED
  BY <1>1, <1>2, Names DEF TaskInv, WriterState

(* A task ends with an error: its requests are freed with their sessions.  *)
LEMMA ErrorKeeps ==
  ASSUME HttpInv, TaskInv, NEW t \in Obj!Tasks, Obj!Error(t)
  PROVE  HttpInv' /\ TaskInv'
<1>1. Obj!HttpFree(Obj!SlotsOf(t)) /\ driver' = driver /\ Obj!Set(t, [task[t] EXCEPT !.pc = "error"])
  BY DEF Obj!Error, Obj!Goto, Obj!server
<1>2. Obj!SlotsOf(t) \in SUBSET Slots
  BY Names
<1>3. HttpInv' /\ \A l \in Slots \ Obj!SlotsOf(t) : slot'[l] = slot[l]
  BY <1>1, <1>2, FreeKeeps
<1> DEFINE r == [task[t] EXCEPT !.pc = "error"]
<1>4. "pc" \in DOMAIN r /\ r.pc = "error"
  BY DEF TaskInv
<1> HIDE DEF r
<1>5. WriterState(driver, r, slot'[t].req)
  BY <1>4 DEF WriterState
<1>6. Obj!Set(t, r)
  BY <1>1 DEF r
<1>7. TaskInv'
  BY <1>1, <1>3, <1>4, <1>5, <1>6, TaskStep
<1> QED
  BY <1>3, <1>7

(* An attempt to send, and what the caller does after an asynchronous one. *)
LEMMA AsyncKeeps ==
  ASSUME TaskInv, driver' = driver, NEW k \in Slots, Obj!Active(k), Obj!SentAsync(k),
         \A l \in Slots : slot'[l].req = slot[l].req
  PROVE  TaskInv'
<1>1. CASE UNCHANGED <<task, call>>
  BY <1>1, TaskStays
<1>2. CASE k \in Writers /\ task[k].pc = "sending"
  <2> DEFINE t == task[k]
             r == Obj!PartSent(t)
  <2>1. Obj!TaskOf(k) = k /\ k \in Obj!Tasks
    BY <1>2, Names
  <2>2. Obj!Set(k, r)
    BY <1>2, <2>1 DEF Obj!SentAsync
  <2>3. WriterState(driver, t, slot[k].req)
    BY <1>2 DEF TaskInv
  <2>4. {"pc", "parts", "started"} \subseteq DOMAIN t /\ t.parts \in Nat /\ (driver # "azure" => t.started)
    BY <1>2, <2>3 DEF WriterState
  <2> HIDE DEF t
  <2>5. /\ {"pc", "parts", "started"} \subseteq DOMAIN r
        /\ r.parts = (IF driver = "s3" THEN t.parts ELSE t.parts + 1)
        /\ r.started = t.started /\ r.pc \in {"finish", "idle", "fill"}
    BY <2>4 DEF Obj!PartSent
  <2> HIDE DEF r
  <2>6. WriterState(driver, r, slot'[k].req)
    BY <2>4, <2>5 DEF WriterState
  <2> QED
    BY <1>2, <2>1, <2>2, <2>5, <2>6, Names, TaskStep
<1>3. CASE k = Lister \/ k = Remover
  <2>1. Obj!TaskOf(k) = Remover /\ Remover \in Obj!Tasks
    BY <1>3, Names
  <2>2. CASE task[Remover].pc = "listsend"
    <3> DEFINE r == [task[Remover] EXCEPT !.pc = "page"]
    <3>1. Obj!Set(Remover, r)
      BY <2>1, <2>2 DEF Obj!SentAsync, Obj!Goto
    <3>2. "pc" \in DOMAIN r /\ r.pc = "page"
      BY <2>1 DEF TaskInv
    <3> HIDE DEF r
    <3> QED
      BY <2>1, <3>1, <3>2, Names, TaskStep
  <2>3. CASE task[Remover].pc = "delsend"
    <3> DEFINE r == [task[Remover] EXCEPT !.batch = {}, !.pc = "page"]
    <3>1. Obj!Set(Remover, r)
      BY <2>1, <2>3 DEF Obj!SentAsync
    <3>2. "pc" \in DOMAIN r /\ r.pc = "page"
      BY <2>1 DEF TaskInv
    <3> HIDE DEF r
    <3> QED
      BY <2>1, <3>1, <3>2, Names, TaskStep
  <2>4. CASE task[Remover].pc \notin {"listsend", "delsend"}
    <3>1. task[Remover].pc # "sending"
      BY <1>3, <2>1, Names DEF Obj!Active
    <3>2. UNCHANGED <<task, call>>
      BY <2>1, <2>4, <3>1 DEF Obj!SentAsync
    <3> QED
      BY <1>1, <3>2
  <2> QED
    BY <2>2, <2>3, <2>4
<1>4. CASE k \in Readers \/ (k \in Writers /\ task[k].pc # "sending")
  <2>1. Obj!TaskOf(k) = k
    BY <1>4, Names
  <2>2. task[k].pc \notin {"sending", "listsend", "delsend"}
    BY <1>4, <2>1, Names DEF Obj!Active
  <2>3. UNCHANGED <<task, call>>
    BY <2>1, <2>2 DEF Obj!SentAsync
  <2> QED
    BY <1>1, <2>3
<1> QED
  BY <1>2, <1>3, <1>4, Names

LEMMA ResponseForm ==
  ASSUME NEW k, NEW code, NEW frame, NEW body
  PROVE  OwnAnswer(<<Obj!Response(k, code, frame, body)>>, k, slot[k].req)
<1> DEFINE r == Obj!Response(k, code, frame, body)
<1>1. IsResponse(r) /\ r.for = <<k, slot[k].req>>
  BY DEF Obj!Response, IsResponse
<1> QED
  BY <1>1 DEF OwnAnswer

LEMMA SentKeeps ==
  ASSUME HttpInv, NEW k \in Slots, NEW code, NEW frame, NEW body,
         Obj!HttpRequestSent(k, Obj!Response(k, code, frame, body))
  PROVE  HttpInv' /\ \A l \in Slots : slot'[l].req = slot[l].req
<1> DEFINE r == Obj!Response(k, code, frame, body)
<1>1. OwnAnswer(<<r>>, k, slot[k].req)
  BY ResponseForm
<1>2. Obj!Unsent(k) /\ Obj!SendOn(k, TRUE, <<r>>)
  BY DEF Obj!HttpRequestSent
<1> HIDE DEF r
<1> QED
  BY <1>1, <1>2, SendKeeps

LEMMA NotSentKeeps ==
  ASSUME HttpInv, NEW k \in Slots, Obj!HttpRequestLost(k) \/ Obj!HttpRequestStale(k)
  PROVE  HttpInv' /\ \A l \in Slots : slot'[l].req = slot[l].req
<1>1. OwnAnswer(<<>>, k, slot[k].req)
  BY DEF OwnAnswer
<1>2. Obj!Unsent(k) /\ Obj!SendOn(k, FALSE, <<>>)
  BY DEF Obj!HttpRequestLost, Obj!HttpRequestStale
<1> QED
  BY <1>1, <1>2, SendKeeps

(* The steps that any slot's request takes.                                *)
LEMMA SlotSteps ==
  ASSUME HttpInv, TaskInv, NEW k \in Slots,
         Obj!Send(k) \/ Obj!SendCommitError(k) \/ Obj!Retry(k) \/ Obj!GiveUp(k) \/ Obj!Refused(k)
         \/ \E F \in SUBSET (1..3) : Obj!SendDelete(k, F)
  PROVE  HttpInv' /\ TaskInv'
<1>1. CASE Obj!Send(k)
  <2>1. HttpInv' /\ \A l \in Slots : slot'[l].req = slot[l].req
    <3>1. CASE \E frame \in Obj!Frames : Obj!HttpRequestSent(k, Obj!Response(k, Obj!Code(k), frame, Obj!Content(k)))
      BY <3>1, SentKeeps
    <3>2. CASE \E frame \in Obj!Frames : Obj!HttpRequestSent(k, Obj!Response(k, "retry", frame, <<>>))
      BY <3>2, SentKeeps
    <3>3. CASE Obj!HttpRequestLost(k) \/ Obj!HttpRequestStale(k)
      BY <3>3, NotSentKeeps
    <3> QED
      BY <1>1, <3>1, <3>2, <3>3 DEF Obj!Send
  <2>2. Obj!Active(k) /\ Obj!SentAsync(k) /\ driver' = driver
    BY <1>1 DEF Obj!Send
  <2> QED
    BY <2>1, <2>2, AsyncKeeps
<1>2. CASE Obj!SendCommitError(k)
  <2>1. HttpInv' /\ \A l \in Slots : slot'[l].req = slot[l].req
    BY <1>2, SentKeeps DEF Obj!SendCommitError
  <2>2. Obj!Active(k) /\ Obj!SentAsync(k) /\ driver' = driver
    BY <1>2 DEF Obj!SendCommitError, Obj!server
  <2> QED
    BY <2>1, <2>2, AsyncKeeps
<1>3. CASE \E F \in SUBSET (1..3) : Obj!SendDelete(k, F)
  <2> PICK F \in SUBSET (1..3) : Obj!SendDelete(k, F)
    BY <1>3
  <2>1. HttpInv' /\ \A l \in Slots : slot'[l].req = slot[l].req
    BY SentKeeps DEF Obj!SendDelete
  <2>2. Obj!Active(k) /\ Obj!SentAsync(k) /\ driver' = driver
    BY DEF Obj!SendDelete
  <2> QED
    BY <2>1, <2>2, AsyncKeeps
<1>4. CASE Obj!Retry(k)
  <2>1. HttpInv' /\ \A l \in Slots : slot'[l].req = slot[l].req
    BY <1>4, RetryKeeps DEF Obj!Retry
  <2>2. UNCHANGED <<driver, task>>
    BY <1>4 DEF Obj!Retry, Obj!storeVars
  <2> QED
    BY <2>1, <2>2, TaskStays
<1>5. CASE Obj!GiveUp(k) \/ Obj!Refused(k)
  BY <1>5, Names, ErrorKeeps DEF Obj!GiveUp, Obj!Refused
<1> QED
  BY <1>1, <1>2, <1>3, <1>4, <1>5

LEMMA ReceivedKeeps ==
  ASSUME HttpInv, NEW k \in Slots, Obj!Received(k)
  PROVE  HttpInv' /\ slot'[k].req = None /\ \A l \in Slots \ {k} : slot'[l] = slot[l]
  BY CachedKeeps DEF Obj!Received

(* A writer's step to r, whose other slots stay as they are.               *)
LEMMA WriterStep ==
  ASSUME TaskInv, driver' = driver, NEW w \in Writers, NEW r, Obj!Set(w, r), {"pc", "parts", "started"} \subseteq DOMAIN r,
         WriterState(driver, r, slot'[w].req), \A l \in Slots \ {w} : slot'[l] = slot[l]
  PROVE  TaskInv'
  BY Names, TaskStep

(* The steps of a writer.                                                  *)
LEMMA WriterSteps ==
  ASSUME HttpInv, TaskInv, NEW w \in Writers,
         \/ Obj!WriteStart(w) \/ Obj!WriteFill(w) \/ Obj!PartReceived(w) \/ Obj!PartRequest(w) \/ Obj!Begun(w)
         \/ Obj!WriteClose(w) \/ Obj!Commit(w) \/ Obj!Written(w)
  PROVE  HttpInv' /\ TaskInv'
<1> DEFINE t == task[w]
<1>1. w \in Slots /\ w \in Obj!Tasks /\ WriterState(driver, t, slot[w].req)
  BY Names DEF TaskInv
<1> USE <1>1
<1>2. CASE Obj!WriteStart(w) \/ Obj!WriteFill(w)
  <2>1. PICK r : Obj!Set(w, r) /\ DOMAIN r = DOMAIN t /\ r.parts = t.parts /\ r.started = t.started
                 /\ r.pc \in {"fill", "part", "idle"} /\ t.pc \in {"idle", "fill"} /\ {"pc", "parts", "started"} \subseteq DOMAIN t
    <3>1. CASE Obj!WriteStart(w)
      <4> DEFINE n == Obj!Least(InputSize, Len(t.left))
                 r == [t EXCEPT !.input = SubSeq(t.left, 1, n), !.left = SubSeq(@, n + 1, Len(@)),
                                !.cap = Obj!ChunkBufferResize(t, n), !.pc = "fill"]
      <4>1. Obj!Set(w, r) /\ t.pc = "idle"
        BY <3>1 DEF Obj!WriteStart, Obj!At
      <4>2. {"pc", "parts", "started"} \subseteq DOMAIN t
        BY <4>1 DEF WriterState
      <4>3. DOMAIN r = DOMAIN t /\ r.parts = t.parts /\ r.started = t.started /\ r.pc = "fill"
        BY <4>2
      <4> HIDE DEF r, t
      <4> QED
        BY <4>1, <4>2, <4>3
    <3>2. CASE Obj!WriteFill(w)
      <4> DEFINE n == Obj!Least(t.cap - Len(t.buf), Len(t.input))
                 buf == t.buf \o SubSeq(t.input, 1, n)
                 input == SubSeq(t.input, n + 1, Len(t.input))
                 q == IF Len(buf) = t.size THEN "part" ELSE IF input = <<>> THEN "idle" ELSE "fill"
                 r == [t EXCEPT !.buf = buf, !.input = input, !.pc = q]
      <4>1. Obj!Set(w, r) /\ t.pc = "fill"
        BY <3>2 DEF Obj!WriteFill, Obj!At
      <4>2. {"pc", "parts", "started"} \subseteq DOMAIN t
        BY <4>1 DEF WriterState
      <4>4. q \in {"part", "idle", "fill"}
        OBVIOUS
      <4> HIDE DEF q, buf, input, n
      <4>3. DOMAIN r = DOMAIN t /\ r.parts = t.parts /\ r.started = t.started /\ r.pc = q
        BY <4>2
      <4> HIDE DEF r, t
      <4> QED
        BY <4>1, <4>2, <4>3, <4>4
    <3> QED
      BY <1>2, <3>1, <3>2
  <2>2. UNCHANGED <<session, reuse, slot, driver>>
    BY <1>2 DEF Obj!WriteStart, Obj!WriteFill, Obj!httpVars, Obj!server
  <2>3. HttpInv' /\ slot' = slot
    BY <2>2, UnchangedKeeps
  <2>4. WriterState(driver, r, slot'[w].req)
    BY <2>1, <2>3 DEF WriterState
  <2> QED
    BY <2>1, <2>2, <2>3, <2>4, WriterStep
<1>3. CASE Obj!PartReceived(w) \/ Obj!Begun(w)
  <2>1. HttpInv' /\ slot'[w].req = None /\ \A l \in Slots \ {w} : slot'[l] = slot[l]
    BY <1>3, ReceivedKeeps DEF Obj!PartReceived, Obj!Begun
  <2>2. driver' = driver /\ t.pc \in {"part", "finish", "begin"}
    BY <1>3 DEF Obj!PartReceived, Obj!Begun, Obj!server
  <2>3. {"pc", "parts", "started"} \subseteq DOMAIN t /\ t.parts \in Nat
    BY <2>2 DEF WriterState
  <2>4. PICK r : Obj!Set(w, r) /\ DOMAIN r = DOMAIN t /\ r.parts \in Nat /\ r.pc # "sending"
    <3>1. CASE Obj!PartReceived(w)
      <4> DEFINE r == [t EXCEPT !.parts = IF driver = "s3" THEN @ + 1 ELSE @]
      <4>1. Obj!Set(w, r)
        BY <3>1 DEF Obj!PartReceived
      <4>2. DOMAIN r = DOMAIN t /\ r.parts \in Nat /\ r.pc # "sending"
        BY <2>2, <2>3
      <4> HIDE DEF r, t
      <4> QED
        BY <4>1, <4>2
    <3>2. CASE Obj!Begun(w)
      <4> DEFINE r == [t EXCEPT !.started = TRUE, !.pc = "part"]
      <4>1. Obj!Set(w, r)
        BY <3>2 DEF Obj!Begun
      <4>2. DOMAIN r = DOMAIN t /\ r.parts \in Nat /\ r.pc # "sending"
        BY <2>2, <2>3
      <4> HIDE DEF r, t
      <4> QED
        BY <4>1, <4>2
    <3> QED
      BY <1>3, <3>1, <3>2
  <2>5. WriterState(driver, r, slot'[w].req)
    BY <2>1, <2>3, <2>4 DEF WriterState
  <2> QED
    BY <2>1, <2>2, <2>3, <2>4, <2>5, WriterStep
<1>4. CASE Obj!PartRequest(w) \/ Obj!Commit(w) \/ Obj!WriteClose(w)
  <2>1. driver' = driver /\ t.pc \in {"part", "finish", "idle"}
    BY <1>4 DEF Obj!PartRequest, Obj!Commit, Obj!WriteClose, Obj!At, Obj!server
  <2>2. {"pc", "parts", "started"} \subseteq DOMAIN t /\ t.parts \in Nat
    BY <2>1 DEF WriterState
  <2>3. CASE (\E op, arg : Obj!Request(w, op, arg)) /\ slot[w].req = None
             /\ \E q \in {"sending", "begin", "commit", "put"} : Obj!Goto(w, q) /\ (q = "sending" => driver = "azure" \/ t.started)
    <3>1. HttpInv' /\ \A l \in Slots \ {w} : slot'[l] = slot[l]
      BY <2>3, RequestKeeps
    <3>2. PICK q \in {"sending", "begin", "commit", "put"} : Obj!Goto(w, q) /\ (q = "sending" => driver = "azure" \/ t.started)
      BY <2>3
    <3> DEFINE r == [t EXCEPT !.pc = q]
    <3>3. Obj!Set(w, r)
      BY <3>2 DEF Obj!Goto
    <3>4. DOMAIN r = DOMAIN t /\ r.parts = t.parts /\ r.started = t.started /\ r.pc = q
      BY <2>2
    <3> HIDE DEF r, t
    <3>5. WriterState(driver, r, slot'[w].req)
      BY <2>2, <3>2, <3>4 DEF WriterState
    <3> QED
      BY <2>1, <2>2, <3>1, <3>3, <3>4, <3>5, WriterStep
  <2>4. CASE /\ UNCHANGED <<session, reuse, slot>>
             /\ \E r : Obj!Set(w, r) /\ DOMAIN r = DOMAIN t /\ r.parts = t.parts /\ r.started = t.started
                       /\ (r.pc \in {"finish", "done"} \/ (r.pc = "part" /\ (t.started \/ (driver = "azure" /\ t.parts > 0))))
    <3>1. HttpInv' /\ slot' = slot
      BY <2>4, UnchangedKeeps
    <3>2. PICK r : Obj!Set(w, r) /\ DOMAIN r = DOMAIN t /\ r.parts = t.parts /\ r.started = t.started
                   /\ (r.pc \in {"finish", "done"} \/ (r.pc = "part" /\ (t.started \/ (driver = "azure" /\ t.parts > 0))))
      BY <2>4
    <3> HIDE DEF t
    <3>3. WriterState(driver, r, slot'[w].req)
      BY <2>2, <3>2 DEF WriterState
    <3> QED
      BY <2>1, <2>2, <3>1, <3>2, <3>3, WriterStep
  <2>5. CASE Obj!PartRequest(w)
    BY <2>3, <2>5 DEF Obj!PartRequest
  <2>6. CASE Obj!Commit(w)
    <3>1. CASE driver = "gcs"
      <4> DEFINE r == [t EXCEPT !.pc = "done"]
      <4>1. Obj!Set(w, r) /\ UNCHANGED <<session, reuse, slot>>
        BY <2>6, <3>1 DEF Obj!Commit, Obj!Goto, Obj!httpVars
      <4>2. DOMAIN r = DOMAIN t /\ r.parts = t.parts /\ r.started = t.started /\ r.pc = "done"
        BY <2>2
      <4> HIDE DEF r, t
      <4> QED
        BY <2>4, <4>1, <4>2
    <3>2. CASE driver # "gcs"
      BY <2>3, <2>6, <3>2 DEF Obj!Commit
    <3> QED
      BY <3>1, <3>2
  <2>7. CASE Obj!WriteClose(w)
    <3>1. CASE Obj!Multi(w)
      <4> DEFINE q == IF t.buf # <<>> \/ driver = "gcs" THEN "part" ELSE "finish"
                 r == [t EXCEPT !.closing = TRUE, !.pc = q]
      <4>1. Obj!Set(w, r) /\ UNCHANGED <<session, reuse, slot>>
        BY <2>7, <3>1 DEF Obj!WriteClose, Obj!httpVars
      <4>2. DOMAIN r = DOMAIN t /\ r.parts = t.parts /\ r.started = t.started /\ r.pc = q
        BY <2>2
      <4>3. q \in {"part", "finish"}
        OBVIOUS
      <4>4. t.started \/ (driver = "azure" /\ t.parts > 0)
        BY <3>1 DEF Obj!Multi
      <4> HIDE DEF r, t, q
      <4> QED
        BY <2>4, <4>1, <4>2, <4>3, <4>4
    <3>2. CASE ~Obj!Multi(w)
      <4>1. slot[w].req = None
        BY <2>7, <3>2 DEF Obj!WriteClose, Obj!At, Obj!Multi, WriterState
      <4>2. Obj!Request(w, "put", t.buf) /\ Obj!Goto(w, "put")
        BY <2>7, <3>2 DEF Obj!WriteClose
      <4> QED
        BY <2>3, <4>1, <4>2
    <3> QED
      BY <3>1, <3>2
  <2> QED
    BY <1>4, <2>5, <2>6, <2>7
<1>5. CASE Obj!Written(w)
  <2>1. CASE Obj!Error(w)
    BY <2>1, ErrorKeeps
  <2>2. CASE Obj!Received(w) /\ Obj!Goto(w, "done") /\ UNCHANGED Obj!server
    <3>1. HttpInv' /\ \A l \in Slots \ {w} : slot'[l] = slot[l]
      BY <2>2, ReceivedKeeps
    <3>2. {"pc", "parts", "started"} \subseteq DOMAIN t /\ t.parts \in Nat
      BY <1>5 DEF Obj!Written, WriterState
    <3> DEFINE r == [t EXCEPT !.pc = "done"]
    <3>3. Obj!Set(w, r) /\ driver' = driver
      BY <2>2 DEF Obj!Goto, Obj!server
    <3>4. DOMAIN r = DOMAIN t /\ r.parts = t.parts /\ r.started = t.started /\ r.pc = "done"
      BY <3>2
    <3> HIDE DEF r, t
    <3>5. WriterState(driver, r, slot'[w].req)
      BY <3>2, <3>4 DEF WriterState
    <3> QED
      BY <3>1, <3>2, <3>3, <3>4, <3>5, WriterStep
  <2> QED
    BY <1>5, <2>1, <2>2 DEF Obj!Written
<1> QED
  BY <1>2, <1>3, <1>4, <1>5

(* The steps of a reader.                                                  *)
LEMMA ReaderStep ==
  ASSUME TaskInv, driver' = driver, NEW x \in Readers, NEW r, Obj!Set(x, r), "pc" \in DOMAIN r, r.pc # "open",
         \A l \in Slots \ {x} : slot'[l] = slot[l]
  PROVE  TaskInv'
  BY Names, TaskStep

LEMMA ReaderGoto ==
  ASSUME TaskInv, driver' = driver, NEW x \in Readers, NEW q, Obj!Goto(x, q), q # "open",
         \A l \in Slots \ {x} : slot'[l] = slot[l]
  PROVE  TaskInv'
<1> DEFINE r == [task[x] EXCEPT !.pc = q]
<1>1. "pc" \in DOMAIN r /\ r.pc = q
  BY Names DEF TaskInv
<1>2. Obj!Set(x, r)
  BY DEF Obj!Goto
<1> HIDE DEF r
<1> QED
  BY <1>1, <1>2, ReaderStep

LEMMA ReaderSteps ==
  ASSUME HttpInv, TaskInv, NEW x \in Readers,
         \/ Obj!ReadOpen(x) \/ Obj!ReadOpened(x) \/ Obj!ReadStart(x) \/ Obj!ReadPiece(x) \/ Obj!ReadAgain(x)
         \/ Obj!ReadClose(x)
  PROVE  HttpInv' /\ TaskInv'
<1> DEFINE t == task[x]
<1>1. x \in Slots /\ x \in Obj!Tasks /\ "pc" \in DOMAIN t
  BY Names DEF TaskInv
<1> USE <1>1
<1>2. CASE Obj!ReadOpen(x)
  <2>1. slot[x].req = None
    BY <1>2 DEF Obj!ReadOpen, Obj!At, TaskInv
  <2>2. Obj!Request(x, "get", 0) /\ Obj!Goto(x, "opening") /\ driver' = driver
    BY <1>2 DEF Obj!ReadOpen, Obj!server
  <2>3. HttpInv' /\ \A l \in Slots \ {x} : slot'[l] = slot[l]
    BY <2>1, <2>2, RequestKeeps
  <2> QED
    BY <2>2, <2>3, ReaderGoto
<1>3. CASE Obj!ReadOpened(x)
  <2>1. UNCHANGED <<session, reuse, slot, driver>>
    BY <1>3 DEF Obj!ReadOpened, Obj!httpVars, Obj!server
  <2>2. PICK q : Obj!Goto(x, q) /\ q # "open"
    BY <1>3 DEF Obj!ReadOpened
  <2> QED
    BY <2>1, <2>2, UnchangedKeeps, ReaderGoto
<1>4. CASE Obj!ReadStart(x)
  <2>1. UNCHANGED <<session, reuse, slot, driver>>
    BY <1>4 DEF Obj!ReadStart, Obj!httpVars, Obj!server
  <2> DEFINE r == [t EXCEPT !.buf = <<>>, !.tries = 3, !.pc = "read"]
  <2>2. Obj!Set(x, r)
    BY <1>4 DEF Obj!ReadStart
  <2>3. "pc" \in DOMAIN r /\ r.pc = "read"
    OBVIOUS
  <2> HIDE DEF r, t
  <2> QED
    BY <2>1, <2>2, <2>3, UnchangedKeeps, ReaderStep
<1>5. CASE Obj!ReadPiece(x)
  <2>1. HttpInv' /\ \A l \in Slots \ {x} : slot'[l] = slot[l]
    BY <1>5, ReadKeeps DEF Obj!ReadPiece
  <2>2. driver' = driver /\ t.pc = "read"
    BY <1>5 DEF Obj!ReadPiece, Obj!At, Obj!server
  <2> DEFINE buf == IF Obj!Answer(x).body = <<>> \/ Obj!Piece(x) = Obj!End THEN t.buf ELSE Append(t.buf, Obj!Piece(x))
             r1 == [t EXCEPT !.got = @ \o buf, !.pc = "done"]
             r2 == [t EXCEPT !.got = @ \o buf, !.buf = <<>>, !.pc = "reading"]
             r3 == [t EXCEPT !.buf = buf]
  <2>3. Obj!Set(x, r1) \/ Obj!Set(x, r2) \/ Obj!Set(x, r3)
    BY <1>5 DEF Obj!ReadPiece
  <2> HIDE DEF buf
  <2>4. /\ "pc" \in DOMAIN r1 /\ r1.pc = "done"
        /\ "pc" \in DOMAIN r2 /\ r2.pc = "reading"
        /\ "pc" \in DOMAIN r3 /\ r3.pc = "read"
    BY <2>2
  <2> HIDE DEF r1, r2, r3, t
  <2> QED
    BY <2>1, <2>2, <2>3, <2>4, ReaderStep
<1>6. CASE Obj!ReadAgain(x)
  <2>1. CASE Obj!Error(x)
    BY <2>1, ErrorKeeps
  <2>2. CASE /\ session' = Obj!Freed(slot[x].sess)
             /\ slot' = [slot EXCEPT ![x] = [req |-> [op |-> "get", arg |-> Len(t.got)], sess |-> None]]
             /\ Obj!Set(x, Obj!Again(t)) /\ UNCHANGED <<reuse, driver>>
    <3> DEFINE r == Obj!Again(t)
    <3>1. Obj!Sent(x)
      BY <1>6 DEF Obj!ReadAgain, Obj!Broken
    <3>2. HttpInv' /\ \A l \in Slots \ {x} : slot'[l] = slot[l]
      BY <2>2, <3>1, DiscardKeeps
    <3>3. "pc" \in DOMAIN r /\ r.pc = "reopening"
      BY DEF Obj!Again
    <3>4. Obj!Set(x, r) /\ driver' = driver
      BY <2>2
    <3> HIDE DEF r, t
    <3> QED
      BY <3>2, <3>3, <3>4, ReaderStep
  <2> QED
    BY <1>6, <2>1, <2>2 DEF Obj!ReadAgain, Obj!server
<1>7. CASE Obj!ReadClose(x)
  <2>1. Obj!HttpFree({x}) /\ Obj!Goto(x, "closed") /\ driver' = driver
    BY <1>7 DEF Obj!ReadClose, Obj!server
  <2>2. HttpInv' /\ \A l \in Slots \ {x} : slot'[l] = slot[l]
    BY <2>1, FreeKeeps
  <2> QED
    BY <2>1, <2>2, ReaderGoto
<1> QED
  BY <1>2, <1>3, <1>4, <1>5, <1>6, <1>7

(* The steps of the remover, which has two slots.                          *)
LEMMA RemoverStep ==
  ASSUME TaskInv, driver' = driver, NEW r, Obj!Set(Remover, r), "pc" \in DOMAIN r, r.pc # "start",
         \A l \in Slots \ {Remover, Lister} : slot'[l] = slot[l]
  PROVE  TaskInv'
  BY Names, TaskStep

LEMMA RemoverGoto ==
  ASSUME TaskInv, driver' = driver, NEW q, Obj!Goto(Remover, q), q # "start",
         \A l \in Slots \ {Remover, Lister} : slot'[l] = slot[l]
  PROVE  TaskInv'
<1> DEFINE r == [task[Remover] EXCEPT !.pc = q]
<1>1. "pc" \in DOMAIN r /\ r.pc = q
  BY Names DEF TaskInv
<1>2. Obj!Set(Remover, r)
  BY DEF Obj!Goto
<1> HIDE DEF r
<1> QED
  BY <1>1, <1>2, RemoverStep

LEMMA RemoverSteps ==
  ASSUME HttpInv, TaskInv,
         \/ Obj!RemoveStart \/ Obj!Listed \/ Obj!RemoveFile \/ Obj!PageEnd \/ Obj!DeleteReceived \/ Obj!DeleteRequest
         \/ Obj!RemoveEnd \/ \E f \in 1..3 : Obj!RemoveSingle(f)
  PROVE  HttpInv' /\ TaskInv'
<1> DEFINE t == task[Remover]
<1>1. Remover \in Slots /\ Lister \in Slots /\ Remover \in Obj!Tasks /\ "pc" \in DOMAIN t
  BY Names DEF TaskInv
<1> USE <1>1
<1>2. CASE Obj!RemoveStart
  <2>1. slot[Lister].req = None
    BY <1>2 DEF Obj!RemoveStart, Obj!At, TaskInv
  <2>2. Obj!Request(Lister, "list", 0) /\ Obj!Goto(Remover, "list") /\ driver' = driver
    BY <1>2 DEF Obj!RemoveStart, Obj!server
  <2>3. HttpInv' /\ \A l \in Slots \ {Lister} : slot'[l] = slot[l]
    BY <2>1, <2>2, RequestKeeps
  <2> QED
    BY <2>2, <2>3, RemoverGoto
<1>3. CASE Obj!Listed
  <2> DEFINE v == Obj!Answer(Lister).body[1]
             next == [op |-> "list", arg |-> v.page[Len(v.page)]]
             m == IF v.more THEN next ELSE None
             q == IF v.more THEN "listsend" ELSE "page"
             r == [t EXCEPT !.page = v.page, !.more = v.more, !.pc = q]
  <2>1. Obj!HttpResponseCached(Lister, m) /\ Obj!Set(Remover, r) /\ driver' = driver
    BY <1>3 DEF Obj!Listed, Obj!server
  <2>2. q # "start"
    OBVIOUS
  <2> HIDE DEF m, q
  <2>3. HttpInv' /\ \A l \in Slots \ {Lister} : slot'[l] = slot[l]
    BY <2>1, CachedKeeps
  <2>4. "pc" \in DOMAIN r /\ r.pc = q
    OBVIOUS
  <2> HIDE DEF r, t, v
  <2> QED
    BY <2>1, <2>2, <2>3, <2>4, RemoverStep
<1>4. CASE Obj!RemoveFile
  <2>1. UNCHANGED <<session, reuse, slot, driver>>
    BY <1>4 DEF Obj!RemoveFile, Obj!httpVars, Obj!server
  <2>2. PICK q \in {"delete", "page"} :
           Obj!Set(Remover, [t EXCEPT !.page = Tail(t.page), !.batch = t.batch \union {Head(t.page)}, !.pc = q])
    BY <1>4 DEF Obj!RemoveFile
  <2> DEFINE r == [t EXCEPT !.page = Tail(t.page), !.batch = t.batch \union {Head(t.page)}, !.pc = q]
  <2>3. "pc" \in DOMAIN r /\ r.pc = q
    OBVIOUS
  <2>4. Obj!Set(Remover, r)
    BY <2>2
  <2> HIDE DEF r, t
  <2> QED
    BY <2>1, <2>3, <2>4, UnchangedKeeps, RemoverStep
<1>5. CASE Obj!PageEnd \/ Obj!RemoveEnd
  <2>1. UNCHANGED <<session, reuse, slot, driver>>
    BY <1>5 DEF Obj!PageEnd, Obj!RemoveEnd, Obj!httpVars, Obj!server
  <2>2. PICK q : Obj!Goto(Remover, q) /\ q # "start"
    BY <1>5 DEF Obj!PageEnd, Obj!RemoveEnd
  <2> QED
    BY <2>1, <2>2, UnchangedKeeps, RemoverGoto
<1>6. CASE Obj!DeleteReceived
  <2> DEFINE r == [t EXCEPT !.failed = IF Obj!Op(Remover) = "delete" THEN Obj!Failed(Remover) ELSE @]
  <2>1. Obj!Received(Remover) /\ Obj!Set(Remover, r) /\ driver' = driver /\ t.pc # "start"
    BY <1>6 DEF Obj!DeleteReceived, Obj!server
  <2>2. HttpInv' /\ \A l \in Slots \ {Remover} : slot'[l] = slot[l]
    BY <2>1, ReceivedKeeps
  <2>3. "pc" \in DOMAIN r /\ r.pc = t.pc
    OBVIOUS
  <2> HIDE DEF r, t
  <2> QED
    BY <2>1, <2>2, <2>3, RemoverStep
<1>7. CASE Obj!DeleteRequest
  <2>1. Obj!Request(Remover, "delete", t.batch) /\ Obj!Goto(Remover, "delsend") /\ driver' = driver /\ slot[Remover].req = None
    BY <1>7 DEF Obj!DeleteRequest, Obj!server
  <2>2. HttpInv' /\ \A l \in Slots \ {Remover} : slot'[l] = slot[l]
    BY <2>1, RequestKeeps
  <2> QED
    BY <2>1, <2>2, RemoverGoto
<1>8. CASE \E f \in 1..3 : Obj!RemoveSingle(f)
  <2> PICK f \in 1..3 : Obj!RemoveSingle(f)
    BY <1>8
  <2> DEFINE r == [t EXCEPT !.failed = @ \ {f}]
  <2>1. /\ Obj!Request(Remover, "remove", {f}) /\ Obj!Set(Remover, r) /\ driver' = driver
        /\ slot[Remover].req = None /\ t.pc # "start"
    BY DEF Obj!RemoveSingle, Obj!server
  <2>2. HttpInv' /\ \A l \in Slots \ {Remover} : slot'[l] = slot[l]
    BY <2>1, RequestKeeps
  <2>3. "pc" \in DOMAIN r /\ r.pc = t.pc
    OBVIOUS
  <2> HIDE DEF r, t
  <2> QED
    BY <2>1, <2>2, <2>3, RemoverStep
<1> QED
  BY <1>2, <1>3, <1>4, <1>5, <1>6, <1>7, <1>8

-----------------------------------------------------------------------------
LEMMA ObjectInit ==
  ASSUME Obj!Init
  PROVE  HttpInv /\ TaskInv
<1>1. /\ session = [s \in Sessions |-> Obj!Closed] /\ reuse = <<>>
      /\ slot = [k \in Slots |-> [req |-> None, sess |-> None]]
  BY DEF Obj!Init, Obj!HttpInit, Obj!NoRequest
<1>2. SessionShape
  BY <1>1 DEF SessionShape, Obj!Closed
<1>3. SlotShape /\ \A k \in Slots : slot[k].req = None /\ slot[k].sess = None
  BY <1>1 DEF SlotShape
<1>4. reuse \in Seq(Sessions) /\ Len(reuse) = 0
  BY <1>1
<1>5. HttpInv
  BY <1>1, <1>2, <1>3, <1>4 DEF HttpInv, KeptOnce, OneRequest, OneAnswer, OthersClosed
<1>6. PICK T : task = [t \in Obj!Tasks |->
            IF t \notin T THEN [pc |-> "error"] ELSE IF t \in Writers THEN Obj!NewWriter(t)
            ELSE IF t \in Readers THEN Obj!NewReader ELSE Obj!NewRemover]
  BY DEF Obj!Init
<1>7. \A t \in Obj!Tasks : "pc" \in DOMAIN task[t]
  BY <1>6 DEF Obj!NewWriter, Obj!NewReader, Obj!NewRemover
<1>8. \A w \in Writers : WriterState(driver, task[w], slot[w].req)
  <2> SUFFICES ASSUME NEW w \in Writers, task[w].pc # "error" PROVE WriterState(driver, task[w], slot[w].req)
    BY DEF WriterState
  <2>1. task[w] = Obj!NewWriter(w)
    BY <1>6, Names
  <2>2. {"pc", "parts", "started"} \subseteq DOMAIN task[w] /\ task[w].parts = 0 /\ task[w].pc = "idle"
    BY <2>1 DEF Obj!NewWriter
  <2> QED
    BY <1>3, <2>2, Names DEF WriterState
<1> QED
  BY <1>3, <1>5, <1>6, <1>7, <1>8, Names DEF TaskInv

LEMMA ObjectNext ==
  ASSUME HttpInv, TaskInv, Obj!Next
  PROVE  HttpInv' /\ TaskInv'
<1>1. CASE \E k \in Slots : \/ Obj!Send(k) \/ Obj!SendCommitError(k) \/ Obj!Retry(k) \/ Obj!GiveUp(k) \/ Obj!Refused(k)
                            \/ \E F \in SUBSET (1..3) : Obj!SendDelete(k, F)
  BY <1>1, SlotSteps
<1>2. CASE \E w \in Writers : \/ Obj!WriteStart(w) \/ Obj!WriteFill(w) \/ Obj!PartReceived(w) \/ Obj!PartRequest(w)
                              \/ Obj!Begun(w) \/ Obj!WriteClose(w) \/ Obj!Commit(w) \/ Obj!Written(w)
  BY <1>2, WriterSteps
<1>3. CASE \E r \in Readers : \/ Obj!ReadOpen(r) \/ Obj!ReadOpened(r) \/ Obj!ReadStart(r) \/ Obj!ReadPiece(r)
                              \/ Obj!ReadAgain(r) \/ Obj!ReadClose(r)
  BY <1>3, ReaderSteps
<1>4. CASE \/ Obj!RemoveStart \/ Obj!Listed \/ Obj!RemoveFile \/ Obj!PageEnd \/ Obj!DeleteReceived \/ Obj!DeleteRequest
           \/ Obj!RemoveEnd \/ \E f \in 1..3 : Obj!RemoveSingle(f)
  BY <1>4, RemoverSteps
<1>5. CASE \E s \in Sessions : Obj!Break(s)
  <2> PICK s \in Sessions : Obj!Break(s)
    BY <1>5
  <2>1. HttpInv' /\ slot' = slot
    BY BreakKeeps DEF Obj!Break
  <2>2. UNCHANGED <<driver, task>>
    BY DEF Obj!Break, Obj!storeVars
  <2> QED
    BY <2>1, <2>2, TaskStays
<1> QED
  BY <1>1, <1>2, <1>3, <1>4, <1>5 DEF Obj!Next

(* The HTTP client keeps its sessions apart: one that is kept for reuse    *)
(* is empty, one in use has at most the response to its only request.      *)
THEOREM ObjectInvariant == MCSpec => []ObjectInv
<1>1. MCInit => ObjectInv
  <2> SUFFICES ASSUME MCInit, part = "objects" PROVE HttpInv /\ TaskInv
    BY DEF ObjectInv
  <2>1. Obj!Init
    BY DEF MCInit
  <2> QED
    BY <2>1, ObjectInit
<1>2. ObjectInv /\ [MCNext]_mcVars => ObjectInv'
  <2> SUFFICES ASSUME ObjectInv, [MCNext]_mcVars, part' = "objects" PROVE HttpInv' /\ TaskInv'
    BY DEF ObjectInv
  <2>1. part = "objects"
    BY DEF MCNext, mcVars
  <2>2. HttpInv /\ TaskInv
    BY <2>1 DEF ObjectInv
  <2>3. CASE Obj!Next
    BY <2>2, <2>3, ObjectNext
  <2>4. CASE UNCHANGED mcVars
    <3>1. UNCHANGED <<session, reuse, slot, driver, task>>
      BY <2>4 DEF mcVars, objectVars
    <3> QED
      BY <2>2, <3>1, UnchangedKeeps, TaskStays
  <2> QED
    BY <2>1, <2>3, <2>4 DEF MCNext
<1> QED
  BY <1>1, <1>2, PTL DEF MCSpec

(* Every request gets the response to it, for any tasks, sessions, faults  *)
(* and retries.                                                            *)
THEOREM ObjectOwnResponse == MCSpec => []OwnResponse
<1>1. ObjectInv => OwnResponse
  <2> SUFFICES ASSUME HttpInv PROVE Obj!OwnResponse
    BY DEF ObjectInv, OwnResponse
  <2>1. \A i \in DOMAIN reuse : session[reuse[i]].wire = <<>>
    BY DEF HttpInv, KeptOnce
  <2>2. \A k \in Slots : Obj!Answered(k) => Obj!Answer(k).for = <<k, slot[k].req>>
    <3> SUFFICES ASSUME NEW k \in Slots, Obj!Answered(k) PROVE Obj!Answer(k).for = <<k, slot[k].req>>
      OBVIOUS
    <3>1. OwnAnswer(session[slot[k].sess].wire, k, slot[k].req) /\ session[slot[k].sess].wire # <<>>
      BY DEF HttpInv, OneAnswer, Obj!Answered, Obj!Sent
    <3>2. PICK r : session[slot[k].sess].wire = <<r>> /\ r.for = <<k, slot[k].req>>
      BY <3>1 DEF OwnAnswer
    <3> QED
      BY <3>2, OneWire DEF Obj!Answer
  <2>3. \A k, l \in Slots : Obj!Sent(k) /\ slot[k].sess = slot[l].sess => k = l
    BY DEF HttpInv, OneRequest, Obj!Sent
  <2> QED
    BY <2>1, <2>2, <2>3 DEF Obj!OwnResponse
<1> QED
  BY <1>1, ObjectInvariant, PTL
=============================================================================
