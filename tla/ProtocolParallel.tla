-------------------------- MODULE ProtocolParallel --------------------------
(***************************************************************************)
(* The parallel executor (protocol/parallel.c, protocol/parallelJob.c) and *)
(* the loop of the command that drives it (archive-push and archive-get    *)
(* async, backup, restore, verify): protocolParallelProcess() waits for    *)
(* workers with select(), collects what they answered and gives every idle *)
(* one a new job; the command then takes as many results as select()       *)
(* counted, and goes on until the job list is empty.                       *)
(***************************************************************************)
EXTENDS Naturals, FiniteSets, NatSets

CONSTANTS
  Job,           \* jobs the callback has to give
  Client,        \* clients, numbered in the order they were added
  Dist,          \* Dist[c]: the jobs the callback may give to client c
  NoJob,         \* a client has no job
  ThrowOnError,  \* does the command stop at the first job with an error?
  MaxFault       \* bound: workers that die or report a fatal error

ASSUME ParallelAssumption ==
  /\ Client \subseteq Nat /\ IsFiniteSet(Client)
  /\ Dist \in [Client -> SUBSET Job] /\ Job = UNION {Dist[c] : c \in Client}
  /\ NoJob \notin Job
  /\ ThrowOnError \in BOOLEAN /\ MaxFault \in Nat

VARIABLES
  pc,         \* where the executor or its command is
  todo,       \* jobs the callback still has
  job,        \* state of a job: "none" (not given), "pending" (not sent), "running",
              \* "done", or "taken" out of the job list
  outcome,    \* job -> result, error or none
  client,     \* client -> its job, and whether it was freed
  worker,     \* client -> is its process alive, and the response in the pipe
  sel,        \* clients select() found readable, still to be looked at
  visit,      \* clients still to be asked for a job in this round
  completed,  \* results the command has still to take
  faults      \* faults still to come

jobVars == <<todo, job, outcome>>
vars == <<pc, todo, job, outcome, client, worker, sel, visit, completed, faults>>

Init ==
  /\ pc = "select"
  /\ todo = Job
  /\ job = [j \in Job |-> "none"] /\ outcome = [j \in Job |-> "none"]
  /\ client = [c \in Client |-> [job |-> NoJob, st |-> "open"]]
  /\ worker = [c \in Client |-> [st |-> "up", msg |-> "none"]]
  /\ sel = {} /\ visit = {} /\ completed = 0
  /\ faults = MaxFault

-----------------------------------------------------------------------------
(* Workers: see Protocol                                                   *)

Working(c) == client[c].job # NoJob /\ worker[c].st = "up" /\ worker[c].msg = "none"

WorkerRespond(c) ==
  /\ Working(c)
  /\ \E msg \in {"result", "error"} : worker' = [worker EXCEPT ![c].msg = msg]
  /\ UNCHANGED <<pc, jobVars, client, sel, visit, completed, faults>>

(* An AssertError ends the server, which can still report it...            *)
WorkerFatal(c) ==
  /\ Working(c)
  /\ faults > 0 /\ faults' = faults - 1
  /\ worker' = [worker EXCEPT ![c] = [st |-> "down", msg |-> "fatal"]]
  /\ UNCHANGED <<pc, jobVars, client, sel, visit, completed>>

(* ...or the process is killed: the pipe is at its end after what is in it.*)
WorkerDies(c) ==
  /\ worker[c].st = "up" /\ client[c].st = "open"
  /\ faults > 0 /\ faults' = faults - 1
  /\ worker' = [worker EXCEPT ![c].st = "down"]
  /\ UNCHANGED <<pc, jobVars, client, sel, visit, completed>>

-----------------------------------------------------------------------------
(* protocolParallelProcess()                                               *)

Running == {c \in Client : client[c].job # NoJob}
Readable == {c \in Running : worker[c].msg # "none" \/ worker[c].st = "down"}

(* select() over the clients that have a job, if any; it returns when some *)
(* can be read from, or with nothing after the timeout.                    *)
Select ==
  /\ pc = "select"
  /\ sel' = Readable /\ completed' = Cardinality(Readable)
  /\ pc' = IF Readable = {} THEN "assign" ELSE "collect"
  /\ visit' = IF Readable = {} THEN Client ELSE {}
  /\ UNCHANGED <<jobVars, client, worker, faults>>

(* The response of a client becomes the outcome of its job. The end of the *)
(* pipe is an error, too, but freeing the session then throws again; and a *)
(* fatal error is not caught.                                              *)
Collect ==
  LET c == First(sel)
      j == client[c].job
      msg == worker[c].msg IN
  /\ pc = "collect" /\ sel # {}
  /\ IF msg = "fatal"
     THEN /\ pc' = "thrown"
          /\ UNCHANGED <<job, outcome, client, worker, sel>>
     ELSE /\ job' = [job EXCEPT ![j] = "done"]
          /\ outcome' = [outcome EXCEPT ![j] = IF msg = "none" THEN "error" ELSE msg]
          /\ client' = [client EXCEPT ![c].job = NoJob]
          /\ worker' = [worker EXCEPT ![c].msg = "none"]
          /\ sel' = sel \ {c}
          /\ pc' = IF msg = "none" THEN "free" ELSE pc
  /\ UNCHANGED <<todo, visit, completed, faults>>

(* protocolClientSessionFree() of a session whose response was not read:   *)
(* the client is not idle any more.                                        *)
SessionFreeThrows ==
  /\ pc = "free"
  /\ pc' = "thrown"
  /\ UNCHANGED <<jobVars, client, worker, sel, visit, completed, faults>>

Collected ==
  /\ pc = "collect" /\ sel = {}
  /\ pc' = "assign" /\ visit' = Client
  /\ UNCHANGED <<jobVars, client, worker, sel, completed, faults>>

(* Mutant: the loop over the clients ends at the first one without a job.  *)
NoMoreStops ==
  LET c == First(visit) IN
  /\ pc = "assign" /\ visit # {} /\ client[c].job = NoJob
  /\ todo \cap Dist[c] = {}
  /\ client' = [client EXCEPT ![c].st = "freed"]
  /\ visit' = {}
  /\ UNCHANGED <<pc, jobVars, worker, sel, completed, faults>>

(* The callback has nothing more for an idle client: protocolHelperFree(), *)
(* which does nothing when it is called again in a later round.            *)
NoMore ==
  LET c == First(visit) IN
  /\ pc = "assign" /\ visit # {} /\ client[c].job = NoJob
  /\ todo \cap Dist[c] = {}
  /\ client' = [client EXCEPT ![c].st = "freed"]
  /\ visit' = visit \ {c}
  /\ UNCHANGED <<pc, jobVars, worker, sel, completed, faults>>

(* It has a job: add it to the list and send it, which may fail when the   *)
(* worker is gone.                                                         *)
Assign(j) ==
  LET c == First(visit) IN
  /\ pc = "assign" /\ visit # {} /\ client[c].job = NoJob
  /\ j \in todo \cap Dist[c]
  /\ todo' = todo \ {j}
  /\ \/ /\ job' = [job EXCEPT ![j] = "running"]
        /\ client' = [client EXCEPT ![c].job = j]
        /\ visit' = visit \ {c}
        /\ UNCHANGED pc
     \/ /\ worker[c].st = "down"
        /\ job' = [job EXCEPT ![j] = "pending"]
        /\ pc' = "thrown"
        /\ UNCHANGED <<client, visit>>
  /\ UNCHANGED <<outcome, worker, sel, completed, faults>>

Busy ==
  LET c == First(visit) IN
  /\ pc = "assign" /\ visit # {} /\ client[c].job # NoJob
  /\ visit' = visit \ {c}
  /\ UNCHANGED <<pc, jobVars, client, worker, sel, completed, faults>>

Assigned ==
  /\ pc = "assign" /\ visit = {}
  /\ pc' = "results"
  /\ UNCHANGED <<jobVars, client, worker, sel, visit, completed, faults>>

-----------------------------------------------------------------------------
(* The command: protocolParallelResult() and protocolParallelDone()        *)

JobList == {j \in Job : job[j] \in {"pending", "running", "done"}}
DoneJobs == {j \in Job : job[j] = "done"}

(* Mutant: the job is not removed from the list.                           *)
ResultKeeps(j) ==
  /\ pc = "results" /\ completed > 0 /\ j \in DoneJobs
  /\ completed' = completed - 1
  /\ pc' = IF ThrowOnError /\ outcome[j] = "error" THEN "error" ELSE pc
  /\ UNCHANGED <<jobVars, client, worker, sel, visit, faults>>

(* A job that is done; which one comes first in the list is left open.     *)
Result(j) ==
  /\ pc = "results" /\ completed > 0 /\ j \in DoneJobs
  /\ job' = [job EXCEPT ![j] = "taken"]
  /\ completed' = completed - 1
  /\ pc' = IF ThrowOnError /\ outcome[j] = "error" THEN "error" ELSE pc
  /\ UNCHANGED <<todo, outcome, client, worker, sel, visit, faults>>

(* backup and restore throw the error of a job.                            *)
CommandThrows ==
  /\ pc = "error"
  /\ pc' = "thrown"
  /\ UNCHANGED <<jobVars, client, worker, sel, visit, completed, faults>>

Done ==
  /\ pc = "results" /\ completed = 0
  /\ pc' = IF JobList = {} THEN "done" ELSE "select"
  /\ UNCHANGED <<jobVars, client, worker, sel, visit, completed, faults>>

-----------------------------------------------------------------------------
Executor ==
  \/ Select \/ Collect \/ SessionFreeThrows \/ Collected
  \/ NoMore \/ Busy \/ Assigned \/ CommandThrows \/ Done
  \/ \E j \in Job : Assign(j) \/ Result(j)

Next ==
  \/ Executor
  \/ \E c \in Client : WorkerRespond(c) \/ WorkerFatal(c) \/ WorkerDies(c)

Spec == Init /\ [][Next]_vars

(* Workers that live answer in the end (they have timeouts of their own),  *)
(* and the process itself runs.                                            *)
FairSpec ==
  Spec /\ WF_vars(Executor) /\ \A c \in Client : WF_vars(WorkerRespond(c))

-----------------------------------------------------------------------------
(* Type invariant *)

ParallelTypeOK ==
  /\ pc \in {"select", "collect", "free", "assign", "results", "error", "done", "thrown"}
  /\ todo \subseteq Job
  /\ job \in [Job -> {"none", "pending", "running", "done", "taken"}]
  /\ outcome \in [Job -> {"none", "result", "error"}]
  /\ client \in [Client -> [job : Job \cup {NoJob}, st : {"open", "freed"}]]
  /\ worker \in [Client -> [st : {"up", "down"},
                           msg : {"none", "result", "error", "fatal"}]]
  /\ sel \subseteq Client /\ visit \subseteq Client
  /\ completed \in Nat /\ faults \in Nat

-----------------------------------------------------------------------------
(* Safety and liveness *)

(* The command takes exactly the results there are: select()'s count is    *)
(* the number of finished jobs in the list, so protocolParallelResult()    *)
(* never returns NULL to a command and leaves no result behind.            *)
CompletedIsDone == pc = "results" => completed = Cardinality(DoneJobs)

(* Refinement: a job that is in the list is new until it was sent.         *)
Phase ==
  [j \in Job |-> CASE job[j] = "running" -> "running"
                   [] job[j] = "done" -> "finished"
                   [] job[j] = "taken" -> "reported"
                   [] OTHER -> "new"]

Over == IF pc = "done" THEN "complete" ELSE IF pc = "thrown" THEN "failed" ELSE "no"

Pool == INSTANCE JobPool WITH phase <- Phase, over <- Over

(* The executor is a job pool: no job runs twice, is reported twice or is  *)
(* left behind when protocolParallelDone() says so, in whatever order the  *)
(* workers answer or die.                                                  *)
ImplementsPool == Pool!Spec

(* The command gets to the end, or to an error.                            *)
PoolEnded == pc \in {"done", "thrown"}
=============================================================================
