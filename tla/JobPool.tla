------------------------------ MODULE JobPool -------------------------------
(***************************************************************************)
(* What the commands that work with a pool of workers rely on: every job   *)
(* is run once, its outcome is decided once and reported once, and the     *)
(* pool is complete only when all jobs have been reported. Or the pool     *)
(* fails, and nothing more is reported.                                    *)
(***************************************************************************)
CONSTANT Job

VARIABLES
  phase,    \* job -> "new", "running", "finished" or "reported"
  outcome,  \* job -> "none", "result" or "error"
  over      \* "no", "complete" or "failed"

vars == <<phase, outcome, over>>

Init ==
  /\ phase = [j \in Job |-> "new"]
  /\ outcome = [j \in Job |-> "none"]
  /\ over = "no"

Start(j) ==
  /\ over = "no" /\ phase[j] = "new"
  /\ phase' = [phase EXCEPT ![j] = "running"]
  /\ UNCHANGED <<outcome, over>>

Finish(j, o) ==
  /\ over = "no" /\ phase[j] = "running"
  /\ phase' = [phase EXCEPT ![j] = "finished"]
  /\ outcome' = [outcome EXCEPT ![j] = o]
  /\ UNCHANGED over

Report(j) ==
  /\ over = "no" /\ phase[j] = "finished"
  /\ phase' = [phase EXCEPT ![j] = "reported"]
  /\ UNCHANGED <<outcome, over>>

Complete ==
  /\ over = "no" /\ \A j \in Job : phase[j] = "reported"
  /\ over' = "complete"
  /\ UNCHANGED <<phase, outcome>>

Fail ==
  /\ over = "no"
  /\ over' = "failed"
  /\ UNCHANGED <<phase, outcome>>

Next ==
  \/ \E j \in Job : Start(j) \/ Report(j) \/ \E o \in {"result", "error"} : Finish(j, o)
  \/ Complete \/ Fail

Spec == Init /\ [][Next]_vars
=============================================================================
