---------------------------- MODULE JobLifecycle ----------------------------
(***************************************************************************)
(* What the job API promises to whoever polls GET /jobs/:id: a job waits,  *)
(* runs, may wait and run again, and ends once, as completed or, after     *)
(* MaxRetries failed attempts, as failed.  How ids travel, who runs a job  *)
(* and what a crash loses is left to JobQueue, which implements this.      *)
(***************************************************************************)
EXTENDS Naturals

CONSTANTS
  Jobs,
  MaxRetries   \* attempts before a job may be reported as failed

VARIABLES
  state,    \* what a poller sees of each job
  attempts  \* failed attempts so far

vars == <<state, attempts>>

Ends == {"completed", "failed"}

Init ==
  /\ state = [j \in Jobs |-> "none"]
  /\ attempts = [j \in Jobs |-> 0]

Move(j, from, to) ==
  /\ state[j] = from
  /\ state' = [state EXCEPT ![j] = to]

Submit(j) == Move(j, "none", "queued") /\ UNCHANGED attempts
Start(j)  == Move(j, "queued", "processing") /\ UNCHANGED attempts

Attempt(j) ==
  /\ state[j] = "processing"
  /\ attempts' = [attempts EXCEPT ![j] = @ + 1]
  /\ UNCHANGED state

\* After a failed attempt, or because its worker died.
Again(j)  == Move(j, "processing", "queued") /\ UNCHANGED attempts
Finish(j) == Move(j, "processing", "completed") /\ UNCHANGED attempts

GiveUp(j) ==
  /\ attempts[j] >= MaxRetries
  /\ Move(j, "processing", "failed")
  /\ UNCHANGED attempts

\* The jobs of a merchant that leaves disappear together.
Forget(S) ==
  /\ state' = [j \in Jobs |->
       IF j \in S /\ state[j] # "none" THEN "gone" ELSE state[j]]
  /\ UNCHANGED attempts

Next ==
  \/ \E j \in Jobs :
       Submit(j) \/ Start(j) \/ Attempt(j) \/ Again(j) \/ Finish(j) \/ GiveUp(j)
  \/ \E S \in SUBSET Jobs : Forget(S)

Spec == Init /\ [][Next]_vars
=============================================================================
